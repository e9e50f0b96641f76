\* Three turns of one session; the store fails around the write of the first.
SPECIFICATION Spec
CONSTANTS
  Prompts = {"p1", "p2", "p3"}
  Sessions = {"s1"}
  SessionOf <- MCSessionOfOne
  NoPrompt = "none"
  MayFail = {"p1"}
INVARIANTS
  OnePromptAtATime
CHECK_DEADLOCK FALSE
