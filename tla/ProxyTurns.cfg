\* Two turns of one session, one of another whose store transactions may fail.
SPECIFICATION FairSpec
CONSTANTS
  Prompts = {"p1", "p2", "p3"}
  Sessions = {"s1", "s2"}
  SessionOf <- MCSessionOf
  NoPrompt = "none"
  MayFail = {"p3"}
INVARIANTS
  TypeOK
  TurnHoldsClaim
  AnsweredWhenDone
  OneTurnPerSession
  CancelDeadlines
PROPERTIES
  CancelEnds
  ShutdownEnds
CHECK_DEADLOCK FALSE
