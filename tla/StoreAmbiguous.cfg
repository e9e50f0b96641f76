\* A dispatch that becomes ambiguous, and its stored prompt.
SPECIFICATION Spec
CONSTANTS
  Requests = {1, 2}
  Owners = {"o1"}
  Agents = {"a", "b"}
  Models = {"flash"}
  AgentOf <- MCAgentOf
  ModelOf <- MCModelOf
  Children = {"k1"}
  NoChild = "null"
  NoOwner = "null"
  MaxActiveTurns = 2
  MaxConcurrentStarts = 1
  MinStartInterval = 1
  QueueTimeout = 1
  CapacityCooldown = 1
  DrainFrom = 2
  MaxTime = 1
  MaxLag = 0
  MaxGeneration = 1
INVARIANTS
  AmbiguousHoldsNoPayload
CHECK_DEADLOCK FALSE
