\* Two requests that may start together, timestamps up to one tick old, two kernel
\* children.
SPECIFICATION Spec
CONSTANTS
  Requests = {1, 2}
  Owners = {"o1"}
  Agents = {"a", "b"}
  Models = {"flash"}
  AgentOf <- MCAgentOf
  ModelOf <- MCModelOf
  Children = {k1, k2}
  NoChild = "null"
  NoOwner = "null"
  MaxActiveTurns = 2
  MaxConcurrentStarts = 2
  MinStartInterval = 1
  QueueTimeout = 1
  CapacityCooldown = 1
  DrainFrom = 2
  MaxTime = 2
  MaxLag = 1
  MaxGeneration = 1
SYMMETRY ChildSymmetry
INVARIANTS
  LeasedAtMostOnce
  StartsSpaced
  NoReplayablePayload
PROPERTIES
  OnlyDocumentedTransitions
  FencesHold
CHECK_DEADLOCK FALSE
