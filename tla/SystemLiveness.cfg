\* A connector that dies, its seat, and the turns that wait for it.
SPECIFICATION FairSpec
CONSTANTS
  Requests = {1, 2}
  Owners = {"o1", "o2"}
  Agents = {"a", "b"}
  Models = {"flash"}
  AgentOf <- MCAgentOf
  ModelOf <- MCModelOf
  Children = {"o1", "o2"}
  NoChild = "null"
  NoOwner = "null"
  MaxActiveTurns = 1
  MaxConcurrentStarts = 1
  MinStartInterval = 0
  QueueTimeout = 1
  CapacityCooldown = 1
  DrainFrom = 2
  MaxTime = 1
  MaxLag = 0
  MaxGeneration = 1
  OwnerOf <- MCOwnerOf
  MayMove = {}
  MayCrash = {"o1"}
  LastArrival = 0
  MayFork = {"o1"}
PROPERTIES
  DeadSeatFreed
  WaitEnds
CHECK_DEADLOCK FALSE
