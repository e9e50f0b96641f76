\* A process the kernel starts after the reaper listed the processes.
SPECIFICATION SysSpec
CONSTANTS
  Requests = {1, 2}
  Owners = {"o1", "o2"}
  Agents = {"a", "b"}
  Models = {"flash"}
  AgentOf <- MCAgentOf
  ModelOf <- MCModelOf
  Children = {"o1", "o2"}
  NoChild = "null"
  NoOwner = "null"
  MaxActiveTurns = 1
  MaxConcurrentStarts = 1
  MinStartInterval = 1
  QueueTimeout = 1
  CapacityCooldown = 1
  DrainFrom = 2
  MaxTime = 1
  MaxLag = 0
  MaxGeneration = 1
  OwnerOf <- MCOwnerOf
  MayMove = {"o1"}
  MayCrash = {"o1"}
  LastArrival = 1
  MayFork = {"o1"}
PROPERTIES
  GroupGoneAtRelease
CHECK_DEADLOCK FALSE
