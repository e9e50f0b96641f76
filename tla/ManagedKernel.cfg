\* Two connectors of one generation, or a connector and an operator of another.
SPECIFICATION MCSpec
CONSTANTS
  Procs = {"p0", "c1", "c2", "o1"}
  NoProc = "none"
  Past = {"p0"}
  Operators = {"o1"}
  MayCrash = {"c1", "o1"}
  g1 = g1
  g2 = g2
  m1 = m1
  m2 = m2
  Pins = {g1, g2}
  NoPins = nopins
  PinsOf <- MCPinsOf
  Modules = {m1, m2}
  Attempts = 2
  Leftovers <- MCLeftovers
  Upgrades <- MCUpgrades
INVARIANTS
  TypeOK
  OneWriter
  ActiveComplete
  ReleaseMatches
  OneInstaller
PROPERTIES
  ImplementsActiveRelease
  PinnedPayloadStays
  StartsWholeRelease
  RefusedOnlyWhenReplaced
  DeadWriterReplaced
  DeadInstallerReplaced
CHECK_DEADLOCK FALSE
