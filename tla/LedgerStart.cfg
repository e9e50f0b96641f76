\* Three starts after one that is over.
SPECIFICATION MCSpec
CONSTANTS
  Lives = {"s0", "s1", "s2", "s3"}
  NoOne = "none"
  Past = {"s0"}
  Seats = {1, 3}
  Terms = {"shared", "other"}
  NoPolicy = NoPolicy
  PolicyOf <- MCPolicyOf
  Retries = 2
INVARIANTS
  TypeOK
  OneKey
  MigratedWhole
  ServingAgree
PROPERTIES
  NothingTakenBack
  StartEnds
CHECK_DEADLOCK FALSE
