SPECIFICATION FairSpec
CONSTANTS
  n1 = n1
  n2 = n2
  b1 = b1
  b2 = b2
  Namespaces = {n1}
  Branches = {b1, b2}
  Match <- MatchAll
  FaultKinds = {"error", "list", "crash"}
  PollIntervalSeconds = 0
  MaxId = 3
  MaxGroups = 1
  MaxPushes = 2
  MaxFaults = 1
INVARIANT TypeOK
PROPERTIES PrunedOnlyForDeletedBranch Converges
CHECK_DEADLOCK FALSE
