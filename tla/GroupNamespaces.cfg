SPECIFICATION FairSpec
CONSTANTS
  n1 = n1
  n2 = n2
  b1 = b1
  b2 = b2
  Namespaces = {n1, n2}
  Branches = {b1, b2}
  Match <- MatchOneEach
  FaultKinds = {}
  PollIntervalSeconds = 0
  MaxId = 5
  MaxGroups = 2
  MaxPushes = 2
  MaxFaults = 0

PROPERTY PrunedOnlyForDeletedBranch
CHECK_DEADLOCK FALSE
