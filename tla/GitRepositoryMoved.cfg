SPECIFICATION FairSpec
CONSTANTS
  None = None
  Urls = {u1, u2}
  Commits = {c1, c2}
  FaultKinds = {}
  MaxFaults = 0
  MaxChanges = 1
PROPERTY EventuallyBuilt
CHECK_DEADLOCK FALSE
