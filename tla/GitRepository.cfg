SPECIFICATION BuildSpec
CONSTANTS
  None = None
  c1 = c1
  c2 = c2
  Urls = {u1}
  Commits = {c1, c2}
  FaultKinds = {"remote", "mkdir", "fetch", "checkout", "crash"}
  MaxFaults = 2
  MaxChanges = 3
  Names <- MCNames
  Ids <- MCIds
  Trees <- MCTrees
  Layers <- MCLayers
  LiveName = "live"
  Uid = "uid"
  Depth = 5
INVARIANTS TypeOK BuildsWholeCommit AppliesTheCommit
PROPERTY EventuallyBuilt
CHECK_DEADLOCK FALSE
