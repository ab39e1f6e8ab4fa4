SPECIFICATION Spec
CONSTANTS
  None = None
  Partial = Partial
  Commits = {c1, c2}
  ServiceAccounts = {"", "default", a1}
  InterruptibleChoices = {TRUE, FALSE}
  WebhooksEnabled = TRUE
  UpdatesWhileDeleting = TRUE
  FaultKinds = {"crash", "error", "lostReply", "applyFails", "destroyFails"}
  MaxUid = 2
  MaxGeneration = 2
  MaxFaults = 2
SYMMETRY Symmetry
INVARIANTS TypeOK ApplyingWhileApplierRuns DestroyOnlyWhenDeleted DestroyAsApplied QuiescentMeansDone
PROPERTY RunningApplyNotInterrupted
CHECK_DEADLOCK FALSE
