SPECIFICATION Spec
CONSTANTS
  None = None
  Partial = Partial
  Commits = {c1, c2}
  ServiceAccounts = {a1}
  InterruptibleChoices = {TRUE}
  WebhooksEnabled = TRUE
  UpdatesWhileDeleting = FALSE
  FaultKinds = {}
  MaxUid = 1
  MaxGeneration = 3
  MaxFaults = 0
INVARIANT ReadyIsApplied
CHECK_DEADLOCK FALSE
