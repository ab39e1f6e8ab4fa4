SPECIFICATION Spec
CONSTANTS
  None = None
  Partial = Partial
  Commits = {c1, c2}
  ServiceAccounts = {a1}
  InterruptibleChoices = {FALSE}
  WebhooksEnabled = TRUE
  UpdatesWhileDeleting = FALSE
  FaultKinds = {"destroyFails"}
  MaxUid = 1
  MaxGeneration = 2
  MaxFaults = 1
INVARIANT CleanedUp
CHECK_DEADLOCK FALSE
