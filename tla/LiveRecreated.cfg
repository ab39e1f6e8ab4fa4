SPECIFICATION Spec
CONSTANTS
  None = None
  Partial = Partial
  Commits = {c1, c2}
  ServiceAccounts = {a1}
  InterruptibleChoices = {FALSE}
  WebhooksEnabled = TRUE
  UpdatesWhileDeleting = FALSE
  FaultKinds = {}
  MaxUid = 2
  MaxGeneration = 1
  MaxFaults = 0
INVARIANT CleanedUp
CHECK_DEADLOCK FALSE
