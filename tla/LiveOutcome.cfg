SPECIFICATION Spec
CONSTANTS
  None = None
  Partial = Partial
  Commits = {c1, c2}
  ServiceAccounts = {a1}
  InterruptibleChoices = {FALSE}
  WebhooksEnabled = TRUE
  UpdatesWhileDeleting = FALSE
  FaultKinds <- HonestFaults
  MaxUid = 1
  MaxGeneration = 3
  MaxFaults = 3
SYMMETRY Symmetry
INVARIANTS ReadyIsApplied CleanedUp
PROPERTY ImplementsLifecycle
CHECK_DEADLOCK FALSE
