SPECIFICATION LDFairSpec
CONSTANTS
  None = None
  Partial = Partial
  Commits = {1, 2}
  ServiceAccounts = {a1}
  InterruptibleChoices = {FALSE}
  WebhooksEnabled = TRUE
  UpdatesWhileDeleting = TRUE
  FaultKinds = {"crash", "applyFails"}
  MaxUid = 1
  MaxGeneration = 1
  MaxFaults = 1
  Template <- MCTemplate
  PollIntervalSeconds = 0
  MaxDeployments = 1
INVARIANTS LDTypeOK ReadyIsApplied
PROPERTIES OneCommitAtATime Converges
CHECK_DEADLOCK FALSE
