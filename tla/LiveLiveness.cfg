SPECIFICATION FairSpec
CONSTANTS
  None = None
  Partial = Partial
  Commits = {c1, c2}
  ServiceAccounts = {a1}
  InterruptibleChoices = {TRUE, FALSE}
  WebhooksEnabled = TRUE
  UpdatesWhileDeleting = TRUE
  FaultKinds = {"crash", "error", "lostReply", "applyFails", "destroyFails"}
  MaxUid = 1
  MaxGeneration = 2
  MaxFaults = 2
PROPERTIES Settles DeletedEventuallyGone
CHECK_DEADLOCK FALSE
