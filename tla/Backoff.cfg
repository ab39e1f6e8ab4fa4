SPECIFICATION Spec
CONSTANTS
  None = None
  Commits = {c1, c2}
  ServiceAccounts = {a1}
  Duration = 2
  Factor = 2
  Cap = 300
  TickSizes = {130}
  MaxTime = 420
  MaxRetries = 10
  MaxGeneration = 2
INVARIANTS TypeOK BackoffDoublesUpToCap RetryIsTimely EditIsTimely
PROPERTY RetriesArePaced
CHECK_DEADLOCK FALSE
