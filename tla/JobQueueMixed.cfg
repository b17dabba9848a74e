\* A history collection and a publication in one worker with two slots.
SPECIFICATION Spec
CONSTANTS
  a = a
  p = p
  h = h
  Jobs = {h, p}
  Executors = {w1}
  NoExecutor = NoExecutor
  Type <- MCType
  DefaultMaxAttempts = 1
  PublicationMaxAttempts = 1
  RecoveryLimit = 1
  DeferLimit = 0
  RetryGrant = 1
  LeaseTTL = 1
  Concurrency = 2
  MaxRetries = 1
  Deletable = TRUE
INVARIANTS
  AttemptBudget
  SeenAreEnded
PROPERTIES
  OnlyHolderCommits
  EndingsAreFinal
