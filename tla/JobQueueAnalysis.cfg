\* One analysis job, two workers with two slots each, under fairness.
SPECIFICATION FairSpec
CONSTANTS
  a = a
  p = p
  h = h
  Jobs = {a}
  Executors = {w1, w2}
  NoExecutor = NoExecutor
  Type <- MCType
  DefaultMaxAttempts = 2
  PublicationMaxAttempts = 1
  RecoveryLimit = 1
  DeferLimit = 1
  RetryGrant = 1
  LeaseTTL = 2
  Concurrency = 2
  MaxRetries = 0
  Deletable = FALSE
INVARIANTS
  TypeOK
  OneOpenAttempt
  NoStrandedJob
PROPERTIES
  ImplementsJobLease
  EveryJobEnds
