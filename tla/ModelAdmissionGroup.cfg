\* Two grouped reviews under one account, one of them under another as well.
SPECIFICATION Spec
CONSTANTS
  b1 = b1
  b2 = b2
  i1 = i1
  a1 = a1
  a2 = a2
  r1 = r1
  r2 = r2
  r3 = r3
  Callers = {b1, b2, i1}
  Runs = {r1, r2, r3}
  Waits = {b1, b2, i1}
  Concurrency <- FourEach
  Accounts = {a1, a2}
  AccountOf <- GroupAccount
  RunOf <- GroupRun
  LaneOf <- GroupLane
  MaxCalls <- TwoAndOne
  BatchSlots = 2
  BatchBudget = 9
  Budget = 9
  GroupMax = 2
  RaiseAfter = 1
  LeaseTTL = 1
  PriorityTTL = 0
  Window = 1
  MaxRetry = 2
INVARIANTS
  TypeOK
  RunBudgetKept
PROPERTIES
  RetryAfterKept
  GroupKept
CHECK_DEADLOCK FALSE
