\* Requests of two reviews and a generation of criteria under one account, one batch slot.
SPECIFICATION Spec
CONSTANTS
  b1 = b1
  b2 = b2
  i1 = i1
  a1 = a1
  a2 = a2
  r1 = r1
  r2 = r2
  r3 = r3
  Callers = {b1, b2, i1}
  Runs = {r1, r2, r3}
  Waits = {b1, b2}
  Concurrency <- FourEach
  Accounts = {a1}
  AccountOf <- SharedAccount
  RunOf <- SharedRun
  LaneOf <- SharedLane
  MaxCalls <- OneCall
  BatchSlots = 1
  BatchBudget = 1
  Budget = 2
  GroupMax = 1
  RaiseAfter = 1
  LeaseTTL = 2
  PriorityTTL = 1
  Window = 1
  MaxRetry = 1
INVARIANTS
  SlotsKept
  WindowKept
  SentinelCovers
CHECK_DEADLOCK FALSE
