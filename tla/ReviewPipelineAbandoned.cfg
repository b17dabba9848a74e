\* The same instance, asked whether giving up a job is final.
SPECIFICATION Spec
CONSTANTS
  h1 = h1
  h2 = h2
  alice = alice
  Heads = {h1, h2}
  Start = h1
  Scopes = {alice}
  RecoveryLimit = 1
  Slots = 2
  MaxOperations = 2
  MaxAnalyses = 2
  MaxClaims = 3
CHECK_DEADLOCK FALSE
PROPERTIES
  AbandonedStays
