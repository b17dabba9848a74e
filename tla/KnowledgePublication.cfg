\* The policy and the memory of a user, two workers, and two changes, or a
\* change and a fault.
SPECIFICATION FairSpec
CONSTANTS
  Parts = {"policy", "personal"}
  Workers = {w1, w2}
  NoWorker = NoWorker
  MaxChanges = 2
  MaxFaults = 1
  MaxHistory = 2
CHECK_DEADLOCK FALSE
INVARIANTS
  TypeOK
  ReleaseMatchesSource
PROPERTIES
  ImplementsFeed
  EveryRequestIsPublished
