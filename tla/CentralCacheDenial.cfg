\* Two processes, an access that is taken away, two faults.
SPECIFICATION DeliverySpec
CONSTANTS
  Parts = {a}
  Contents = {c1}
  MaxAuthorization = 2
  MaxSequence = 1
  Processes = {p1, p2}
  None = None
  OfflineLease = 2
  MaxGeneration = 3
  MaxTime = 0
  MaxEvents = 6
  MaxFaults = 2
SYMMETRY Symmetry
CHECK_DEADLOCK FALSE
INVARIANTS
  LostDenialHolds
