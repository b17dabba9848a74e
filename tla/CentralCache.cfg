\* Two processes, two parts, two contents; up to three generations, three events of
\* the server or the clock, and a fault, four in all.
SPECIFICATION DeliverySpec
CONSTANTS
  Parts = {a, b}
  Contents = {c1, c2}
  MaxAuthorization = 2
  MaxSequence = 2
  Processes = {p1, p2}
  None = None
  OfflineLease = 2
  MaxGeneration = 4
  MaxTime = 2
  MaxEvents = 4
  MaxFaults = 1
SYMMETRY Symmetry
CONSTRAINT WithinBounds
CHECK_DEADLOCK FALSE
INVARIANTS
  TypeOK
  ActiveIsComplete
  NoRollback
  ActiveOfConnection
  ReadsWereOffered
PROPERTIES
  OnlyOwnDenial
