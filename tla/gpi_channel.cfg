SPECIFICATION Spec
CONSTANTS
  MaxRequests = 4
  MaxLate = 2
  MaxFaults = 1
INVARIANTS
  ActiveIsOperational
  NoFreedRing
  ReleasedIsClean
CHECK_DEADLOCK FALSE
