SPECIFICATION Spec
CONSTANTS
  ErrorLimit = 2
  ResetAttempts = 2
  InitRetries = 3
  Versions = {"good", "bad"}
  MaxActs = 1
  BusLength = 3
INVARIANTS
  TypeOK
  StormStopsIrq
  RegisteredHasReport
CHECK_DEADLOCK FALSE
