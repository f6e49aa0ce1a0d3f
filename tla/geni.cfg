SPECIFICATION Spec
CONSTANTS
  Transfers <- MCTransfers
  PolledLengths <- MCPolledLengths
  Depth = 2
  MaxTransfers = 2
INVARIANTS
  TypeOK
  OwnCompletion
  StaysInHand
PROPERTIES
  TransferEnds
CHECK_DEADLOCK FALSE
