SPECIFICATION Spec
CONSTANTS
  MaxTransfers = 2
  EventBound = 2
  RingSize = 4
  Quirks = {"same_tre", "next_tre", "error", "eob", "residue"}
INVARIANTS
  RingSafe
PROPERTIES
  CallbackInTime
  EventsStayOwn
CHECK_DEADLOCK FALSE
