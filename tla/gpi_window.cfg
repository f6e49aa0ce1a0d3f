SPECIFICATION Spec
CONSTANTS
    MaxTransfers = 1
    EventBound = 2
    RingSize = 4
    Quirks = {"qup"}
INVARIANT DeferredIsLive
CHECK_DEADLOCK FALSE
