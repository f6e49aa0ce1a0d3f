SPECIFICATION FairSpec
CONSTANTS
    MaxTransfers = 2
    EventBound = 2
    RingSize = 4
    Quirks = {"qup"}
INVARIANT TypeOK
INVARIANT DeferralSound
PROPERTY CallsComplete
CHECK_DEADLOCK FALSE
