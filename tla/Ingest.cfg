CONSTANTS
    q1 = q1
    q2 = q2
    q3 = q3
    Rows = {q1, q2, q3}
    Keys <- MCKeys
    Debounce = 1
    MaxRetries = 3
    Deliveries <- AllDeliveries
    Whitelist <- MCWhitelist
    PoolMax = 2
    JsonCodec = TRUE
    MayFail = TRUE
    MaxTime = 1
SPECIFICATION Spec
SYMMETRY Symmetry
INVARIANTS
    TypeOK
    AckIsDurable
    CacheSound
    OneEventPerKey
    OnlyAdmittedStored
    JourneyTruthful
