CONSTANTS
    q1 = q1
    q2 = q2
    d1 = d1
    Rows = {q1, q2}
    Keys <- MCKeys
    Debounce = 1
    MaxRetries = 2
    Deliveries <- AllDeliveries
    Whitelist <- MCWhitelist
    PoolMax = 2
    JsonCodec = TRUE
    MayFail = TRUE
    MaxTime = 0
    Dispatchers = {d1}
    NoRow = NoRow
    BatchSize = 2
    MaxBackoff = 120
    TxLag = 1
    Skew = 0
    MaxRefusals = 1
    MaxLosses = 1
    MaxHangs = 0
SPECIFICATION Spec
SYMMETRY Symmetry
INVARIANTS
    TypeOK
    OnlyAdmittedSent
PROPERTIES
    ImplementsOutbox
    ImplementsDelivery
