CONSTANTS
    q1 = q1
    q2 = q2
    d1 = d1
    Rows = {q1, q2}
    Keys <- OneKey
    Debounce = 1
    MaxRetries = 2
    Deliveries <- OneEvent
    Whitelist <- MCWhitelist
    PoolMax = 2
    JsonCodec = TRUE
    MayFail = FALSE
    MaxTime = 0
    Dispatchers = {d1}
    NoRow = NoRow
    BatchSize = 2
    MaxBackoff = 120
    TxLag = 1
    Skew = 0
    MaxRefusals = 1
    MaxLosses = 1
    MaxHangs = 1
SPECIFICATION FairSpec
PROPERTIES
    EventsSettled
    AcknowledgedIsDelivered
    EveryRequestAnswered
    QueriesAnswered
