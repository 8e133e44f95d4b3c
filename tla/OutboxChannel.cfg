CONSTANTS
    r1 = r1
    r2 = r2
    d1 = d1
    d2 = d2
    k1 = k1
    Rows = {r1, r2}
    Keys = {k1}
    Dispatchers = {d1}
    NoRow = NoRow
    Debounce = 1
    MaxRetries = 2
    BatchSize = 2
    MaxBackoff = 120
    TxLag = 0
    Skew = 0
    MaxRefusals = 1
    MaxLosses = 0
SPECIFICATION Spec
PROPERTIES
    ClosedChannelReacquired
