CONSTANTS
    q1 = q1
    q2 = q2
    q3 = q3
    Rows = {q1, q2}
    Keys <- MCKeys
    Debounce = 1
    MaxRetries = 3
    Deliveries <- TwoCommits
    Whitelist <- MCWhitelist
    PoolMax = 2
    JsonCodec = TRUE
    MayFail = FALSE
    MaxTime = 1
SPECIFICATION Spec
INVARIANTS
    SupersededIsDropped
