CONSTANTS
    q1 = q1
    q2 = q2
    q3 = q3
    t1 = t1
    s1 = s1
    s2 = s2
    Requests = {q1, q2, q3}
    TenantIds = {t1}
    Secrets = {s1, s2}
    None = None
    TTL = 2
    Lag = 1
    MaxTime = 5
    MaxChanges = 1
SPECIFICATION Spec
SYMMETRY Symmetry
INVARIANTS
    TypeOK
PROPERTIES
    StalenessBounded
    NoStaleRefusal
