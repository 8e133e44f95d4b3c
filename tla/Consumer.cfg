CONSTANTS
    c1 = c1
    c2 = c2
    Consumers = {c1, c2}
    Messages = {1, 2}
    Malformed = {1}
    Prefetch = 1
    MaxTransient = 1
    MaxDrops = 2
SPECIFICATION FairSpec
INVARIANTS
    TypeOK
    NothingLost
    SlotsAccounted
    DuplicatesNeedDrops
PROPERTIES
    ReadableSettled
