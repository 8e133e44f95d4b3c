CONSTANTS
    MaxChanges = 3
    MaxStarts = 2
SPECIFICATION FairSpec
INVARIANTS
    TypeOK
    PublisherAlive
    NoUseAfterClose
    CleanShutdown
    ReadinessHonest
PROPERTIES
    ShutdownTerminates
