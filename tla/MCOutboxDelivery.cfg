SPECIFICATION FairSpec
CONSTANTS
    d1 = d1
    d2 = d2
    w1 = w1
    w2 = w2
    NoRow = NoRow
    NoDomain = NoDomain
    Rows <- MCRows
    Domains <- MCDomains
    TargetsOf <- MCTargets
    ExtensionRows <- MCExtensionRows
    Workers <- MCWorkers
    MaxAttempts = 3
    BatchSize = 2
    PeerLimit = 1
    ScanLimit = 1
    MaxCrashes = 1
INVARIANTS
    StatusMeans
    NothingPushedTwice
PROPERTIES
    EventuallySettled
CHECK_DEADLOCK FALSE
