SPECIFICATION FairSpec
CONSTANTS
    d1 = d1
    d2 = d2
    w1 = w1
    w2 = w2
    NoRow = NoRow
    NoDomain = NoDomain
    Rows <- MCOneRow
    Domains <- MCDomains
    TargetsOf <- MCOneTargets
    ExtensionRows <- MCNoExtension
    Workers <- MCWorkers
    MaxAttempts = 2
    BatchSize = 2
    PeerLimit = 1
    ScanLimit = 1
    MaxCrashes = 1
PROPERTIES
    DueRowsReenqueued
CHECK_DEADLOCK FALSE
