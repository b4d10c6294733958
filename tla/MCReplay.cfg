SPECIFICATION FairSpec
CONSTANTS
    m1 = m1
    m2 = m2
    h1 = h1
    h2 = h2
    Objects <- MCObjects
    Handlers <- MCHandlers
    HasSnapshot = FALSE
    MayBurn = FALSE
    Overlap = FALSE
    ReplayLimit = 1
    MaxWrites = 3
    MaxFailures = 0
INVARIANTS
    ReplayIsExact
PROPERTIES
    Converges
CHECK_DEADLOCK FALSE
