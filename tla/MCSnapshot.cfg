SPECIFICATION FairSpec
CONSTANTS
    m1 = m1
    m2 = m2
    h1 = h1
    h2 = h2
    Objects <- MCObjects
    Handlers <- MCOneHandler
    HasSnapshot = TRUE
    MayBurn = TRUE
    Overlap = FALSE
    ReplayLimit = 1
    MaxWrites = 3
    MaxFailures = 1
PROPERTIES
    EventuallyAcked
    NothingRegresses
CHECK_DEADLOCK FALSE
