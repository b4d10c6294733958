SPECIFICATION MCSpec
CONSTANTS
    a1 = a1
    a2 = a2
    b1 = b1
    s1 = s1
    s2 = s2
    k1 = k1
    k2 = k2
    h1 = h1
    h2 = h2
    h3 = h3
    c1 = c1
    c2 = c2
    c3 = c3
    c4 = c4
    peer = peer
    r1 = r1
    r2 = r2
    NoEvent = NoEvent
    Events <- MCEvents
    Streams <- MCStreams
    Keys <- MCKeys
    StreamOf <- MCStreamOf
    SeqOf <- MCSeqOf
    KeyOf <- MCKeyOf
    Handlers <- MCHandlers
    Checks <- MCChecks
    Buckets <- MCBuckets
    BatchOf <- MCBatchOf
    LimitOf <- MCLimitOf
    MaxWindow = 3
INVARIANTS
    AppliedOnce
    GaplessPrefix
    AckedMeansApplied
    KeyAppliedOnce
    CheckStillHolds
    BudgetsHold
PROPERTIES
    ImplementsStreamIngest
    EveryReceiveEnds
CHECK_DEADLOCK FALSE
