SPECIFICATION ClientFairSpec
CONSTANTS
    s1 = s1
    s2 = s2
    NoStream = NoStream
    Calls = 5
    StreamOf <- MCStreamOf
    CountOf <- MCCountOf
    Windows <- MCWindows
    DefaultWindow <- MCDefaultWindow
    MaxHellos = 1
    MaxLosses = 1
INVARIANTS
    ClientIInv
    
PROPERTIES
    QueueMoves
CHECK_DEADLOCK FALSE
