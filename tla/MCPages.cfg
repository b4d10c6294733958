SPECIFICATION Spec
CONSTANTS
    MaxTokens = 3
    MaxTurns = 5
    Posts = {"p1", "p2"}
    MinDwell = 3
    ScrollPast = 2
    MaxSeen = 4
    MaxReads = 7
    Cards = {"g1", "g2"}
    Ids = {"n1", "n2"}
    MaxVisits = 5
    Tokens = {"a", "b", "c"}
    MaxGestures = 3
    Roots = {"d1", "d2"}
    Triggers = {"t1", "t2"}
    MaxClicks = 5
    Mails = {"m1", "m2"}
    MaxKeys = 6
    MaxFeedTurns = 4
CHECK_DEADLOCK FALSE
INVARIANTS
    DwellReported
    MenusAlone
    TokenSpentOnce
    SelectionIsTrue
    MarksReported

    
