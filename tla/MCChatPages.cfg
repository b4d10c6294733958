SPECIFICATION Spec
CONSTANTS
    Conversations = {"c1", "c2"}
    Base = 3
    Timers = 2
    MaxMoves = 3
    Texts = {"a", "b"}
    MaxSessions = 2
    MaxTurns = 3
    MaxAlone = 4
    MaxTime = 13
    MaxDrafts = 2
    MaxRecordings = 2
    MaxDuration = 2
CHECK_DEADLOCK FALSE
INVARIANTS
    EnterSendsOnce
    VoiceHolds
    
PROPERTIES
    PlaceRestored
