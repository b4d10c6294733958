SPECIFICATION Spec
CONSTANTS
    MaxClients = 3
    MaxRestarts = 1
    MaxEvents = 2
CHECK_DEADLOCK FALSE
INVARIANTS
    CandidatesKept
    
PROPERTIES
    ReportsInOrder
