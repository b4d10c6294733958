SPECIFICATION Spec
CONSTANTS
    MaxPasswords = 2
    Tabs = {t1, t2}
    Hosts = {h1, h2}
    Accounts = {a1}
    Slots = {1, 2}
    NoRec = NoRec
    MaxEvents = 3
SYMMETRY Symmetric
CHECK_DEADLOCK FALSE
INVARIANTS
    FillsHold
    
    SaveKeepsSite
