SPECIFICATION MCSpec
CONSTANTS
    me = me
    p = p
    q = q
    dm = dm
    group = group
    Devices <- MCDevices
    Me = me
    Convs <- MCConvs
    Registered <- MCRegistered
    MaxDevices = 3
    MaxKeys = 2
    MaxActs = 3
    MaxPasswords = 2
    MaxGrants = 2
    MaxEvents = 4
    MaxFile = 1
CHECK_DEADLOCK FALSE
INVARIANTS
    PagesHold
    AudienceReads
PROPERTIES
    ClientsSettle
