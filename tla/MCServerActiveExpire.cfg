\* A master whose event loop runs beforeSleep fairly: is an expired key that
\* nobody reads ever reclaimed?
CONSTANTS
    c1 = c1
    c2 = c2
    k1 = k1
    k2 = k2
    Clients <- MCClients
    Keys <- MCKeys
    NIL = NIL
    NOEXP = NOEXP
    MaxTime = 2
    NotifyClasses = {"K", "E", "g", "x"}
    Registered = {"get", "del"}
    RequestNames = {"get", "del", "multi", "quit"}
    Replica = FALSE
    Loading = FALSE
    RequirePass = FALSE
    PersistError = FALSE
    MaxArgs = 2
    MaxQueue = 1
    ClockMayAdvance = FALSE

SPECIFICATION LiveSpec

PROPERTY ExpiredKeysReclaimed
