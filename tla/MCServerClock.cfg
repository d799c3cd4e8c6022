\* A master on which mstime() may move on between the keys of one DEL, as
\* expireIfNeeded reads it afresh for every key (db.c:155): does DEL still
\* count the keys alive at one instant?
CONSTANTS
    c1 = c1
    c2 = c2
    k1 = k1
    k2 = k2
    Clients <- MCClients
    Keys <- MCKeys
    NIL = NIL
    NOEXP = NOEXP
    MaxTime = 2
    NotifyClasses = {"K", "E", "g", "x"}
    Registered = {"get", "del"}
    RequestNames = {"get", "del", "multi", "quit"}
    Replica = FALSE
    Loading = FALSE
    RequirePass = FALSE
    PersistError = FALSE
    MaxArgs = 2
    MaxQueue = 1
    ClockMayAdvance = TRUE

SPECIFICATION Spec

INVARIANT DelCountAtOneInstant
