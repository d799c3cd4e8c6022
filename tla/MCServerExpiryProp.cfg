\* A master: does a key expired by a lookup reach the AOF/replication sink?
CONSTANTS
    c1 = c1
    c2 = c2
    k1 = k1
    k2 = k2
    Clients <- MCClients
    Keys <- MCKeys
    NIL = NIL
    NOEXP = NOEXP
    MaxTime = 2
    NotifyClasses = {"K", "E", "g", "x"}
    Registered = {"get", "del"}
    RequestNames = {"get", "del", "multi", "quit"}
    Replica = FALSE
    Loading = FALSE
    RequirePass = FALSE
    PersistError = FALSE
    MaxArgs = 2
    MaxQueue = 1
    ClockMayAdvance = FALSE

SPECIFICATION Spec

PROPERTY ExpiryPropagated
