\* A master whose table also registers MULTI, EXEC, DISCARD and WATCH (the
\* rows commented out at server.c:264-266,289): does EXEC end a transaction?
CONSTANTS
    c1 = c1
    c2 = c2
    k1 = k1
    k2 = k2
    Clients <- MCClients
    Keys <- MCKeys
    NIL = NIL
    NOEXP = NOEXP
    MaxTime = 2
    NotifyClasses = {"K", "E", "g", "x"}
    Registered = {"get", "del", "multi", "exec", "discard", "watch"}
    RequestNames = {"get", "del", "multi", "exec", "discard", "watch"}
    Replica = FALSE
    Loading = FALSE
    RequirePass = FALSE
    PersistError = FALSE
    MaxArgs = 2
    MaxQueue = 2
    ClockMayAdvance = FALSE

SPECIFICATION Spec

PROPERTY ExecEndsTransaction
