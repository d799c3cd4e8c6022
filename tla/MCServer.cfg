\* A master with the command table of this build (GET and DEL), every keyspace
\* event class enabled, two clients, two keys, a clock of three ticks.
CONSTANTS
    c1 = c1
    c2 = c2
    k1 = k1
    k2 = k2
    Clients <- MCClients
    Keys <- MCKeys
    NIL = NIL
    NOEXP = NOEXP
    MaxTime = 2
    NotifyClasses = {"K", "E", "g", "x"}
    Registered = {"get", "del"}
    RequestNames = {"get", "del", "multi", "quit"}
    Replica = FALSE
    Loading = FALSE
    RequirePass = FALSE
    PersistError = FALSE
    MaxArgs = 2
    MaxQueue = 1
    ClockMayAdvance = FALSE

SPECIFICATION Spec

INVARIANT TypeOK
INVARIANT ExpiresInDict
INVARIANT NoPanic
PROPERTY RemovalJustified
PROPERTY ReadNeverStale
PROPERTY EventsMatchRemovals
PROPERTY PropagatedIffDirty
PROPERTY RefinesKeyValueTTL
