\* A master with one client and a replica linked to it with one reader of its
\* own, two keys, clocks of four ticks at most one tick apart, a stream
\* backlog of two commands.
CONSTANTS
    Keys = {k1, k2}
    MasterClients = {c1}
    LinkClient = master
    Readers = {r1}
    NIL = NIL
    NOEXP = NOEXP
    MaxTime = 3
    NotifyClasses = {}
    MaxArgs = 2
    MaxLink = 2
    MaxSkew = 1

SPECIFICATION Spec
VIEW View

INVARIANT ReplicaMirrorsMaster
INVARIANT ReplicaNoPanic
PROPERTY ReplicaRemovalJustified
PROPERTY ReplicaReadNeverStale
PROPERTY ReplicaPropagatedIffDirty
