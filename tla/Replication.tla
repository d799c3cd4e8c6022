---------------------------- MODULE Replication ----------------------------
(***************************************************************************)
(* A master and a replica of the same server code, composed through the    *)
(* replication stream.  Each side is an instance of Server.  What the      *)
(* master's call() hands to propagate() with the replication target, and   *)
(* what its write commands propagate, is appended                          *)
(* to the link in order; the replica's master client applies the head of   *)
(* the link through its own processCommand (server.c:1774) or, for the     *)
(* writes, through setKey / setExpire as the write commands do.            *)
(*                                                                         *)
(* Expiry on the two sides: the master deletes an expired key when a       *)
(* lookup finds it, and propagateExpire hands nothing to the link           *)
(* (db.c:193-195); the replica never deletes an expired key itself but     *)
(* hides it from reads (db.c:42-67, 164).                                  *)
(*                                                                         *)
(* Each side reads its own clock (mstime(), server.c:379-392): `now` on    *)
(* the master, `rnow` on the replica.  They advance separately and stay    *)
(* within MaxSkew of each other, the skew of two hosts' wall clocks.       *)
(***************************************************************************)
EXTENDS Naturals, Sequences

CONSTANTS
    Keys, NIL, NOEXP, MaxTime, NotifyClasses,
    MasterClients,  \* clients of the master
    LinkClient,     \* the replica's client for its master (CLIENT_MASTER)
    Readers,        \* the replica's ordinary clients, which only read
    MaxArgs,
    MaxLink,        \* bound on the replication stream's backlog
    MaxSkew         \* bound on the distance between the two clocks

ASSUME MaxSkew \in Nat

VARIABLES mstore, mclients, mlast, rstore, rclients, rlast, now, rnow, link

mvars == <<mstore, mclients, mlast, now>>
rvars == <<rstore, rclients, rlast, rnow>>
vars == <<mstore, mclients, mlast, rstore, rclients, rlast, now, rnow, link>>

M == INSTANCE Server
       WITH store <- mstore, clients <- mclients, last <- mlast,
            Clients <- MasterClients, Registered <- {"get", "del"},
            RequestNames <- {"get", "del"}, Replica <- FALSE, Loading <- FALSE,
            RequirePass <- FALSE, PersistError <- FALSE, MaxQueue <- 1,
            ClockMayAdvance <- FALSE

R == INSTANCE Server
       WITH store <- rstore, clients <- rclients, last <- rlast, now <- rnow,
            Clients <- {LinkClient} \cup Readers, Registered <- {"get", "del"},
            RequestNames <- {"get", "del"}, Replica <- TRUE, Loading <- FALSE,
            RequirePass <- FALSE, PersistError <- FALSE, MaxQueue <- 1,
            ClockMayAdvance <- FALSE

\* A command on the replication stream.
Msg(cmd, argv, val, when) == [cmd |-> cmd, argv |-> argv, val |-> val, when |-> when]

\* The operations of a step that propagate() sent to the replicas, in order.
ReplTargeted(props) ==
    LET repl == SelectSeq(props, LAMBDA p : "repl" \in p.target)
    IN  [i \in 1..Len(repl) |-> Msg(repl[i].cmd, repl[i].argv, NIL, 0)]

Init ==
    /\ M!Init
    /\ R!Init
    /\ link = <<>>

\* A client command on the master; what call() propagated joins the link.
MasterCommand(c, name, argv) ==
    /\ Len(link) < MaxLink
    /\ M!ClientCommand(c, name, argv, M!NoTick)
    /\ link' = link \o ReplTargeted(mstore'.props)
    /\ UNCHANGED rvars

\* A write command on the master calls setKey; it dirties the dataset, so
\* call() propagates it.
MasterSetKey(k, v) ==
    /\ Len(link) < MaxLink
    /\ M!WriterSetKey(k, v)
    /\ link' = Append(link, Msg("set", <<k>>, v, 0))
    /\ UNCHANGED rvars

\* A write command sets an expire; it propagates only when the key was there
\* to receive it (the command replies 0 and dirties nothing otherwise).
MasterSetExpire(k, t) ==
    /\ Len(link) < MaxLink
    /\ M!WriterSetExpire(k, t)
    /\ link' = IF mstore'.dict[k] # NIL THEN Append(link, Msg("pexpireat", <<k>>, NIL, t))
               ELSE link
    /\ UNCHANGED rvars

\* The replica's master client executes the next command of the stream.
ReplicaApply ==
    /\ link # <<>>
    /\ LET m == Head(link)
       IN  \/ m.cmd = "set" /\ R!WriterSetKey(m.argv[1], m.val)
           \/ m.cmd = "pexpireat" /\ R!WriterSetExpire(m.argv[1], m.when)
           \/ m.cmd \notin {"set", "pexpireat"}
              /\ R!ClientCommand(LinkClient, m.cmd, m.argv, R!NoTick)
    /\ link' = Tail(link)
    /\ UNCHANGED mvars

\* An ordinary client of the replica sends GET.
ReaderGet(c, k) ==
    /\ R!ClientCommand(c, "get", <<k>>, R!NoTick)
    /\ UNCHANGED <<mvars, link>>

\* The master's clock moves on, as far as the skew allows.
MasterTick ==
    /\ now + 1 - rnow <= MaxSkew
    /\ M!Tick
    /\ UNCHANGED <<rvars, link>>

\* The replica's clock moves on, as far as the skew allows.
ReplicaTick ==
    /\ rnow + 1 - now <= MaxSkew
    /\ R!Tick
    /\ UNCHANGED <<mvars, link>>

Next ==
    \/ \E c \in MasterClients, q \in M!Request : MasterCommand(c, q.name, q.argv)
    \/ \E k \in Keys, v \in M!ObjTypes : MasterSetKey(k, v)
    \/ \E k \in Keys, t \in M!Times : MasterSetExpire(k, t)
    \/ ReplicaApply
    \/ \E c \in Readers, k \in Keys : ReaderGet(c, k)
    \/ MasterTick
    \/ ReplicaTick

Spec == Init /\ [][Next]_vars

-----------------------------------------------------------------------------

TypeOK ==
    /\ M!TypeOK
    /\ R!TypeOK
    /\ link \in Seq([cmd : {"set", "pexpireat", "get", "del"}, argv : M!Argvs,
                     val : M!ObjTypes \cup {NIL}, when : M!Times])

\* The state that decides what can happen next.  A step starts from
\* StepStart, which clears dirty, events and props, and writes last afresh;
\* no guard reads them and the properties read only their primed values, so
\* two states that differ only there have the same futures.  TLC's VIEW.
Durable(st) == [dict |-> st.dict, expires |-> st.expires, panic |-> st.panic]
View == <<Durable(mstore), Durable(rstore), mclients, rclients, now, rnow, link>>

\* What GET k replies to an ordinary client of each side right now.
MasterGetReply(k) == M!GetCommand(mstore, M!Ctx("get", FALSE), k).reply
ReplicaGetReply(k) == R!GetCommand(rstore, R!Ctx("get", FALSE), k).reply

\* Deadline d has passed on exactly one of the two clocks.
BetweenClocks(d) ==
    /\ d # NOEXP
    /\ IF now <= rnow THEN now <= d /\ d < rnow ELSE rnow <= d /\ d < now

\* Once the replica has applied the whole stream, GET gives a client of the
\* replica the reply it gives a client of the master, and a key readable on
\* both carries the same deadline, except for a key whose deadline has
\* passed on one clock and not yet on the other.  The master expires keys
\* lazily and propagateExpire sends nothing (db.c:185-199), so the replica
\* keeps every key the master expired; the replies agree only because
\* lookupKeyRead on a replica hides a key past its deadline from read-only
\* commands (db.c:57-67) by the test expireIfNeeded applies on the master
\* (db.c:164-167), each against its own mstime().
ReplicaMirrorsMaster ==
    link = <<>> =>
        \A k \in Keys :
            /\ MasterGetReply(k) # ReplicaGetReply(k) => BetweenClocks(rstore.expires[k])
            /\ MasterGetReply(k).type # "nil" /\ ReplicaGetReply(k).type # "nil"
               => mstore.expires[k] = rstore.expires[k]

\* The replica's own invariants, now under the stream its master really
\* sends: setKey of a key the replica still holds past its deadline never
\* trips dbAdd's assertion (db.c:304, 331-338) ...
ReplicaNoPanic == R!NoPanic

\* ... it removes a key only when a DEL from the stream names it, never by
\* expiry on its own (db.c:159-163) ...
ReplicaRemovalJustified == R!RemovalJustified

\* ... its readers never see a key past the replica's deadline (db.c:57-67) ...
ReplicaReadNeverStale == R!ReadNeverStale

\* ... and what it runs reaches its own sink exactly when it dirtied the
\* dataset (server.c:1665-1732).
ReplicaPropagatedIffDirty == R!PropagatedIffDirty

=============================================================================
