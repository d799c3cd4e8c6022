------------------------------- MODULE Server -------------------------------
(***************************************************************************)
(* The command pipeline of one server process (src/server.c: processCommand *)
(* and call) over the keyspace of Keyspace.tla, with the clients' state    *)
(* that the pipeline and the MULTI handlers of src/multi.c keep.           *)
(*                                                                         *)
(* The server runs one command to completion at a time, so a step is one  *)
(* whole processCommand() of one client.  Besides the clients, two actors *)
(* change the state:                                                       *)
(*   - a writer calling the store API (setKey, setExpire): on a master the *)
(*     write commands, on a replica the master link applying its stream.  *)
(*     No command registered in this build calls them (set and expire are *)
(*     commented out of the table), so they are the store's contract;      *)
(*   - the clock.                                                          *)
(***************************************************************************)
EXTENDS Keyspace, FiniteSets

CONSTANTS
    Clients,        \* the connected clients
    Registered,     \* the names in the live command table (server.c:150)
    RequestNames,   \* the command names clients send
    Replica,        \* server.masterhost != NULL
    Loading,        \* server.loading
    RequirePass,    \* server.requirepass != NULL
    PersistError,   \* last bgsave or AOF write failed (server.c:1862-1866)
    MaxArgs,        \* the longest argument list a client sends
    MaxQueue,       \* bound on a client's MULTI queue
    ClockMayAdvance \* mstime() may move on while one command runs

(***************************************************************************)
(* Rows of redisCommandTable (server.c:150-295) whose handlers are in src/: *)
(* arity and the flag letters; populateCommandTable (server.c:506-540)     *)
(* turns each letter into one flag bit, so the letters stand for the bits. *)
(***************************************************************************)
CommandTable ==
    [get |-> [arity |-> 2, flags |-> {"r", "F"}],
     del |-> [arity |-> -2, flags |-> {"w"}],
     multi |-> [arity |-> 1, flags |-> {"s", "F"}],
     exec |-> [arity |-> 1, flags |-> {"s", "M"}],
     discard |-> [arity |-> 1, flags |-> {"s", "F"}],
     watch |-> [arity |-> -2, flags |-> {"s", "F"}]]

ASSUME Registered \subseteq DOMAIN CommandTable
ASSUME Replica \in BOOLEAN /\ Loading \in BOOLEAN
ASSUME RequirePass \in BOOLEAN /\ PersistError \in BOOLEAN
ASSUME ClockMayAdvance \in BOOLEAN

\* c->flags bits the model distinguishes.
PropFlags == {"force_aof", "force_repl", "prevent_aof_prop", "prevent_repl_prop"}
ClientFlags == {"multi", "dirty_exec", "close_after_reply"} \cup PropFlags

\* The call() flags of CMD_CALL_FULL.
CallFull == {"slowlog", "stats", "propagate_aof", "propagate_repl"}

Argvs == UNION {[1..n -> Keys] : n \in 0..MaxArgs}

Request == [name : RequestNames, argv : Argvs]

ClientType == [authenticated : BOOLEAN, flags : SUBSET ClientFlags,
               queue : Seq(Request)]

ReplyTypes == {"ok", "queued", "nil", "bulk", "wrongtype", "int", "none",
               "err_unknown", "err_arity", "err_noauth", "err_misconf",
               "err_loading", "err_nested", "err_exec", "err_discard", "err_watch"}

Reply(type) == [type |-> type, n |-> 0]

VARIABLES
    store,      \* the keyspace (Keyspace.tla's store state)
    clients,    \* client -> its state
    now,        \* mstime()
    last        \* the step's request and reply: what the clients observe

vars == <<store, clients, now, last>>

NoStep == [client |-> "none", name |-> "none", argv |-> <<>>, reply |-> Reply("none"),
           liveAtStart |-> 0, liveAtEnd |-> 0]

\* No lookup of the command reads a later clock.
NoTick == MaxArgs + 1

\* The caller context of a command of client c named name.
Ctx(name, fromMaster) ==
    [now |-> now, tickAt |-> NoTick,
     loading |-> Loading, replica |-> Replica, fromMaster |-> fromMaster,
     readonly |-> name \in DOMAIN CommandTable /\ "r" \in CommandTable[name].flags]

\* What the step does is reported by the step: the counters start from zero.
StepStart(st) == [st EXCEPT !.dirty = 0, !.events = <<>>, !.props = <<>>]

(***************************************************************************)
(* multi.c handlers.  The bodies of execCommand after its first check       *)
(* (multi.c:109-158), of discardCommand (multi.c:42-43) and of            *)
(* watchCommand (multi.c:53-55) are commented out: past the check they   *)
(* change nothing and reply nothing.                                        *)
(***************************************************************************)
\* flagTransaction (multi.c:60-63)
FlagTransaction(cl) ==
    IF "multi" \in cl.flags THEN [cl EXCEPT !.flags = @ \cup {"dirty_exec"}] ELSE cl

\* queueMultiCommand (multi.c:66-80)
QueueMultiCommand(cl, name, argv) ==
    [cl EXCEPT !.queue = Append(@, [name |-> name, argv |-> argv])]

\* multiCommand (multi.c:82-89)
MultiCommand(cl) ==
    IF "multi" \in cl.flags THEN [cl |-> cl, reply |-> Reply("err_nested")]
    ELSE [cl |-> [cl EXCEPT !.flags = @ \cup {"multi"}], reply |-> Reply("ok")]

\* execCommand (multi.c:91-159)
ExecCommand(cl) ==
    IF "multi" \notin cl.flags THEN [cl |-> cl, reply |-> Reply("err_exec")]
    ELSE [cl |-> cl, reply |-> Reply("none")]

\* discardCommand (multi.c:37-44)
DiscardCommand(cl) ==
    IF "multi" \notin cl.flags THEN [cl |-> cl, reply |-> Reply("err_discard")]
    ELSE [cl |-> cl, reply |-> Reply("none")]

\* watchCommand (multi.c:46-56)
WatchCommand(cl) ==
    IF "multi" \in cl.flags THEN [cl |-> cl, reply |-> Reply("err_watch")]
    ELSE [cl |-> cl, reply |-> Reply("none")]

\* A handler of multi.c leaves the keyspace as it is.
WithStore(st, r) == [st |-> st, cl |-> r.cl, reply |-> r.reply]

\* c->cmd->proc(c): the handler of a registered command.  [st, cl, reply]
Proc(st, cl, ctx, name, argv) ==
    CASE name = "get" -> Bind(GetCommand(st, ctx, argv[1]), LAMBDA r :
                               [st |-> r.st, cl |-> cl, reply |-> r.reply])
      [] name = "del" -> Bind(DelCommand(st, ctx, argv), LAMBDA r :
                               [st |-> r.st, cl |-> cl, reply |-> r.reply])
      [] name = "multi" -> WithStore(st, MultiCommand(cl))
      [] name = "exec" -> WithStore(st, ExecCommand(cl))
      [] name = "discard" -> WithStore(st, DiscardCommand(cl))
      [] name = "watch" -> WithStore(st, WatchCommand(cl))

\* propagate (server.c:1605-1612): the AOF / replication sink; the model
\* records what it is handed.
Propagate(st, name, argv, target) ==
    [st EXCEPT !.props = Append(@, [cmd |-> name, argv |-> argv, target |-> target])]

(***************************************************************************)
(* call (server.c:1652-1764).  The propagation targets: both when the      *)
(* command dirtied the dataset, plus any the command forced, minus any it  *)
(* prevented or the call flags do not allow.  The client's propagation     *)
(* flags are cleared before the handler and restored after.  No handler in *)
(* src/ calls alsoPropagate(), so server.also_propagate is always empty;   *)
(* the slow log (slowlogPushEntryIfNeeded is a stub), the command stats    *)
(* and the MONITOR feed (commented out) are outside the model.             *)
(***************************************************************************)
CallPropagateAlways(st, cl, ctx, name, argv, flags) ==
    Bind(Proc(st, [cl EXCEPT !.flags = @ \ PropFlags], ctx, name, argv), LAMBDA r :
        LET target == {"aof", "repl"}
            s1 == IF "propagate_aof" \in flags \/ "propagate_repl" \in flags
                  THEN Propagate(r.st, name, argv, target) ELSE r.st
        IN  [st |-> s1, reply |-> r.reply,
             cl |-> [r.cl EXCEPT !.flags = (@ \ PropFlags) \cup (cl.flags \cap PropFlags)]])
Call(st, cl, ctx, name, argv, flags) ==
    Bind(Proc(st, [cl EXCEPT !.flags = @ \ PropFlags], ctx, name, argv), LAMBDA r :
        LET delta == r.st.dirty - st.dirty
            dirty == IF delta < 0 THEN 0 ELSE delta
            cf == r.cl.flags
            wanted == (IF dirty > 0 THEN {"aof", "repl"} ELSE {})
                      \cup (IF "force_repl" \in cf THEN {"repl"} ELSE {})
                      \cup (IF "force_aof" \in cf THEN {"aof"} ELSE {})
            denied == (IF "prevent_repl_prop" \in cf \/ "propagate_repl" \notin flags
                       THEN {"repl"} ELSE {})
                      \cup (IF "prevent_aof_prop" \in cf \/ "propagate_aof" \notin flags
                            THEN {"aof"} ELSE {})
            target == wanted \ denied
            mayPropagate == /\ "propagate_aof" \in flags \/ "propagate_repl" \in flags
                            /\ ~({"prevent_aof_prop", "prevent_repl_prop"} \subseteq cf)
            s1 == IF mayPropagate /\ target # {} THEN Propagate(r.st, name, argv, target)
                  ELSE r.st
        IN  [st |-> s1, reply |-> r.reply,
             cl |-> [r.cl EXCEPT !.flags = (@ \ PropFlags) \cup (cl.flags \cap PropFlags)]])

(***************************************************************************)
(* processCommand (server.c:1774-1961): the gates in the code's order, the *)
(* first that fails replies an error; inside MULTI every command but       *)
(* EXEC, DISCARD, MULTI and WATCH is queued; otherwise call(c, FULL).      *)
(* Command names are matched case-insensitively in the code; the model's   *)
(* names are already folded.                                               *)
(***************************************************************************)
ArityMismatch(name, argc) ==
    LET a == CommandTable[name].arity IN (a > 0 /\ a # argc) \/ argc < -a

ProcessCommand(st, cl, ctx, name, argv) ==
    LET argc == Len(argv) + 1
        err(type) == [st |-> st, cl |-> FlagTransaction(cl), reply |-> Reply(type)]
    IN  CASE name = "quit" ->
               [st |-> st, cl |-> [cl EXCEPT !.flags = @ \cup {"close_after_reply"}],
                reply |-> Reply("ok")]
          [] name \notin Registered -> err("err_unknown")
          [] ArityMismatch(name, argc) -> err("err_arity")
          [] RequirePass /\ ~cl.authenticated /\ name # "auth" -> err("err_noauth")
          [] PersistError /\ ~ctx.replica
               /\ ("w" \in CommandTable[name].flags \/ name = "ping") -> err("err_misconf")
          [] ctx.loading /\ "l" \notin CommandTable[name].flags ->
               [st |-> st, cl |-> cl, reply |-> Reply("err_loading")]
          [] "multi" \in cl.flags /\ name \notin {"exec", "discard", "multi", "watch"} ->
               [st |-> st, cl |-> QueueMultiCommand(cl, name, argv),
                reply |-> Reply("queued")]
          [] OTHER -> Call(st, cl, ctx, name, argv, CallFull)

-----------------------------------------------------------------------------

Init ==
    /\ store = EmptyStore
    /\ clients = [c \in Clients |-> [authenticated |-> FALSE, flags |-> {}, queue |-> <<>>]]
    /\ now = 0
    /\ last = NoStep

\* Whether key k holds a value a client may read at time t.
LiveAt(st, k, t) == st.dict[k] # NIL /\ (st.expires[k] = NOEXP \/ t <= st.expires[k])

\* The argument positions at which mstime() may be seen to move on in the
\* middle of a command: DEL reads it once per key (db.c:155).
TickPoints(name, argv) ==
    IF ClockMayAdvance /\ now < MaxTime /\ name = "del"
    THEN {NoTick} \cup 2..Len(argv)
    ELSE {NoTick}

\* A client sends one command; the server processes it to completion.  A
\* client flagged CLOSE_AFTER_REPLY is closed by the network layer.  When
\* the clock moves on from argument tick on, the step ends one tick later.
\* liveAtStart and liveAtEnd record how many distinct argument keys were
\* alive at the step's first and last instant.
ClientCommand(c, name, argv, tick) ==
    /\ ~store.panic
    /\ "close_after_reply" \notin clients[c].flags
    /\ Len(clients[c].queue) < MaxQueue
    /\ LET r == ProcessCommand(StepStart(store), clients[c],
                              [Ctx(name, FALSE) EXCEPT !.tickAt = tick], name, argv)
           end == IF tick = NoTick THEN now ELSE now + 1
           live(t) == Cardinality({k \in ToSet(argv) : LiveAt(store, k, t)})
       IN  /\ store' = r.st
           /\ clients' = [clients EXCEPT ![c] = r.cl]
           /\ now' = end
           /\ last' = [client |-> c, name |-> name, argv |-> argv, reply |-> r.reply,
                       liveAtStart |-> live(now), liveAtEnd |-> live(end)]

\* A write command (or, on a replica, the master link) calls setKey.
WriterSetKey(k, v) ==
    /\ ~store.panic
    /\ store' = SetKey(StepStart(store), Ctx("set", Replica), k, v)
    /\ last' = [NoStep EXCEPT !.name = "setkey", !.argv = <<k>>]
    /\ UNCHANGED <<clients, now>>

\* A write command sets an expire on an existing key: the callers of setExpire
\* look the key up for writing first and reply 0 when it is missing.
WriterSetExpire(k, when) ==
    /\ ~store.panic
    /\ LET r == LookupKeyWrite(StepStart(store), Ctx("pexpireat", Replica), k)
       IN  store' = IF r.val = NIL THEN r.st ELSE SetExpire(r.st, k, when)
    /\ last' = [NoStep EXCEPT !.name = "setexpire", !.argv = <<k>>]
    /\ UNCHANGED <<clients, now>>

Tick ==
    /\ now < MaxTime
    /\ now' = now + 1
    /\ store' = StepStart(store)
    /\ last' = NoStep
    /\ UNCHANGED clients

Next ==
    \/ \E c \in Clients, q \in Request :
          \E tick \in TickPoints(q.name, q.argv) : ClientCommand(c, q.name, q.argv, tick)
    \/ \E k \in Keys, v \in ObjTypes : WriterSetKey(k, v)
    \/ \E k \in Keys, t \in Times : WriterSetExpire(k, t)
    \/ Tick

Spec == Init /\ [][Next]_vars

(***************************************************************************)
(* beforeSleep (server.c:1034-1077) runs before every wait of the event     *)
(* loop and, on a master with active expiry enabled (the default), starts a *)
(* fast activeExpireCycle.  The bodies of activeExpireCycle and of          *)
(* activeExpireCycleTryExpire (server.c:886-1029) are commented out, and so *)
(* is the body of serverCron, which runs the slow cycle: the cycle changes  *)
(* nothing.  The event loop runs beforeSleep every iteration, hence weak    *)
(* fairness.                                                                *)
(***************************************************************************)
ActiveExpireCycle(st) == st

BeforeSleep ==
    /\ ~Replica
    /\ store' = ActiveExpireCycle(store)
    /\ UNCHANGED <<clients, now, last>>

LiveSpec == Init /\ [][Next \/ BeforeSleep]_vars /\ WF_vars(BeforeSleep)

-----------------------------------------------------------------------------
(***************************************************************************)
(* Properties.                                                              *)
(***************************************************************************)

StepType ==
    [client : Clients \cup {"none"}, name : RequestNames \cup {"none", "setkey", "setexpire"},
     argv : Argvs, reply : [type : ReplyTypes, n : Nat],
     liveAtStart : Nat, liveAtEnd : Nat]

\* Every variable keeps the type the code gives it: in particular an expire
\* entry is a time, never the -1 that getExpire uses for "no expire".
TypeOK ==
    /\ store \in StoreType
    /\ clients \in [Clients -> ClientType]
    /\ now \in Times
    /\ last \in StepType

\* The key k had an expire that lay in the past when the step started.
PastExpire(k) == store.expires[k] # NOEXP /\ now > store.expires[k]

\* The key k was present before the step and absent after it.
Removed(k) == store.dict[k] # NIL /\ store'.dict[k] = NIL

\* db.c keeps every expire entry paired with a key: dbDelete drops the expire
\* before the key, and setExpire/removeExpire only touch present keys.
ExpiresInDict == \A k \in Keys : store.expires[k] # NOEXP => store.dict[k] # NIL

\* No serverAssert of db.c fires: setKey never adds a key that is present nor
\* overwrites one that is absent, in either role, whatever expired in between.
NoPanic == ~store.panic

\* A key leaves the keyspace only because a DEL named it, or because, on a
\* master, its expire had passed (expireIfNeeded, db.c:164-174).  A replica
\* never removes a key on its own.
RemovalJustified ==
    [][\A k \in Keys : Removed(k) =>
          \/ last'.name = "del" /\ k \in ToSet(last'.argv)
          \/ ~Replica /\ PastExpire(k)]_vars

\* A client (not the master link) that reads a key with GET never sees a value,
\* nor a WRONGTYPE error, of a key whose expire had passed: on a master the
\* lookup deletes it, on a replica lookupKeyReadWithFlags hides it (db.c:42-67).
ReadNeverStale ==
    [][/\ last'.name = "get"
       /\ last'.reply.type \in {"bulk", "wrongtype"}
       => ~PastExpire(last'.argv[1])]_vars

\* The channels notify-keyspace-events enables.
Channels == (IF "K" \in NotifyClasses THEN {"keyspace"} ELSE {})
            \cup (IF "E" \in NotifyClasses THEN {"keyevent"} ELSE {})

\* The events of the step about key k.
EventsAbout(k) == {i \in DOMAIN store'.events : store'.events[i].key = k}

\* Each removed key is announced once on each enabled channel, as "expired" if
\* its expire had passed and as "del" otherwise; no key is announced twice in
\* a step (delCommand publishes only when dbDelete removed the key, after
\* expireIfNeeded published its own event, db.c:128-136).
EventsMatchRemovals ==
    [][\A k \in Keys :
          /\ \A i \in EventsAbout(k) :
                store'.events[i].event = IF PastExpire(k) THEN "expired" ELSE "del"
          /\ Cardinality(EventsAbout(k)) \in {0, Cardinality(Channels)}
          /\ Removed(k) => Cardinality(EventsAbout(k)) = Cardinality(Channels)]_vars

\* A client's command is handed to the AOF/replication sink, once, as it was
\* sent and for both targets, exactly when it removed a key with dbDelete (the
\* dirty counter rose, server.c:1665-1732); a lazily expired key does not
\* count on a master, where expireIfNeeded deletes it without dirtying.
PropagatedIffDirty ==
    [][last'.client \in Clients =>
          store'.props =
             IF \E k \in Keys : Removed(k) /\ (Replica \/ ~PastExpire(k))
             THEN <<[cmd |-> last'.name, argv |-> last'.argv, target |-> {"aof", "repl"}]>>
             ELSE <<>>]_vars

\* Spec 4.2, step 3: a command observes one frozen clock, so the count DEL
\* replies is the number of its distinct keys that were alive at a single
\* instant of its execution, its first or its last.  delCommand counts a key
\* only if expireIfNeeded (db.c:129, reading mstime() at db.c:155) left it in
\* place and dbDelete then removed it.
DelCountAtOneInstant ==
    last.name = "del" /\ last.reply.type = "int" =>
        last.reply.n \in {last.liveAtStart, last.liveAtEnd}

(***************************************************************************)
(* What the spec says of the code and the code does not do: each of these   *)
(* is checked by a run that expects a violation.                            *)
(***************************************************************************)

\* Spec 4.2, lazy path step 6: a master that finds a key expired propagates a
\* DEL of it to the AOF and the replicas in the same step (propagateExpire).
ExpiryPropagated ==
    [][\A k \in Keys : Removed(k) /\ PastExpire(k) /\ ~Replica =>
          \E i \in DOMAIN store'.props :
             store'.props[i].cmd = "del" /\ k \in ToSet(store'.props[i].argv)]_vars

\* Spec 4.3: EXEC and DISCARD inside MULTI bring the client back out of it.
ExecEndsTransaction ==
    [][last'.name \in {"exec", "discard"} /\ last'.client \in Clients
       /\ "multi" \in clients[last'.client].flags
       => "multi" \notin clients'[last'.client].flags]_vars

\* Spec 4.2, active path: a key whose expire has passed is reclaimed even if
\* nobody reads it: the cycle run from beforeSleep samples and deletes it.
ExpiredKeysReclaimed ==
    \A k \in Keys :
        (store.dict[k] # NIL /\ store.expires[k] # NOEXP /\ now > store.expires[k])
            ~> store.dict[k] = NIL

=============================================================================
