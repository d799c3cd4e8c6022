------------------------------ MODULE Keyspace ------------------------------
(***************************************************************************)
(* The keyspace of a database and its lazy expiration (src/db.c), and the *)
(* keyspace-event fan-out (src/notify.c).                                  *)
(*                                                                         *)
(* Every function of db.c is written as an operator from a store state to  *)
(* a store state, so that a command handler, which calls several of them   *)
(* one after the other, is their composition and runs as one atomic step,  *)
(* as it does on the single command thread.  A store state is a record:    *)
(*   dict     key -> object type, or NIL         (db->dict)                *)
(*   expires  key -> unix time, or NOEXP         (db->expires)             *)
(*   dirty    mutations counted by the current command (server.dirty)     *)
(*   events   keyspace events published by the current step               *)
(*   props    operations handed to the AOF / replication sink this step   *)
(*   panic    a serverAssert failed: the process aborts                   *)
(* dirty, events and props hold what the current step did: the pipeline   *)
(* clears them when a step starts.  The caller's context is a record       *)
(*   now       mstime() of this step                                       *)
(*   loading   server.loading                                              *)
(*   replica   server.masterhost != NULL                                   *)
(*   fromMaster  server.current_client == server.master                    *)
(*   readonly  the current command has the CMD_READONLY flag              *)
(***************************************************************************)
EXTENDS Integers, Sequences, SequencesExt

CONSTANTS
    Keys,           \* the key names a model uses
    NIL,            \* no value under the key: dictFind returned NULL
    NOEXP,          \* no entry in db->expires
    MaxTime,        \* the clock runs over 0..MaxTime milliseconds
    NotifyClasses   \* server.notify_keyspace_events, as its config letters

ASSUME NIL \notin Keys /\ NOEXP \notin Int
ASSUME MaxTime \in Nat
ASSUME NotifyClasses \subseteq {"K", "E", "g", "x"}

\* The object types a key may hold (OBJ_STRING, OBJ_LIST); the encodings and
\* the content of a value are abstracted away: no property reads them.
ObjTypes == {"string", "list"}

Times == 0..MaxTime

Event == [chan : {"keyspace", "keyevent"}, event : {"del", "expired"}, key : Keys]

Op == [cmd : {"del", "get"}, argv : Seq(Keys), target : SUBSET {"aof", "repl"}]

StoreType ==
    [dict : [Keys -> ObjTypes \cup {NIL}],
     expires : [Keys -> Times \cup {NOEXP}],
     dirty : Nat,
     events : Seq(Event),
     props : Seq(Op),
     panic : BOOLEAN]

EmptyStore ==
    [dict |-> [k \in Keys |-> NIL], expires |-> [k \in Keys |-> NOEXP],
     dirty |-> 0, events |-> <<>>, props |-> <<>>, panic |-> FALSE]

(***************************************************************************)
(* A handler is a chain of db.c calls in which one call's result feeds     *)
(* several later expressions.  Bind(e, F) is F applied to the value of e,  *)
(* with e evaluated once, which keeps the evaluation of a chain linear in  *)
(* its length whatever TLC's caching of LET definitions.                   *)
(***************************************************************************)
Bind(e, F(_)) == CHOOSE y \in {F(x) : x \in {e}} : TRUE

(***************************************************************************)
(* serverAssert / serverAssertWithInfo: a failed assertion aborts.         *)
(***************************************************************************)
Abort(st) == [st EXCEPT !.panic = TRUE]

(***************************************************************************)
(* notifyKeyspaceEvent (notify.c:10-45): nothing unless the class of the *)
(* event is enabled; then one message on __keyspace@<db>__:<key> if 'K' is *)
(* enabled and one on __keyevent@<db>__:<event> if 'E' is, in that order.  *)
(* The channel names are kept as the pair (channel kind, key or event).    *)
(***************************************************************************)
NotifyKeyspaceEvent(st, type, event, key) ==
    LET msg(chan) == [chan |-> chan, event |-> event, key |-> key]
        keyspace == IF "K" \in NotifyClasses THEN <<msg("keyspace")>> ELSE <<>>
        keyevent == IF "E" \in NotifyClasses THEN <<msg("keyevent")>> ELSE <<>>
    IN  IF type \notin NotifyClasses THEN st
        ELSE [st EXCEPT !.events = @ \o keyspace \o keyevent]

(***************************************************************************)
(* dbDelete (db.c:203-213): remove the expire entry, then the key.  Its    *)
(* result, whether a key was removed, is st.dict[k] # NIL before the call. *)
(***************************************************************************)
DbDeleteKeepingExpire(st, k) == [st EXCEPT !.dict[k] = NIL]
DbDelete(st, k) == [st EXCEPT !.expires[k] = NOEXP, !.dict[k] = NIL]

\* getExpire (db.c:240-251): -1 when the key has no expire.
GetExpire(st, k) == IF st.expires[k] = NOEXP THEN -1 ELSE st.expires[k]

\* The safety check of getExpire (db.c:249): an expire without a key aborts.
CheckExpire(st, k) ==
    IF st.expires[k] # NOEXP /\ st.dict[k] = NIL THEN Abort(st) ELSE st

\* propagateExpire (db.c:185-199): the feeds to the AOF and to the replicas
\* are commented out, so it hands nothing to the sink.
PropagateExpire(st, k) == st

(***************************************************************************)
(* expireIfNeeded (db.c:141-175): [st |-> new state, ret |-> 1 if the key  *)
(* is logically expired].  A replica only reports; a master deletes the    *)
(* key, publishing "expired" first.                                        *)
(***************************************************************************)
ExpireIfNeededAtDeadline(st, ctx, k) ==
    LET s0 == CheckExpire(st, k)
        when == GetExpire(st, k)
    IN  CASE when < 0 -> [st |-> s0, ret |-> 0]
          [] ctx.loading -> [st |-> s0, ret |-> 0]
          [] ctx.replica -> [st |-> s0, ret |-> IF ctx.now > when THEN 1 ELSE 0]
          [] ctx.now < when -> [st |-> s0, ret |-> 0]
          [] OTHER ->
               LET s1 == NotifyKeyspaceEvent(PropagateExpire(s0, k), "x", "expired", k)
               IN  [st |-> DbDelete(s1, k), ret |-> IF s1.dict[k] # NIL THEN 1 ELSE 0]
ExpireIfNeededNoReplicaCheck(st, ctx, k) ==
    LET s0 == CheckExpire(st, k)
        when == GetExpire(st, k)
    IN  CASE when < 0 -> [st |-> s0, ret |-> 0]
          [] ctx.loading -> [st |-> s0, ret |-> 0]
          [] ctx.now <= when -> [st |-> s0, ret |-> 0]
          [] OTHER ->
               LET s1 == NotifyKeyspaceEvent(PropagateExpire(s0, k), "x", "expired", k)
               IN  [st |-> DbDelete(s1, k), ret |-> IF s1.dict[k] # NIL THEN 1 ELSE 0]
ExpireIfNeededNoDelete(st, ctx, k) ==
    LET s0 == CheckExpire(st, k)
        when == GetExpire(st, k)
    IN  CASE when < 0 -> [st |-> s0, ret |-> 0]
          [] ctx.loading -> [st |-> s0, ret |-> 0]
          [] ctx.replica -> [st |-> s0, ret |-> IF ctx.now > when THEN 1 ELSE 0]
          [] OTHER -> [st |-> s0, ret |-> 0]
ExpireIfNeeded(st, ctx, k) ==
    LET s0 == CheckExpire(st, k)
        when == GetExpire(st, k)
    IN  CASE when < 0 -> [st |-> s0, ret |-> 0]
          [] ctx.loading -> [st |-> s0, ret |-> 0]
          [] ctx.replica -> [st |-> s0, ret |-> IF ctx.now > when THEN 1 ELSE 0]
          [] ctx.now <= when -> [st |-> s0, ret |-> 0]
          [] OTHER ->
               LET s1 == NotifyKeyspaceEvent(PropagateExpire(s0, k), "x", "expired", k)
               IN  [st |-> DbDelete(s1, k), ret |-> IF s1.dict[k] # NIL THEN 1 ELSE 0]

\* lookupKey (db.c:218-236).  The LRU stamp it refreshes is abstracted away.
LookupKey(st, k) == st.dict[k]

(***************************************************************************)
(* lookupKeyReadWithFlags (db.c:39-74): [st, val].  On a replica a         *)
(* logically expired key still in the dict is reported missing only to a   *)
(* read-only command of a client other than the master link.  The hit and  *)
(* miss counters it bumps are abstracted away.                             *)
(***************************************************************************)
LookupKeyReadAlways(st, ctx, k) ==
    Bind(ExpireIfNeeded(st, ctx, k), LAMBDA r :
        IF r.ret = 1 /\ ~ctx.replica THEN [st |-> r.st, val |-> NIL]
        ELSE [st |-> r.st, val |-> LookupKey(r.st, k)])
LookupKeyReadWithFlags(st, ctx, k) ==
    Bind(ExpireIfNeeded(st, ctx, k), LAMBDA r :
        IF r.ret = 1 /\ (~ctx.replica \/ (~ctx.fromMaster /\ ctx.readonly))
        THEN [st |-> r.st, val |-> NIL]
        ELSE [st |-> r.st, val |-> LookupKey(r.st, k)])

\* lookupKeyRead (db.c:255-257) is lookupKeyReadWithFlags with no flag;
\* lookupKeyReadOrReply (db.c:259-263) replies the caller's object on a miss.
LookupKeyReadOrReply(st, ctx, k, reply) ==
    Bind(LookupKeyReadWithFlags(st, ctx, k), LAMBDA r :
        [st |-> r.st, val |-> r.val, reply |-> IF r.val = NIL THEN reply ELSE "none"])

\* lookupKeyWrite (db.c:271-274).
LookupKeyWriteAsRead(st, ctx, k) ==
    Bind(ExpireIfNeeded(st, ctx, k), LAMBDA r :
        [st |-> r.st, val |-> IF r.ret = 1 THEN NIL ELSE LookupKey(r.st, k)])
LookupKeyWrite(st, ctx, k) ==
    Bind(ExpireIfNeeded(st, ctx, k), LAMBDA r :
        [st |-> r.st, val |-> LookupKey(r.st, k)])

\* dbAdd (db.c:331-338): aborts if the key exists.  Waking clients blocked on
\* a list and the cluster slot index are outside the model.
DbAdd(st, k, v) == IF st.dict[k] = NIL THEN [st EXCEPT !.dict[k] = v] ELSE Abort(st)

\* dbOverwrite (db.c:320-325): aborts if the key is absent; keeps the expire.
DbOverwrite(st, k, v) == IF st.dict[k] # NIL THEN [st EXCEPT !.dict[k] = v] ELSE Abort(st)

\* removeExpire (db.c:280-285): aborts if the key is absent.
RemoveExpireToMinusOne(st, k) ==
    IF st.dict[k] # NIL THEN [st EXCEPT !.expires[k] = -1] ELSE Abort(st)
RemoveExpire(st, k) ==
    IF st.dict[k] # NIL THEN [st EXCEPT !.expires[k] = NOEXP] ELSE Abort(st)

\* setExpire (db.c:287-295): aborts if the key is absent.
SetExpire(st, k, when) ==
    IF st.dict[k] # NIL THEN [st EXCEPT !.expires[k] = when] ELSE Abort(st)

\* signalModifiedKey (db.c:76-78): the call to touchWatchedKey is commented out.
SignalModifiedKey(st, k) == st

(***************************************************************************)
(* setKey (db.c:303-312): add or overwrite, make the key persistent, and   *)
(* signal the modification.  The reference count is outside the model.     *)
(***************************************************************************)
SetKeyExpireFirst(st, ctx, k, v) ==
    Bind(LookupKeyWrite(st, ctx, k), LAMBDA r :
        Bind(RemoveExpire(r.st, k), LAMBDA s1 :
            SignalModifiedKey(IF r.val = NIL THEN DbAdd(s1, k, v)
                              ELSE DbOverwrite(s1, k, v), k)))
SetKey(st, ctx, k, v) ==
    Bind(LookupKeyWrite(st, ctx, k), LAMBDA r :
        Bind(IF r.val = NIL THEN DbAdd(r.st, k, v) ELSE DbOverwrite(r.st, k, v), LAMBDA s1 :
            SignalModifiedKey(RemoveExpire(s1, k), k)))

(***************************************************************************)
(* delCommand (db.c:125-139): for each key argument, expire it if needed,  *)
(* then delete it; a key really removed is signalled, published as "del"   *)
(* and counted in server.dirty and in the reply.  [st, reply].             *)
(***************************************************************************)
DelStepNotifyAlways(ctx, acc, k) ==
    Bind(ExpireIfNeeded(acc.st, ctx, k).st, LAMBDA s1 :
        Bind(NotifyKeyspaceEvent(s1, "g", "del", k), LAMBDA s2 :
            IF s1.dict[k] # NIL
            THEN [st |-> [SignalModifiedKey(DbDelete(s2, k), k) EXCEPT !.dirty = @ + 1],
                  n |-> acc.n + 1]
            ELSE [st |-> s2, n |-> acc.n]))
DelStep(ctx, acc, k) ==
    Bind(ExpireIfNeeded(acc.st, ctx, k).st, LAMBDA s1 :
        IF s1.dict[k] # NIL
        THEN LET s2 == SignalModifiedKey(DbDelete(s1, k), k)
                 s3 == NotifyKeyspaceEvent(s2, "g", "del", k)
             IN  [st |-> [s3 EXCEPT !.dirty = @ + 1], n |-> acc.n + 1]
        ELSE [st |-> s1, n |-> acc.n])

\* expireIfNeeded reads mstime() afresh (db.c:155): the lookups of the
\* arguments from position ctx.tickAt on see the clock one tick later.
ReadClock(ctx, i) == IF i >= ctx.tickAt THEN [ctx EXCEPT !.now = @ + 1] ELSE ctx

DelCommand(st, ctx, keys) ==
    LET step(acc, i) == Bind(acc, LAMBDA a : DelStep(ReadClock(ctx, i), a, keys[i]))
    IN  Bind(FoldLeft(step, [st |-> st, n |-> 0], [i \in 1..Len(keys) |-> i]), LAMBDA r :
            [st |-> r.st, reply |-> [type |-> "int", n |-> r.n]])

(***************************************************************************)
(* getCommand / getGenericCommand (t_string.c:4-20): a null bulk when   *)
(* the key is missing, WRONGTYPE when it is not a string, else the value.  *)
(***************************************************************************)
GetCommand(st, ctx, k) ==
    Bind(LookupKeyReadOrReply(st, ctx, k, "nil"), LAMBDA r :
        [st |-> r.st,
         reply |-> [type |-> CASE r.val = NIL -> r.reply
                               [] r.val # "string" -> "wrongtype"
                               [] OTHER -> "bulk",
                    n |-> 0]])

=============================================================================
