---------------------------- MODULE KeyValueTTL ----------------------------
(***************************************************************************)
(* What the keyspace promises its clients, with no lazy deletion in it: a  *)
(* map from keys to values in which a key with a deadline disappears the   *)
(* moment the clock passes the deadline.  This is the contract spec.md     *)
(* states for the Keyspace Store and the Expiration Engine together: an    *)
(* expired key is never observed, whether or not it was reclaimed yet.     *)
(*   kv     key -> value, NIL when the key does not (visibly) exist        *)
(*   ttl    key -> deadline of a visible key, NOEXP when it has none       *)
(*   clock  the time                                                       *)
(*   out    the reply to the latest client request, Reply("none") for      *)
(*          steps that answer no client                                    *)
(***************************************************************************)
EXTENDS Integers, FiniteSets

CONSTANTS Keys, Values, NIL, NOEXP, MaxTime, ControlReplies

VARIABLES kv, ttl, clock, out

avars == <<kv, ttl, clock, out>>

Times == 0..MaxTime

Reply(type) == [type |-> type, n |-> 0]

\* The reply GET gives for a key: missing, of the wrong type, or its value.
GetReply(k) ==
    Reply(CASE kv[k] = NIL -> "nil"
            [] kv[k] # "string" -> "wrongtype"
            [] OTHER -> "bulk")

\* The map with the keys of S removed.
Without(S) == [k \in Keys |-> IF k \in S THEN NIL ELSE kv[k]]
TtlWithout(S) == [k \in Keys |-> IF k \in S THEN NOEXP ELSE ttl[k]]

AInit ==
    /\ kv = [k \in Keys |-> NIL]
    /\ ttl = [k \in Keys |-> NOEXP]
    /\ clock = 0
    /\ out = Reply("none")

Get(k) ==
    /\ out' = GetReply(k)
    /\ UNCHANGED <<kv, ttl, clock>>

\* DEL removes the keys of S and counts the ones that existed.
Del(S) ==
    /\ kv' = Without(S)
    /\ ttl' = TtlWithout(S)
    /\ out' = [type |-> "int", n |-> Cardinality({k \in S : kv[k] # NIL})]
    /\ UNCHANGED clock

\* A request answered without touching the data (errors, QUEUED, OK).
Respond(type) ==
    /\ out' = Reply(type)
    /\ UNCHANGED <<kv, ttl, clock>>

\* A write makes the key hold v, with no deadline.
Put(k, v) ==
    /\ kv' = [kv EXCEPT ![k] = v]
    /\ ttl' = [ttl EXCEPT ![k] = NOEXP]
    /\ out' = Reply("none")
    /\ UNCHANGED clock

\* A deadline on an existing key; one already past removes it at once.
Expire(k, t) ==
    /\ kv[k] # NIL
    /\ IF t < clock THEN kv' = Without({k}) /\ ttl' = TtlWithout({k})
       ELSE kv' = kv /\ ttl' = [ttl EXCEPT ![k] = t]
    /\ out' = Reply("none")
    /\ UNCHANGED clock

\* Time passes; every key whose deadline is now behind the clock is gone.
Advance ==
    /\ clock < MaxTime
    /\ clock' = clock + 1
    /\ LET gone == {k \in Keys : ttl[k] # NOEXP /\ ttl[k] < clock'}
       IN  kv' = Without(gone) /\ ttl' = TtlWithout(gone)
    /\ out' = Reply("none")

ANext ==
    \/ \E k \in Keys : Get(k)
    \/ \E S \in SUBSET Keys : Del(S)
    \/ \E t \in ControlReplies : Respond(t)
    \/ \E k \in Keys, v \in Values : Put(k, v)
    \/ \E k \in Keys, t \in Times : Expire(k, t)
    \/ Advance

ASpec == AInit /\ [][ANext]_avars

=============================================================================
