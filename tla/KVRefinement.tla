---------------------------- MODULE KVRefinement ----------------------------
(***************************************************************************)
(* The server implements KeyValueTTL: what a client can observe of the     *)
(* keyspace is a map in which a key is gone the moment its deadline passes, *)
(* although db.c removes it only when some lookup trips over it.  The      *)
(* refinement mapping hides the keys that are still in db->dict but past   *)
(* their deadline, which is how expireIfNeeded treats them (db.c:164-167).  *)
(***************************************************************************)
EXTENDS Server

\* A key a client can observe: in the dict, and not past its deadline.
Visible(k) ==
    /\ store.dict[k] # NIL
    /\ store.expires[k] = NOEXP \/ now <= store.expires[k]

\* The replies that carry no data of the keyspace.
ControlReplyTypes == ReplyTypes \ {"int", "bulk", "nil", "wrongtype"}

KV == INSTANCE KeyValueTTL
        WITH Values <- ObjTypes,
             ControlReplies <- ControlReplyTypes,
             kv <- [k \in Keys |-> IF Visible(k) THEN store.dict[k] ELSE NIL],
             ttl <- [k \in Keys |-> IF Visible(k) THEN store.expires[k] ELSE NOEXP],
             clock <- now,
             out <- last.reply

\* Every behaviour of the server, seen through the mapping, is a behaviour of
\* the abstract keyspace: GET answers from the visible map, DEL counts and
\* removes only visible keys, setKey/setExpire act as Put/Expire, and lazy
\* deletion of an expired key (expireIfNeeded) changes nothing a client sees.
RefinesKeyValueTTL == KV!ASpec

=============================================================================
