---------------------------- MODULE CommandTable ----------------------------
(***************************************************************************)
(* The command registry: populateCommandTable (server.c:506-539) turns     *)
(* each row of redisCommandTable into a descriptor, decoding its flag      *)
(* letters and adding it to server.commands; getKeysFromCommand and        *)
(* getKeysUsingCommandTable (db.c:82-118) then read the key positions of a *)
(* request off the descriptor's (firstkey, lastkey, keystep).               *)
(*                                                                         *)
(* The startup loop runs one row per step; afterwards each step is one     *)
(* call of getKeysFromCommand on a request that passed processCommand's    *)
(* arity check (server.c:1796-1797), which is where its caller, the        *)
(* cluster redirection of processCommand, sits.                            *)
(***************************************************************************)
EXTENDS Integers, Sequences, SequencesExt

CONSTANTS
    Table,      \* redisCommandTable: a sequence of rows
    MaxArgc     \* the largest request (argc) tried against a descriptor

\* A row: name, arity, sflags (its letters as a sequence), whether it has a
\* getkeys_proc, and firstkey, lastkey, keystep.
ASSUME \A i \in DOMAIN Table :
          Table[i].firstkey # 0 /\ ~Table[i].getkeys => Table[i].keystep > 0

\* The letters of populateCommandTable's switch and the bits they set.
FlagOf ==
    [w |-> "write", r |-> "readonly", m |-> "denyoom", a |-> "admin",
     p |-> "pubsub", s |-> "noscript", R |-> "random", S |-> "sort_for_script",
     l |-> "loading", t |-> "stale", M |-> "skip_monitor", k |-> "asking",
     F |-> "fast"]

\* The flag bits of sflags, and whether a letter hit the switch's default
\* (serverPanic).
DecodeFlagsNoAsking(sflags) ==
    [panic |-> \E i \in DOMAIN sflags : sflags[i] \notin DOMAIN FlagOf \ {"k"},
     flags |-> {FlagOf[sflags[i]] : i \in {i2 \in DOMAIN sflags : sflags[i2] \in DOMAIN FlagOf}}]
DecodeFlags(sflags) ==
    [panic |-> \E i \in DOMAIN sflags : sflags[i] \notin DOMAIN FlagOf,
     flags |-> {FlagOf[sflags[i]] : i \in {i2 \in DOMAIN sflags : sflags[i2] \in DOMAIN FlagOf}}]

\* processCommand's arity check: the request is refused when this holds.
ArityMismatch(arity, argc) == (arity > 0 /\ arity # argc) \/ argc < -arity

\* for (j = firstkey; j <= last; j += keystep) { serverAssert(j < argc);
\* keys[i++] = j; }
RECURSIVE KeyLoop(_, _, _, _, _)
KeyLoop(j, last, step, argc, keys) ==
    CASE j > last -> [keys |-> keys, assert |-> FALSE]
      [] j >= argc -> [keys |-> keys, assert |-> TRUE]
      [] OTHER -> KeyLoop(j + step, last, step, argc, Append(keys, j))

\* A lastkey that is negative counts from the end of argv.
LastKeyIndexOffByOne(cmd, argc) == IF cmd.lastkey < 0 THEN argc + cmd.lastkey + 1 ELSE cmd.lastkey
LastKeyIndex(cmd, argc) == IF cmd.lastkey < 0 THEN argc + cmd.lastkey ELSE cmd.lastkey

\* The positions written, the ints allocated, and whether the assertion
\* failed.
GetKeysUsingCommandTable(cmd, argc) ==
    IF cmd.firstkey = 0 THEN [keys |-> <<>>, alloc |-> 0, assert |-> FALSE]
    ELSE [alloc |-> LastKeyIndex(cmd, argc) - cmd.firstkey + 1]
         @@ KeyLoop(cmd.firstkey, LastKeyIndex(cmd, argc), cmd.keystep, argc, <<>>)

\* A command with a getkeys_proc delegates to it; none of those procs is in
\* the sources, so their answer is left opaque.
GetKeysFromCommand(cmd, argc) ==
    IF cmd.getkeys THEN [proc |-> TRUE, keys |-> <<>>, alloc |-> 0, assert |-> FALSE]
    ELSE [proc |-> FALSE] @@ GetKeysUsingCommandTable(cmd, argc)

VARIABLES
    j,          \* the next row populateCommandTable will process
    commands,   \* server.commands: name -> descriptor
    panic,      \* "none", or why the server stopped
    req         \* the latest getKeysFromCommand call and its result

vars == <<j, commands, panic, req>>

NoReq == [name |-> "none", argc |-> 0, proc |-> FALSE, keys |-> <<>>, alloc |-> 0, assert |-> FALSE]

Init ==
    /\ j = 1
    /\ commands = [n \in {} |-> {}]
    /\ panic = "none"
    /\ req = NoReq

\* The descriptor of a row: its fields, with c->flags for sflags.
Descriptor(row, flags) ==
    [arity |-> row.arity, flags |-> flags, getkeys |-> row.getkeys,
     firstkey |-> row.firstkey, lastkey |-> row.lastkey, keystep |-> row.keystep]

\* One iteration of populateCommandTable: decode the letters, then add the
\* descriptor to server.commands (and server.orig_commands), asserting that
\* neither add found the name already there.
PopulateRow ==
    /\ j <= Len(Table)
    /\ panic = "none"
    /\ LET row == Table[j]
           flags == DecodeFlags(row.sflags)
       IN  /\ panic' = CASE flags.panic -> "unsupported_flag"
                          [] row.name \in DOMAIN commands -> "dictadd"
                          [] OTHER -> panic
           /\ commands' = IF panic' = "none"
                          THEN commands @@ (row.name :> Descriptor(row, flags.flags))
                          ELSE commands
    /\ j' = j + 1
    /\ UNCHANGED req

\* getKeysFromCommand on the descriptor lookupCommand returns for a request
\* of argc arguments that passed the arity check.
GetKeys(name, argc) ==
    /\ j > Len(Table)
    /\ panic = "none"
    /\ ~ArityMismatch(commands[name].arity, argc)
    /\ req' = [name |-> name, argc |-> argc] @@ GetKeysFromCommand(commands[name], argc)
    /\ panic' = IF req'.assert THEN "assert_getkeys" ELSE panic
    /\ UNCHANGED <<j, commands>>

Next ==
    \/ PopulateRow
    \/ \E name \in DOMAIN commands, argc \in 1..MaxArgc : GetKeys(name, argc)

Spec == Init /\ [][Next]_vars

-----------------------------------------------------------------------------

Names == {Table[i].name : i \in DOMAIN Table}

TypeOK ==
    /\ j \in 1..(Len(Table) + 1)
    /\ DOMAIN commands \subseteq Names
    /\ panic \in {"none", "unsupported_flag", "dictadd", "assert_getkeys"}

\* The key positions of spec.md's key-position spec: from firstkey to
\* lastkey (counted from the end of argv when negative) by keystep, within
\* the request's arguments.
KeyPositions(cmd, argc) ==
    IF cmd.firstkey = 0 THEN {}
    ELSE {p \in 1..(argc - 1) :
             /\ cmd.firstkey <= p
             /\ p <= IF cmd.lastkey < 0 THEN argc + cmd.lastkey ELSE cmd.lastkey
             /\ (p - cmd.firstkey) % cmd.keystep = 0}

\* The startup loop loads the whole table: no flag letter panics, no name is
\* added twice, and lookupCommand finds every row's own descriptor.
TableLoads ==
    /\ panic \notin {"unsupported_flag", "dictadd"}
    /\ j > Len(Table) =>
        \A i \in DOMAIN Table :
           /\ Table[i].name \in DOMAIN commands
           /\ commands[Table[i].name].arity = Table[i].arity

\* For every request that passed the arity check, getKeysUsingCommandTable
\* neither trips its serverAssert(j < argc) nor writes past the
\* (last - firstkey) + 1 ints it allocated, and it returns exactly the key
\* positions of the descriptor's key-position spec, in increasing order.
KeysMatchKeySpec ==
    req # NoReq /\ ~req.proc =>
        /\ ~req.assert
        /\ Len(req.keys) <= req.alloc
        /\ req.keys = SetToSortSeq(KeyPositions(commands[req.name], req.argc), <)

=============================================================================
