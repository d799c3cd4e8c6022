------------------------------- MODULE Slowlog -------------------------------
(***************************************************************************)
(* slowlogCreateEntry (slowlog.c:20-57): the copy of a command's argument  *)
(* vector that the slow log keeps.  At most SLOWLOG_ENTRY_MAX_ARGC         *)
(* arguments are kept, the last kept slot then saying how many were left   *)
(* out; a string argument longer than SLOWLOG_ENTRY_MAX_STRING bytes is    *)
(* cut to that length and told how many bytes it lost.  An argument is     *)
(* abstracted to its encoding and its length: the entry is checked to      *)
(* account for every argument and every byte of the command.  The entry's  *)
(* id, time and duration are not modelled: no property reads them.         *)
(* slowlogPushEntryIfNeeded (slowlog.c:7-15), the only caller, has its     *)
(* body commented out.                                                     *)
(***************************************************************************)
EXTENDS Naturals, Sequences

CONSTANTS
    MaxArgc,    \* SLOWLOG_ENTRY_MAX_ARGC (32), scaled down
    MaxString,  \* SLOWLOG_ENTRY_MAX_STRING (128), scaled down
    IntLen,     \* the longest integer-encoded argument (20 digits in the code)
    ExtraArgs   \* how many arguments past MaxArgc a command may have

ASSUME MaxArgc \in Nat \ {0} /\ MaxString \in Nat /\ IntLen \in 1..MaxString

\* An argument: an sds-encoded string, or a string object holding an integer
\* (not sdsEncodedObject), with its length in bytes.
Args == [enc : {"raw"}, len : 0..(MaxString + 1)] \cup [enc : {"int"}, len : 1..IntLen]

Argvs == UNION {[1..n -> Args] : n \in 1..(MaxArgc + ExtraArgs)}

\* A slot of the entry: an argument kept as it was, one cut to its first
\* `len` bytes with `more` bytes left out, or "... (n more arguments)".
Kept(a) == [kind |-> "kept", len |-> a.len]
Cut(a) == [kind |-> "cut", len |-> MaxString, more |-> a.len - MaxString]
MoreArgs(n) == [kind |-> "more", n |-> n]

SlowlogCreateEntryMarkerOffByOne(argv) ==
    LET argc == Len(argv)
        slargc == IF argc > MaxArgc THEN MaxArgc ELSE argc
        slot(j) == IF slargc # argc /\ j = slargc THEN MoreArgs(argc - slargc)
                   ELSE IF argv[j].enc = "raw" /\ argv[j].len > MaxString THEN Cut(argv[j])
                   ELSE Kept(argv[j])
    IN  [j \in 1..slargc |-> slot(j)]
SlowlogCreateEntry(argv) ==
    LET argc == Len(argv)
        slargc == IF argc > MaxArgc THEN MaxArgc ELSE argc
        slot(j) == IF slargc # argc /\ j = slargc THEN MoreArgs(argc - slargc + 1)
                   ELSE IF argv[j].enc = "raw" /\ argv[j].len > MaxString THEN Cut(argv[j])
                   ELSE Kept(argv[j])
    IN  [j \in 1..slargc |-> slot(j)]

VARIABLES argv, entry

\* The commands are enumerated one argument at a time: a logged command, then
\* the same command with one more argument, or a new one-argument command.
Init == \E a \in Args : argv = <<a>> /\ entry = SlowlogCreateEntry(argv)

LogLonger ==
    /\ Len(argv) < MaxArgc + ExtraArgs
    /\ \E a \in Args : argv' = Append(argv, a) /\ entry' = SlowlogCreateEntry(argv')

LogNew == \E a \in Args : argv' = <<a>> /\ entry' = SlowlogCreateEntry(argv')

Next == LogLonger \/ LogNew

Spec == Init /\ [][Next]_<<argv, entry>>

\* The arguments the entry keeps in full or in part, and how many it says it
\* left out.
Shown(e) == IF e[Len(e)].kind = "more" THEN Len(e) - 1 ELSE Len(e)
LeftOut(e) == IF e[Len(e)].kind = "more" THEN e[Len(e)].n ELSE 0

TypeOK == argv \in Argvs /\ entry \in Seq([kind : {"kept", "cut", "more"}, len : Nat, more : Nat]
                                          \cup [kind : {"more"}, n : Nat]
                                          \cup [kind : {"kept"}, len : Nat])

\* The entry fits the limits and accounts for the whole command: it has at
\* most SLOWLOG_ENTRY_MAX_ARGC slots, no slot holds more than
\* SLOWLOG_ENTRY_MAX_STRING bytes of an argument, the shown arguments and the
\* "more arguments" count add up to argc, and each shown argument's bytes and
\* "more bytes" count add up to its length.
EntryAccountsForCommand ==
    /\ Len(entry) <= MaxArgc
    /\ Shown(entry) + LeftOut(entry) = Len(argv)
    /\ \A j \in 1..Shown(entry) :
          /\ entry[j].kind # "more"
          /\ entry[j].len <= MaxString \/ argv[j].enc = "int"
          /\ entry[j].len + (IF entry[j].kind = "cut" THEN entry[j].more ELSE 0) = argv[j].len

=============================================================================
