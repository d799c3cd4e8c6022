------------------------------- MODULE MCPure -------------------------------
(***************************************************************************)
(* The pure algorithms of the code checked in one run: intrev32 (ByteOrder), *)
(* AUTH's comparison (Auth) and the slow log's copy of a command (Slowlog). *)
(* A behaviour exercises one of them, chosen by Init; the variables of the *)
(* other two keep a fixed valid value, so the states are the union of the  *)
(* three modules' states, not their product.                               *)
(***************************************************************************)
EXTENDS Naturals

CONSTANTS ByteSample, Alphabet, BufLen, NoPass, MaxArgc, MaxString, IntLen, ExtraArgs

VARIABLES part, v, host, requirepass, arg, authenticated, reply, argv, entry

vars == <<part, v, host, requirepass, arg, authenticated, reply, argv, entry>>

BO == INSTANCE ByteOrder
A == INSTANCE Auth
S == INSTANCE Slowlog

boVars == <<v, host>>
aVars == <<requirepass, arg, authenticated, reply>>
sVars == <<argv, entry>>

\* The values the variables of an algorithm not being exercised keep.
BORest == v = [hi |-> 0, lo |-> 0] /\ host = "little"
ARest == requirepass = NoPass /\ arg = <<>> /\ authenticated = FALSE /\ reply = "none"
SRest == argv = <<[enc |-> "raw", len |-> 0]>> /\ entry = S!SlowlogCreateEntry(argv)

Init ==
    \/ part = "byteorder" /\ BO!Init /\ ARest /\ SRest
    \/ part = "auth" /\ BORest /\ A!Init /\ SRest
    \/ part = "slowlog" /\ BORest /\ ARest /\ S!Init

Next ==
    \/ part = "byteorder" /\ BO!NextCall /\ UNCHANGED <<part, aVars, sVars>>
    \/ part = "auth" /\ A!Next /\ UNCHANGED <<part, boVars, sVars>>
    \/ part = "slowlog" /\ S!Next /\ UNCHANGED <<part, boVars, aVars>>

Spec == Init /\ [][Next]_vars

\* The three modules' properties, each stated and explained in its module.
IntRev32Reverses == BO!IntRev32Reverses
AuthenticatedIffPassword == A!AuthenticatedIffPassword
EntryAccountsForCommand == S!EntryAccountsForCommand

=============================================================================
