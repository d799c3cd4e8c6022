-------------------------------- MODULE Auth --------------------------------
(***************************************************************************)
(* AUTH (server.c:1538-1549) and the password comparison it uses,          *)
(* time_independent_strcmp (server.c:1505-1536).  The comparison copies    *)
(* both strings into zeroed buffers of CONFIG_AUTHPASS_MAX_LEN bytes, ORs  *)
(* the XOR of every buffer position and of the two lengths, and gives up   *)
(* (returns 1) on a string longer than the buffer.  A C string is a        *)
(* sequence of non-zero bytes; BufLen stands for CONFIG_AUTHPASS_MAX_LEN   *)
(* (512) scaled down so that strings around the limit can be enumerated.   *)
(* The bytes are taken unsigned: XOR of two chars is zero exactly when the *)
(* chars are equal either way.                                             *)
(***************************************************************************)
EXTENDS Naturals, Sequences, Bitwise

CONSTANTS
    Alphabet,   \* the non-zero byte values a string is made of
    BufLen,     \* CONFIG_AUTHPASS_MAX_LEN, sizeof(bufa) = sizeof(bufb)
    NoPass      \* server.requirepass == NULL

ASSUME Alphabet \subseteq 1..255 /\ BufLen \in Nat \ {0}

\* The strings up to one byte longer than the buffers.
Strings == UNION {[1..n -> Alphabet] : n \in 0..(BufLen + 1)}

\* bufa after memset(bufa, 0, ...) and memcpy(bufa, a, alen).
Buffer(s) == [j \in 0..(BufLen - 1) |-> IF j < Len(s) THEN s[j + 1] ELSE 0]

\* for (j = 0; j < sizeof(bufa); j++) diff |= (bufa[j] ^ bufb[j]);
RECURSIVE XorFrom(_, _, _, _)
XorFrom(ba, bb, j, diff) ==
    IF j = BufLen THEN diff ELSE XorFrom(ba, bb, j + 1, diff | (ba[j] ^^ bb[j]))

TimeIndependentStrcmpGuardInclusive(a, b) ==
    IF Len(a) >= BufLen \/ Len(b) >= BufLen THEN 1
    ELSE XorFrom(Buffer(a), Buffer(b), 0, 0) | (Len(a) ^^ Len(b))
TimeIndependentStrcmp(a, b) ==
    IF Len(a) > BufLen \/ Len(b) > BufLen THEN 1
    ELSE XorFrom(Buffer(a), Buffer(b), 0, 0) | (Len(a) ^^ Len(b))

\* authCommand: [authenticated, reply] after AUTH arg.
AuthCommand(requirepass, arg, authenticated) ==
    CASE requirepass = NoPass -> [authenticated |-> authenticated, reply |-> "err_nopass"]
      [] TimeIndependentStrcmp(arg, requirepass) = 0 ->
           [authenticated |-> TRUE, reply |-> "ok"]
      [] OTHER -> [authenticated |-> FALSE, reply |-> "err_invalid"]

VARIABLES
    requirepass,    \* server.requirepass, fixed by the configuration
    arg,            \* c->argv[1] of the client's latest AUTH
    authenticated,  \* c->authenticated
    reply           \* the reply to the latest AUTH

vars == <<requirepass, arg, authenticated, reply>>

Init ==
    /\ requirepass \in Strings \cup {NoPass}
    /\ arg = <<>>
    /\ authenticated = FALSE
    /\ reply = "none"

\* The client sends AUTH a.
Auth(a) ==
    LET r == AuthCommand(requirepass, a, authenticated)
    IN  /\ arg' = a
        /\ authenticated' = r.authenticated
        /\ reply' = r.reply
        /\ UNCHANGED requirepass

Next == \E a \in Strings : Auth(a)

Spec == Init /\ [][Next]_vars

TypeOK ==
    /\ requirepass \in Strings \cup {NoPass}
    /\ arg \in Strings
    /\ authenticated \in BOOLEAN
    /\ reply \in {"none", "ok", "err_nopass", "err_invalid"}

\* After AUTH the client is authenticated exactly when a password is set, it
\* fits CONFIG_AUTHPASS_MAX_LEN, and the client sent that password: the byte
\* loop and the length term of time_independent_strcmp never accept a wrong
\* password, and the length guard rejects no right one that fits.
AuthenticatedIffPassword ==
    reply # "none" =>
        (authenticated <=> requirepass # NoPass /\ arg = requirepass /\ Len(arg) <= BufLen)

=============================================================================
