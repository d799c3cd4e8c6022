------------------------------- MODULE Listen -------------------------------
(***************************************************************************)
(* Opening the TCP listening sockets at startup: listenToPort              *)
(* (server.c:1163-1221) and the checks initServer makes around it          *)
(* (server.c:1364-1380).  Each call of anetTcp6Server / anetTcpServer      *)
(* returns a descriptor or ANET_ERR with errno set; the operating system's *)
(* answers are the input, one per call in the order the code makes them.   *)
(*                                                                         *)
(* With no bind address configured (the build's only case:                 *)
(* initServerConfig sets bindaddr_count to 0, server.c:551, and no config  *)
(* loader is in src/), the code binds * for IPv6 and then IPv4; an address *)
(* family the host lacks (EAFNOSUPPORT) is skipped.  With addresses, each  *)
(* is bound in turn, IPv6 when it contains ':'.                            *)
(***************************************************************************)
EXTENDS Naturals, Sequences

CONSTANTS
    MaxAddrs    \* the longest list of bind addresses tried

\* An answer of the OS to one socket call.
Answers == {"fd", "eafnosupport", "error"}

\* A bind address, abstracted to its family (strchr(addr, ':')).
Families == {"v4", "v6"}

\* A configured list of bind addresses.
AddrLists == UNION {[1..n -> Families] : n \in 0..MaxAddrs}

\* The OS's answers to the calls of one startup: at most two calls for *,
\* one per address otherwise.
NCalls == IF MaxAddrs < 2 THEN 2 ELSE MaxAddrs
OsAnswers == [1..NCalls -> Answers]

(***************************************************************************)
(* The bind-* branch of listenToPort (server.c:1170-1198), run with j = 0.  *)
(* fds: the sockets counted; brk: the loop was left by the break; slot:    *)
(* what fds[*count] holds afterwards, ANET_ERR ("err") when the last call  *)
(* failed, or the untouched entry of the zeroed server.ipfd ("unset").     *)
(***************************************************************************)
BindStarNoFallback(os) ==
    LET v6 == os[1]
        fds1 == IF v6 = "fd" THEN <<"*6">> ELSE <<>>
        uns1 == IF v6 = "eafnosupport" THEN 1 ELSE 0
        try4 == Len(fds1) = 1
        v4 == os[2]
        fds2 == IF try4 /\ v4 = "fd" THEN Append(fds1, "*4") ELSE fds1
        uns2 == uns1 + IF try4 /\ v4 = "eafnosupport" THEN 1 ELSE 0
        failed == IF try4 THEN v4 # "fd" ELSE v6 # "fd"
    IN  [fds |-> fds2, brk |-> Len(fds2) + uns2 = 2,
         slot |-> IF failed THEN "err" ELSE "unset"]
BindStar(os) ==
    LET v6 == os[1]
        fds1 == IF v6 = "fd" THEN <<"*6">> ELSE <<>>
        uns1 == IF v6 = "eafnosupport" THEN 1 ELSE 0
        try4 == Len(fds1) = 1 \/ uns1 > 0
        v4 == os[2]
        fds2 == IF try4 /\ v4 = "fd" THEN Append(fds1, "*4") ELSE fds1
        uns2 == uns1 + IF try4 /\ v4 = "eafnosupport" THEN 1 ELSE 0
        failed == IF try4 THEN v4 # "fd" ELSE v6 # "fd"
    IN  [fds |-> fds2, brk |-> Len(fds2) + uns2 = 2,
         slot |-> IF failed THEN "err" ELSE "unset"]

\* The loop over configured addresses (server.c:1199-1220): the first failed
\* bind returns C_ERR, keeping the sockets already opened in fds.
RECURSIVE BindList(_, _, _, _)
BindList(addrs, os, j, fds) ==
    CASE j > Len(addrs) -> [ret |-> "ok", fds |-> fds]
      [] os[j] # "fd" -> [ret |-> "err", fds |-> fds]
      [] OTHER -> BindList(addrs, os, j + 1, Append(fds, addrs[j]))

\* listenToPort: the descriptors it counted and C_OK / C_ERR.  After the
\* bind-* block the loop's common tail checks fds[*count] and, unless it is
\* ANET_ERR, counts it once more.
ListenToPort(addrs, os) ==
    IF addrs = <<>>
    THEN LET b == BindStar(os)
         IN  CASE b.brk -> [ret |-> "ok", fds |-> b.fds]
               [] b.slot = "err" -> [ret |-> "err", fds |-> b.fds]
               [] OTHER -> [ret |-> "ok", fds |-> Append(b.fds, "unset")]
    ELSE BindList(addrs, os, 1, <<>>)

VARIABLES
    bindaddr,   \* server.bindaddr[0..bindaddr_count-1]
    os,         \* the OS's answers to this startup's socket calls
    phase,      \* "init" before initServer, then "running" or "exited"
    ipfd        \* server.ipfd[0..ipfd_count-1]

vars == <<bindaddr, os, phase, ipfd>>

Init ==
    /\ bindaddr = <<>>
    /\ os = [i \in 1..NCalls |-> "fd"]
    /\ phase = "init"
    /\ ipfd = <<>>

\* One startup of initServer up to its sockets: listenToPort, exit(1) on
\* C_ERR, and exit(1) when nothing listens (no unix socket is configured,
\* server.unixsocket is NULL, so sofd stays -1).  The port is the default,
\* never 0.
InitServerListen(addrs, answers) ==
    LET r == ListenToPort(addrs, answers)
    IN  /\ bindaddr' = addrs
        /\ os' = answers
        /\ ipfd' = r.fds
        /\ phase' = IF r.ret = "ok" /\ r.fds # <<>> THEN "running" ELSE "exited"

Next == \E addrs \in AddrLists, answers \in OsAnswers : InitServerListen(addrs, answers)

Spec == Init /\ [][Next]_vars

-----------------------------------------------------------------------------

TypeOK ==
    /\ bindaddr \in AddrLists
    /\ os \in OsAnswers
    /\ phase \in {"init", "running", "exited"}

\* What the comment above listenToPort promises (server.c:1150-1162), as a
\* reference: with addresses, every one is bound; with none, * is bound for
\* each of IPv6 and IPv4 unless the host does not support that family.  The
\* sockets are then those the OS opened, each once.
Wanted(addrs, answers) ==
    IF addrs = <<>>
    THEN [ok |-> answers[1] # "error" /\ answers[2] # "error",
          fds |-> (IF answers[1] = "fd" THEN <<"*6">> ELSE <<>>)
                  \o (IF answers[2] = "fd" THEN <<"*4">> ELSE <<>>)]
    ELSE [ok |-> \A j \in DOMAIN addrs : answers[j] = "fd", fds |-> addrs]

\* After startup the server runs exactly when every socket it was asked for
\* was bound (or its family is unsupported) and at least one listens, and
\* then it listens on exactly the sockets the OS opened: IPv4 is still tried
\* after IPv6 was unsupported, and no descriptor is counted that no call
\* returned (listenToPort, server.c:1163-1221; initServer, 1364-1380).
ListensAsConfigured ==
    phase # "init" =>
        LET w == Wanted(bindaddr, os)
        IN  /\ (phase = "running") = (w.ok /\ w.fds # <<>>)
            /\ phase = "running" => ipfd = w.fds

=============================================================================
