------------------------------- MODULE Startup -------------------------------
(***************************************************************************)
(* The startup sequence of main() (server.c:2030-2087): after              *)
(* initServerConfig, main asks redisIsSupervised whether upstart or        *)
(* systemd supervises the process, forks into the background when          *)
(* daemonize is set and the process is not supervised, runs initServer,    *)
(* writes the pid file when daemonized or asked to, and enters aeMain.     *)
(* Each step is an action guarded by the program counter pc; the answers   *)
(* of the operating system (socket, sendmsg, fork, bind, open, the event   *)
(* loop's allocations) are chosen at the step that receives them.          *)
(*                                                                         *)
(* Processes are "parent" (the one started) and "child" (the one a fork    *)
(* creates).  `proc` is the process that carries on main; `told` the       *)
(* processes that signalled readiness to a supervisor; `exited` the exit   *)
(* status of each process that ended.  The sockets are opened by Listen.   *)
(*                                                                         *)
(* The configuration is a choice of Init, fixed afterwards.  In this build *)
(* initServerConfig sets supervised_mode to SUPERVISED_NONE, pidfile to    *)
(* NULL and aof_state to AOF_OFF and no config loader changes them; the    *)
(* other values are the branches as written.  daemonize comes from         *)
(* CONFIG_DEFAULT_DAEMONIZE, whose header is not part of src/.             *)
(***************************************************************************)
EXTENDS Naturals, Sequences

CONSTANTS
    MaxAddrs,           \* the longest list of bind addresses (Listen)
    SupervisedModes,    \* the supervised_mode values the run starts with
    ForkAnswers         \* what fork() may return: "ok" or "fail" (-1)

Modes == {"no", "upstart", "systemd", "auto"}
Pids == {"parent", "child"}

\* NOTIFY_SOCKET: unset, a usable path ('@' or '/' and two bytes or more),
\* or a value redisSupervisedSystemd rejects.
NotifySockets == {"unset", "ok", "bad"}
Envs == [UPSTART_JOB : BOOLEAN, NOTIFY_SOCKET : NotifySockets]

ASSUME SupervisedModes \subseteq Modes /\ ForkAnswers \subseteq {"ok", "fail"}

VARIABLES
    conf,       \* [daemonize, supervised_mode, pidfile, aof_state] of server
    env,        \* the environment variables the supervision code reads
    bindaddr, os, lphase, ipfd,     \* Listen's state
    pc,         \* the step of main the process is at
    proc,       \* the process running main
    supervised, \* server.supervised
    background, \* main's local `background`
    told,       \* processes that signalled readiness to a supervisor
    exited,     \* exit status of each process: "none", "0", "1", "abort"
    pidfile     \* the process the pid file names, or "none"

vars == <<conf, env, bindaddr, os, lphase, ipfd, pc, proc, supervised,
          background, told, exited, pidfile>>

L == INSTANCE Listen WITH phase <- lphase

Exit(p, status) == exited' = [exited EXCEPT ![p] = status]

\* redisSupervisedUpstart (server.c:825-838): without UPSTART_JOB it only
\* logs; otherwise the process stops itself with SIGSTOP, the readiness
\* signal upstart waits for, and unsets UPSTART_JOB.
RedisSupervisedUpstart(e, p) ==
    IF ~e.UPSTART_JOB THEN [ret |-> 0, told |-> {}, env |-> e]
    ELSE [ret |-> 1, told |-> {p}, env |-> [e EXCEPT !.UPSTART_JOB = FALSE]]

\* redisSupervisedSystemd (server.c:763-823): NOTIFY_SOCKET must be set and
\* usable and socket() must succeed; NOTIFY_SOCKET is unset before sendmsg
\* sends READY=1, which may fail.
RedisSupervisedSystemd(e, p, sockOk, sendOk) ==
    CASE e.NOTIFY_SOCKET # "ok" \/ ~sockOk -> [ret |-> 0, told |-> {}, env |-> e]
      [] OTHER -> [ret |-> IF sendOk THEN 1 ELSE 0,
                   told |-> IF sendOk THEN {p} ELSE {},
                   env |-> [e EXCEPT !.NOTIFY_SOCKET = "unset"]]

\* redisIsSupervised (server.c:840-857).  Under "auto" it runs the upstart
\* or the systemd handshake, whichever variable is set, and returns 0
\* whatever the handshake did.
RedisIsSupervised(mode, e, p, sockOk, sendOk) ==
    CASE mode = "upstart" -> RedisSupervisedUpstart(e, p)
      [] mode = "systemd" -> RedisSupervisedSystemd(e, p, sockOk, sendOk)
      [] mode = "auto" ->
            LET r == IF e.UPSTART_JOB THEN RedisSupervisedUpstart(e, p)
                     ELSE IF e.NOTIFY_SOCKET # "unset"
                          THEN RedisSupervisedSystemd(e, p, sockOk, sendOk)
                          ELSE [ret |-> 0, told |-> {}, env |-> e]
            IN  [r EXCEPT !.ret = 0]
      [] OTHER -> [ret |-> 0, told |-> {}, env |-> e]

Init ==
    /\ conf \in [daemonize : BOOLEAN, supervised_mode : SupervisedModes,
                 pidfile : BOOLEAN, aof_state : BOOLEAN]
    /\ env \in Envs
    /\ bindaddr \in L!AddrLists
    /\ os = [i \in 1..L!NCalls |-> "fd"]
    /\ lphase = "init"
    /\ ipfd = <<>>
    /\ pc = "supervise"
    /\ proc = "parent"
    /\ supervised = 0
    /\ background = FALSE
    /\ told = {}
    /\ exited = [p \in Pids |-> "none"]
    /\ pidfile = "none"

\* server.supervised = redisIsSupervised(server.supervised_mode);
MainSupervise ==
    /\ pc = "supervise"
    /\ \E sockOk, sendOk \in BOOLEAN :
          LET r == RedisIsSupervised(conf.supervised_mode, env, proc, sockOk, sendOk)
          IN  /\ supervised' = r.ret
              /\ told' = told \cup r.told
              /\ env' = r.env
    /\ pc' = "daemonize"
    /\ UNCHANGED <<conf, bindaddr, os, lphase, ipfd, proc, background, exited, pidfile>>

\* daemonize (server.c:746-761) with the test of fork() inverted: the child
\* exits and the parent carries on.
DaemonizeChildExits(f) ==
    IF f = "ok" THEN /\ exited' = [exited EXCEPT !["child"] = "0"]
                     /\ proc' = proc /\ pc' = "initserver"
    ELSE UNCHANGED <<exited, proc>> /\ pc' = "initserver"

\* daemonize (server.c:746-761): if (fork() != 0) exit(0).  After a fork
\* the parent exits 0 and the child carries on (setsid and the redirection
\* of stdio to /dev/null are I/O); a failed fork returns -1, which is not 0
\* either, so the process exits 0 and no child exists.
Daemonize(f) ==
    /\ Exit("parent", "0")
    /\ IF f = "ok" THEN proc' = "child" /\ pc' = "initserver"
                   ELSE proc' = proc /\ pc' = "exited"

\* main with `background = server.daemonize` alone.
MainDaemonizeIgnoringSupervised ==
    /\ pc = "daemonize"
    /\ background' = conf.daemonize
    /\ IF background' THEN \E f \in ForkAnswers : Daemonize(f)
       ELSE UNCHANGED <<proc, exited>> /\ pc' = "initserver"
    /\ UNCHANGED <<conf, env, bindaddr, os, lphase, ipfd, supervised, told, pidfile>>

\* int background = server.daemonize && !server.supervised;
\* if (background) daemonize();
MainDaemonize ==
    /\ pc = "daemonize"
    /\ background' = (conf.daemonize /\ supervised = 0)
    /\ IF background' THEN \E f \in ForkAnswers : Daemonize(f)
       ELSE UNCHANGED <<proc, exited>> /\ pc' = "initserver"
    /\ UNCHANGED <<conf, env, bindaddr, os, lphase, ipfd, supervised, told, pidfile>>

\* initServer (server.c:1336-1470) as far as it can fail: the sockets
\* (Listen, exit(1)), then the serverCron time event and one file event per
\* listening socket (serverPanic when the event loop refuses one), then the
\* AOF file when appendonly is on (exit(1) when open fails).
MainInitServer ==
    /\ pc = "initserver"
    /\ \E answers \in L!OsAnswers : L!InitServerListen(bindaddr, answers)
    /\ IF lphase' = "exited"
       THEN Exit(proc, "1") /\ pc' = "exited"
       ELSE \E ev \in {"ok", "time_event", "file_event"}, aofOk \in BOOLEAN :
              CASE ev # "ok" -> Exit(proc, "abort") /\ pc' = "exited"
                [] conf.aof_state /\ ~aofOk -> Exit(proc, "1") /\ pc' = "exited"
                [] OTHER -> UNCHANGED exited /\ pc' = "pidfile"
    /\ UNCHANGED <<conf, env, proc, supervised, background, told, pidfile>>

\* if (background || server.pidfile) createPidFile();  createPidFile
\* (server.c:1483-1494) writes getpid() when fopen succeeds and fails
\* silently otherwise.  main then enters aeMain.
MainPidFile ==
    /\ pc = "pidfile"
    /\ \E fopenOk \in BOOLEAN :
          pidfile' = IF (background \/ conf.pidfile) /\ fopenOk THEN proc ELSE pidfile
    /\ pc' = "loop"
    /\ UNCHANGED <<conf, env, bindaddr, os, lphase, ipfd, proc, supervised,
                   background, told, exited>>

\* Every path ends in exit() or in aeMain, where the event loop (Server)
\* takes over; the model of main stops there.
Next == MainSupervise \/ MainDaemonize \/ MainInitServer \/ MainPidFile

Spec == Init /\ [][Next]_vars

-----------------------------------------------------------------------------

TypeOK ==
    /\ conf \in [daemonize : BOOLEAN, supervised_mode : Modes,
                 pidfile : BOOLEAN, aof_state : BOOLEAN]
    /\ env \in Envs
    /\ pc \in {"supervise", "daemonize", "initserver", "pidfile", "loop", "exited"}
    /\ proc \in Pids
    /\ supervised \in {0, 1}
    /\ background \in BOOLEAN
    /\ told \subseteq Pids
    /\ exited \in [Pids -> {"none", "0", "1", "abort"}]
    /\ pidfile \in Pids \cup {"none"}

\* The process a supervisor was told is ready (upstart's SIGSTOP, systemd's
\* READY=1) is the process that runs the event loop: once the handshake
\* worked, main must not fork away from the supervised pid
\* (redisIsSupervised, server.c:840-857, and `background`, server.c:2049).
SupervisorTracksServer == pc = "loop" => told \subseteq {proc}

\* A process exits with status 0 only as the parent of a daemonizing fork
\* whose child carries on startup: a failure never reports success to the
\* shell or init script that started the server (daemonize, server.c:749).
ExitZeroOnlyForDaemonParent ==
    \A p \in Pids : exited[p] = "0" => p = "parent" /\ proc = "child"

\* Listen's property, for the sockets this startup opened.
ListensAsConfigured == L!ListensAsConfigured

====
