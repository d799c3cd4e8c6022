# TLA+ models of the keyspace engine and command pipeline

This directory holds TLA+ models of the C sources in `src/`. They cover the
keyspace of a database (`db.c`), lazy and active expiry (`db.c`, `server.c`),
keyspace notifications (`notify.c`), the command pipeline (`processCommand`
and `call` in `server.c`), the MULTI/EXEC handlers (`multi.c`), the command
registry (`populateCommandTable`, `getKeysUsingCommandTable`), AUTH and its
constant-time comparison, the slow log entry builder (`slowlog.c`), the
byte-order helpers (`endianconv.c`), and the startup sequence of `main`
(supervision, daemonizing, the listening sockets and `initServer`'s fatal
checks). An abstract key/value store with
deadlines states what the keyspace promises, and the server is checked to
implement it. TLC checks every model. `PROJECT.json` lists the components, the runs, the mutants
that show each property can fail, the map from each definition to the source
lines it translates, the findings, and the hazards.

## The system in this snapshot

The tree is a cut-down server. A model has to follow what the code does, not
what it used to do:

* The command table (`server.c:150-327`) registers only `get` (arity 2, flags
  `rF`) and `del` (arity -2, flag `w`). The rows of `multi`, `exec`,
  `discard`, `watch`, `auth` and `ping` are commented out.
* `execCommand` returns after its "not in MULTI" check, and the rest of its
  body is commented out (`multi.c:109-158`). `discardCommand` and
  `watchCommand` are stubbed the same way past their checks.
* `signalModifiedKey` does nothing (`db.c:76-78`). The sink calls inside
  `propagateExpire` are commented out (`db.c:193-195`).
* `activeExpireCycle` and `activeExpireCycleTryExpire` are commented out
  (`server.c:886-1029`), and `serverCron` returns at once.
* `propagate` (`server.c:1605-1612`) is the sink the pipeline hands operations
  to. `slowlogPushEntryIfNeeded` is a stub.
* `initServerConfig` sets `masterhost`, `requirepass` and `loading` to their
  off values (`server.c:564`, `592`, `635`), and nothing in `src/` changes
  them. The replica, AUTH and loading branches are still written out in the
  code. The models reach them through the configuration constants, so the
  runs with `Replica = TRUE` describe those branches as written. They are not
  behaviours of this build as configured.
* `initServerConfig` also sets `notify_keyspace_events` to 0
  (`server.c:597`), and no configuration loader is in `src/`, so
  `notifyKeyspaceEvent` returns at its first test (`notify.c:17`). The
  Server runs enable every class (`NotifyClasses`) to check the notification
  code as written; `Replication` keeps the build's value, no class.
* No command in `src/` writes a key. `setKey` and `setExpire` exist, but only
  external code would call them: the write commands of a full server, or the
  replication link.

### Parts and how they interact

A client request enters `processCommand`. Its gates run in code order:

1. `quit`
2. unknown command
3. arity
4. authentication
5. persistence error on a master
6. loading
7. queueing inside MULTI
8. `call(c, CMD_CALL_FULL)`

`call` clears the client's force/prevent propagation flags and runs the
handler. It then measures the dirty delta and hands the command to
`propagate` on the channels it computes. The handlers read and write the
keyspace through `db.c`. Every lookup first runs `expireIfNeeded`:

* On a master it deletes an expired key and publishes `expired`.
* On a replica it only reports the key as expired.
* During loading it does nothing.

Deletions publish keyspace events through `notifyKeyspaceEvent`.

Before any request, `main` runs once: `initServerConfig`, then
`redisIsSupervised`, which may signal readiness to upstart or systemd, then
`daemonize` when `daemonize` is set and the process is not supervised, then
`initServer`, which opens the sockets (`listenToPort`), registers the events
and opens the AOF, then `createPidFile`, and finally `aeMain`, the event
loop in which `beforeSleep` and the command pipeline run.

## Modules

| Module | Models | State |
|---|---|---|
| `Keyspace` | `db.c` (lookups, add, overwrite, delete, expires, `setKey`, `expireIfNeeded`, `propagateExpire`, DEL), `notify.c`, `t_string.c` (GET) | none; operators from a store record to a store record |
| `Server` | `processCommand`, `call`, `propagate`, the command table, `multi.c`, `beforeSleep` and the active cycle | `store`, `clients`, `now`, `last` |
| `KeyValueTTL` | the abstract keyspace: a map whose keys vanish when their deadline passes | `kv`, `ttl`, `clock`, `out` |
| `KVRefinement` | the refinement mapping from `Server` to `KeyValueTTL` | (`Server`'s) |
| `MCServer` | model values for two clients and two keys; extends `KVRefinement` | |
| `CommandTable` | `populateCommandTable`, `lookupCommand`, `getKeysFromCommand`, `getKeysUsingCommandTable` | `j`, `commands`, `panic`, `req` |
| `MCCommandTable` | the 176 rows of `redisCommandTable` as written | |
| `Auth` | `authCommand`, `time_independent_strcmp` | `requirepass`, `arg`, `authenticated`, `reply` |
| `Slowlog` | `slowlogCreateEntry` | `argv`, `entry` |
| `ByteOrder` | `memrev32`, `intrev32` | `v`, `host` |
| `Listen` | `listenToPort` and `initServer`'s socket checks | `bindaddr`, `os`, `phase`, `ipfd` |
| `Startup` | `main`'s startup: `redisIsSupervised` and the upstart/systemd handshakes, `daemonize`, `initServer`'s fatal checks (with `Listen`), `createPidFile` | `conf`, `env`, `pc`, `proc`, `supervised`, `background`, `told`, `exited`, `pidfile`, and `Listen`'s (`phase` as `lphase`) |
| `MCPure` | `Auth`, `Slowlog` and `ByteOrder` in one run: Init picks one, the others keep a fixed value | `part` and the three modules' |
| `Replication` | a master and a replica, two instances of `Server`, linked by the stream `propagate` feeds | `mstore`, `mclients`, `mlast`, `now`, `rstore`, `rclients`, `rlast`, `rnow`, `link` |

**Keyspace.** Every function of `db.c` is an operator from a store record to a
store record. So a handler, which calls several of them in sequence, is their
composition, and it runs as one atomic step, as it does on the single command
thread. A store record has six fields:

* `dict`: key → object type or `NIL`
* `expires`: key → deadline or `NOEXP`
* `dirty`: `server.dirty`
* `events`: the notifications published by the step
* `props`: the operations handed to the sink by the step
* `panic`: a failed `serverAssert`

Values are abstracted to their type (string or list), because GET's reply
depends only on that. Where one call's result feeds several later
expressions, `Bind(e, F)` evaluates `e` once. This keeps checking linear in the
length of a chain: TLC re-evaluates LET definitions when coverage is reported. The loop of DEL over its keys is a `FoldLeft` of
`DelStep`.

**Server.** The actions are:

* `ClientCommand(c, name, argv)`: one request through `processCommand`. It
  covers every gate, the MULTI queue and `call`.
* `WriterSetKey(k, v)` and `WriterSetExpire(k, t)`: the external callers of
  `setKey` and `setExpire`. A write command looks the key up for writing
  first, as the callers of `setExpire` do.
* `Tick`: the clock `mstime()` advances.
* `BeforeSleep`: the active expire cycle run by the event loop. It is used
  only by `LiveSpec`.

`ClientCommand` has a fourth parameter, `tick`. `expireIfNeeded` reads
`mstime()` once for each key (`db.c:155`). When `ClockMayAdvance` holds, a DEL
may therefore see the clock move on from its `tick`-th argument; its step then
ends one tick later (`ReadClock` in `Keyspace`). `last.liveAtStart` and
`last.liveAtEnd` are history fields. They count the argument keys that were
alive at the step's first and last instant.

The constants `Replica`, `Loading`, `RequirePass` and `PersistError` are the
configuration (`server.masterhost`, `server.loading`, `server.requirepass`,
the last bgsave/AOF status). `Registered` is the set of rows present in the
command table. `dirty`, `events` and `props` are cleared at the start of each
step, so the properties can state what one step did.

**KeyValueTTL and KVRefinement.** `KeyValueTTL` is what a client may
observe. A key is gone the moment its deadline passes. GET answers from the
map. DEL removes its keys and counts those that were present. `Put` and
`Expire` are the writers, and `Advance` moves the clock and drops expired
keys. `KVRefinement` maps the server onto it:

* `kv` holds the keys that are *visible* (`Visible`: present and not past
  their deadline, the test of `expireIfNeeded`, `db.c:164-167`);
* `clock` is `now`, and `out` is the reply of the step.

Lazy deletion of an already invisible key is then a stuttering step. This
is the refinement the code is designed for: expiry is lazy inside and
immediate outside.

**CommandTable.** The startup loop processes one row of the table per step.
It decodes the flag letters (an unknown letter panics) and adds the
descriptor, asserting that the name is new. After the loop, each step is one
`getKeysFromCommand` call for a registered name and an `argc` that passes
`processCommand`'s arity check. Its only caller, the cluster redirection, sits
after that check (`server.c:1813-1835`, commented out). `MCCommandTable`
gives it every row of the source table, live or commented out. The live build
registers only `get` and `del`, but every key-position shape (BITOP's
first key at 2 with a negative last key among them) and every letter the
flag switch decodes occur in the commented rows. These are the rows the two functions are
written for.

**Auth, Slowlog and ByteOrder** are pure algorithms. Each is an operator
translated from the C. A small state machine enumerates the inputs, and a
property compares the result with a reference definition:

* `Auth` keeps strings up to one byte longer than the comparison buffer.
  AUTH is not registered in this build.
* `Slowlog` grows the logged command one argument at a time.
* `ByteOrder` keeps a `uint32_t` as two 16-bit halves, because TLC's integers
  are 32-bit signed. It lays the word out in memory on a little- or a
  big-endian host.

`MCPure` checks the three in one run. A behaviour exercises one algorithm,
chosen by `Init`; the other two keep a fixed valid value. The run's states
are therefore the union of the three modules' states, not their product.

**Listen.** Startup opens its TCP sockets through `listenToPort`. Each
call of `anetTcp6Server`/`anetTcpServer` returns a descriptor or `ANET_ERR`
with `errno` set. The model takes the OS's answers (`fd`, `eafnosupport`,
`error`) as input, one per call. The bind-* branch (`BindStar`) keeps the
code's counters: the sockets counted, the unsupported families, whether the
loop left by its `break`, and what `fds[*count]` holds afterwards. The loop's
common tail re-reads that slot: `ANET_ERR` returns `C_ERR`, anything else is
counted once more. `InitServerListen` adds `initServer`'s two exits: on
`C_ERR`, and when no socket listens (no unix socket is configured). This
build only ever binds *, because `bindaddr_count` is 0 and nothing sets it.
The address list is the branch as written.

**Startup.** `main`'s steps are actions guarded by a program counter `pc`:
`MainSupervise`, `MainDaemonize`, `MainInitServer` and `MainPidFile`. Each
answer of the OS is chosen at the step that receives it: `socket` and
`sendmsg` for systemd, `fork`, the bind calls (through `Listen`), the event
loop's time and file events, `open` of the AOF, and `fopen` of the pid file.
The two processes a fork can give are `parent` and `child`. `proc` is the
process carrying on `main`. `told` holds the processes that signalled
readiness: upstart's `SIGSTOP` or systemd's `READY=1`. `exited` holds each
process's exit status, or `abort` for `serverPanic`.

The configuration (`daemonize`, `supervised_mode`, `pidfile`, appendonly)
and the environment (`UPSTART_JOB`, `NOTIFY_SOCKET`) are chosen by `Init`
and then fixed, except that the handshakes `unsetenv` their variable. In
this build `supervised_mode`, `pidfile` and `aof_state` keep the off values
`initServerConfig` gives them (`server.c:569-589`). `daemonize` comes from a
macro whose header is not in `src/`. The other values are the branches as
written. `MainInitServer` starts from `Listen`'s `InitServerListen`, so the
sockets are the ones `Listen` describes, bind lists included.

**Replication.** Two instances of `Server`: `M`, a master, and `R`, a
replica whose clients are its master link and `Readers`, which send GET.
Each host reads its own `mstime()`: `now` on the master, `rnow` on the
replica. `MasterTick` and `ReplicaTick` advance them separately, at most
`MaxSkew` apart. `link` is the
replication stream, a FIFO sequence of command records. `MasterCommand` is a
client command on the master; the operations `call()` handed to `propagate`
with the replication target are appended to `link`. `MasterSetKey` and
`MasterSetExpire` are the write commands, which propagate when they dirty the
dataset. `ReplicaApply` applies the head of the stream on the replica: `set`
through `setKey`, `pexpireat` through the lookup and `setExpire`, anything
else through the replica's own `processCommand`. The receiving side of the
link is not in `src/`, and `propagate` has its feeds commented out
(`server.c:1605-1612`), so the stream is modelled from spec.md: it is what a
build with the feeds restored would do. The link client is passed to
`processCommand` as an ordinary client; the only command the master
propagates is DEL, whose write lookup does not depend on it.
The cfg uses a `VIEW` (`View`): the per-step fields of a store (`dirty`,
`events`, `props`) and the `last` records are cleared or rewritten by every
step and read by no guard, and the properties read only their primed values,
so two states that differ only there have the same futures.

## Runs

| Run | cfg | Expect | What it shows |
|---|---|---|---|
| master | `MCServer.cfg` | pass | On a master, a key leaves the dataset only through DEL or once its deadline has passed. A client never reads a value past its deadline. Every removal publishes exactly one event per enabled channel. A command reaches the sink exactly when it dirtied the dataset. The master implements `KeyValueTTL` (`RefinesKeyValueTTL`): lazy expiry is invisible to clients. No expire is left without a key, and no assertion fails. |
| command_table | `MCCommandTable.cfg` | pass | The source table loads without a panic or a duplicate name. For every request that passes the arity check, `getKeysUsingCommandTable` returns exactly the positions of the row's key spec. It never trips `serverAssert(j < argc)` and never writes past its allocation. |
| pure | `MCPure.cfg` | pass | Auth: after any sequence of AUTH calls, the client is authenticated exactly when a password is set and the last attempt equals it, including at the buffer-length boundary. Slowlog: an entry respects both limits; its shown arguments plus the "more arguments" count make up `argc`, and each cut string plus its "more bytes" count makes up the string's length. ByteOrder: `intrev32` reverses the four bytes on both byte orders. |
| replication | `MCReplication.cfg` | pass | Once the replica has applied the stream, GET gives the same reply on both sides, except for a key whose deadline has passed on one host's clock and not yet on the other's; a key readable on both has the same deadline. The master's lazy expiry sends nothing (`db.c:193`), so the replica keeps every key the master expired, and the replica's read lookup hides them by its own clock (`db.c:57-67`, `163`). The replica, fed what its master really sends, never trips `dbAdd`'s assertion when `setKey` meets a key it still holds past its deadline, never removes a key on its own, never shows its readers an expired key, and propagates exactly when its dataset was dirtied. |
| startup | `Startup.cfg` | pass | With supervision off, upstart or systemd, and a fork that works, three things hold. The process a supervisor was told is ready is the one that enters the event loop. Only the parent of a daemonizing fork exits with status 0. Whatever the OS answers to each socket call, startup goes on exactly when every requested socket was bound or its family is unsupported, and at least one socket listens; it then listens on exactly the sockets the OS opened, and IPv4 is still tried after IPv6 was unsupported. |
| supervised_auto | `StartupAuto.cfg` | violation | With `supervised auto` and `daemonize yes`, the parent signals readiness and then forks away; the child serves under a pid the supervisor does not track (`server.c:843`). |
| fork_failure | `StartupFork.cfg` | violation | A failed `fork()` in `daemonize` exits with status 0, and no server runs (`server.c:749`). |
| expiry_propagation | `MCServerExpiryProp.cfg` | violation | A key deleted by lazy expiry never reaches the sink (`db.c:193`). |
| transaction | `MCServerTxn.cfg` | violation | With MULTI/EXEC registered, EXEC leaves the client in MULTI (`multi.c:109`). |
| active_expire | `MCServerActiveExpire.cfg` | violation | Under a fair event loop, an expired key that nobody reads is never reclaimed (`server.c:904`). |
| replica_refinement | `MCServerReplicaRefines.cfg` | violation | On a replica, a client DEL of an expired key counts it, publishes `del` and propagates it. No abstract step allows that (`server.c:1894`). |
| clock_in_command | `MCServerClock.cfg` | violation | With the clock read per key, `DEL k1 k2` can reply 1 where no instant had exactly one key alive (`db.c:155`). |

Every property of a passing run is checked under a mutant of the code it is
about, and TLC finds it violated. `PROJECT.json` lists the mutants:

* a deadline off by one;
* a dropped replica check;
* a `dbDelete` that keeps the expire;
* a `setKey` that sets the expire before the key;
* a DEL that notifies for keys it did not delete;
* a `call()` that propagates every command;
* a `memrev32` without its inner swap;
* a `>=` length guard in `time_independent_strcmp`;
* an off-by-one "more arguments" count;
* a flag switch without `k`;
* a negative `lastkey` resolved one too far;
* a replica read lookup that returns expired keys to ordinary clients;
* a bind-* branch that tries IPv4 only after IPv6 succeeded;
* a `main` that daemonizes even when supervised;
* a `daemonize` whose test of `fork()` is inverted.

### Findings

* **db.c:193.** `propagateExpire` is stubbed. A master that expires a key
  lazily deletes it locally, but hands nothing to the AOF or to the replicas.
  `spec.md` (expiration, step 6) says a DEL is propagated. Replicas and the
  AOF therefore keep keys the master deleted.
* **multi.c:109.** `execCommand` inside MULTI neither runs the queue, nor
  replies, nor leaves the transaction. `discardCommand` is stubbed the same way
  at `multi.c:42`. A client that sends MULTI then queues everything forever.
  The rows are commented out of the table, so the live build refuses MULTI as
  an unknown command instead.
* **server.c:904.** The active expire cycle is empty. A key whose deadline has
  passed is freed only when something reads it.
* **server.c:1894.** The read-only replica gate is commented out. A client
  DEL on a replica deletes a logically expired key, replies 1, publishes
  `del` and propagates it. `spec.md` says a replica never deletes locally
  and lists the read-only restriction among the errors. The divergence is
  latent in this build, because `masterhost` is never set.
* **db.c:155.** `expireIfNeeded` reads `mstime()` for every key. Only a Lua
  caller freezes the clock. `spec.md` (expiration, step 3) says the time is
  frozen for one command. Take `DEL k1 k2` on two keys with the same deadline
  `t`, started at `t`, with the clock moving on between the keys. It deletes
  `k1` as live and expires `k2`, and replies 1. At `t` both keys were alive,
  and at `t+1` neither was. The run needs only a millisecond boundary that
  falls inside one command.

* **server.c:843.** Under `supervised auto`, `redisIsSupervised` runs the
  upstart or the systemd handshake, drops its result and returns 0. With
  `daemonize yes`, `main` then forks: the parent that stopped itself for
  upstart, or sent `READY=1` to systemd, exits 0. The server runs in a child
  the supervisor does not know. The explicit modes return the handshake's
  result and do not fork. This is latent in this build, where
  `supervised_mode` stays `SUPERVISED_NONE`.
* **server.c:749.** `daemonize` tests `fork() != 0` for "parent exits". A
  failed fork returns -1, so the only process exits with status 0 and no
  server runs. The init script sees success. `spec.md` treats startup I/O
  failures as fatal to startup.

## Bounds

* Two clients, two keys and a clock of `0..2`. That is enough for:
  * a deadline in the past, at the present moment, and in the future;
  * a DEL of two keys where one has expired and one has not;
  * a second client's lookup that expires a key the first one wrote.
* DEL and GET take at most 2 arguments (`MaxArgs`). A client's MULTI queue
  holds at most 1 command in the passing runs and 2 in the transaction run
  (`MaxQueue`).
* Each Server cfg has every event class enabled, so both the keyspace and the
  keyevent channel are exercised.
* `CommandTable`: all 176 rows (`server.c:151-326`), with requests of up to 7 arguments. That
  covers every fixed arity in the table (at most 6) and three key/value pairs
  of MSET, where a step of 2 meets an odd and an even `argc`.
* `Auth`: strings over two byte values of length 0 to 4, against a 3-byte
  buffer, so the boundary `len = sizeof(buf)` and one past it both occur.
* `Slowlog`: at most 3 slots and 2 bytes per string, with commands of up to
  5 arguments of up to 3 bytes. That covers a command at, one past and two
  past the argument limit, and a string at and past the byte limit.
* `ByteOrder`: words built from the bytes 0, 1, 0x7F, 0x80 and 0xFF. The
  sign bit of each byte and an all-ones word both occur.

* `Startup` (and `Listen` within it): no bind address, and lists of up to 3
  addresses of either family, against all 27 answer combinations of the OS.
  Every branch of the bind-* block occurs, and so does a failure at each
  list position. Every combination of the configuration, both environment
  variables (`NOTIFY_SOCKET` unset, usable or rejected) and every answer of
  `socket`, `sendmsg`, the event loop, `open` and `fopen` also occur
  (95,730 states). The two violation runs keep bind lists of at most one
  address, because the bug does not depend on them.
* `Replication`: one master client, one replica reader, two keys, clocks of
  `0..3` at most 1 apart (`MaxSkew`), and a stream of at most 2 pending
  commands (`MaxLink`). A deadline can lie behind both clocks, between them,
  or ahead of both. The master can expire a key lazily, rewrite or re-expire
  it, and delete it while the replica still holds an older state, and the
  check compares the two sides whenever the stream drains (374,502 distinct
  states under the view).

## Fairness

`Startup.cfg` and the two startup violation runs turn off the deadlock check.
Every path of `main` ends in `exit()` or in `aeMain`, where the event loop
that `Server` models takes over, so a final state is the end of startup,
not a deadlock.

Only `LiveSpec` assumes fairness: weak fairness of `BeforeSleep`. The event
loop calls `beforeSleep` before every wait (`server.c:1034`), so while the
server runs, the active cycle keeps being enabled and keeps being taken.
Client commands and writers get no fairness, because nothing obliges a client
to send anything.

## Not modelled, and why

* **Abstracted away:**
  * LRU stamps
  * hit/miss and expired-key statistics, and the per-command call statistics
  * the MONITOR feed (commented out)
  * `server.also_propagate` (no handler in `src/` appends to it)
  * multiple databases (`selectDb` only picks one)
  * reply formatting
* **Stubs with nothing to model:**
  * `slowlogPushEntryIfNeeded` (its body is commented out). Only the entry
    builder is modelled.
  * `clusterBeforeSleep` (empty). `askingCommand`'s row is commented out,
    and `cluster_enabled` is always 0.
  * `bio.h`, a header with no code.
* **Not reachable in this build**, so no hazard is listed for it:
  * The loading gate's missing `flagTransaction` (`server.c:1926`), because
    `server.loading` is never set.
  * The AUTH lock-out (`server.c:1805`), because `requirepass` is never set.
  * WATCH invalidation (`db.c:77`), because WATCH is stubbed.
  * The uninitialised pointer of the test harness's `getDecodedObject`
    (`set_test.c:35`): no code adds to a set, and the harness's `main` calls
    `zset_object`, which `src/` does not define.
* **I/O:** configuration parsing (it enters the model as constants),
  signal handlers, the shared reply objects, `setsid` and the redirection of
  stdio inside `daemonize` (only its fork and exit are modelled), the unix
  socket (never configured), logging (`serverLog`, `serverLogRaw`), the
  process title, `getRandomHexChars` (the run id, which nothing compares),
  and the test harness (`*_test.c`), which only creates objects and prints
  them.
* **Configuration (`config.c`):** name/value tables that nothing in `src/`
  reads, and the three save points `initServerConfig` appends. Their only
  use is `saveparamslen > 0` in the MISCONF gate, which `Server` folds into
  `PersistError`.
* **Readiness before listening (`server.c:2048`):** in every mode,
  `redisIsSupervised` signals readiness before `initServer` binds the
  sockets and opens the AOF. A startup that then fails has already told its
  supervisor it is up. `Startup` reaches this, but no run checks it: the
  property would fail on any bind failure, and it is listed as a hazard
  instead.

## Plan

1. Done: `Keyspace` and `Server`, with the master and replica runs and three
   findings.
2. Done: the refinement to `KeyValueTTL`; `CommandTable`, `Auth`, `Slowlog`
   and `ByteOrder`; the clock read per key, with two more findings.
3. Done: replication, a master and a replica composed through the stream.
   Reads agree despite the `propagateExpire` stub; the replica's memory does
   not (it keeps expired keys), which `expiry_propagation` already records.
4. Done: separate clocks on the two hosts with a bounded skew, readers on
   the replica, and `Listen` for the sockets opened at startup.
5. Done: `Startup`, which composes `Listen` into `main`'s sequence, with two
   findings; the pure algorithms share one run.
6. A transaction module with `unwatchAllKeys` and the queue-error taint, for
   when EXEC's body is restored.
