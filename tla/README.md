# TLA+ models of umINK core

umINK core is a daemon (`sysagentd`) that runs Lua scripts in answer to
signals. Signals come from MQTT messages, from timers (Lua environments), from
a local command line socket and from ubus. Its own logic is concurrent C: one
thread per MQTT connection, one per Lua environment, the threads of the MQTT
client library, and a main thread that starts everything and takes it down
again in two phases. Beside it, two plugins for the Mosquitto broker check
users against the same kind of data base.

The TLA+ here models that logic from the source, checks small instances with
TLC and proves, with TLAPS, every safety property that TLC checks of the code
as it is, for every value of the constants. Paths below are relative to the repository.

## 1. Inventory

| Component | State | Operations | Talks to |
|---|---|---|---|
| SPSC queue, `src/include/spscq.h` | ring of pointers; published and private head and tail | new, push, pop, free | MQTT callback (producer), signal thread (consumer) |
| MQTT signal path, `plugins/mqtt/plg_sysagent_mqtt.c`, `mqtt_umlua.c` | per connection a queue, a semaphore, a thread; manager with lock and table | `mqtt_on_rx`, `mqtt_proc_thread`, add/delete/look up connection, publish | queue, plugin manager (signals), Lua |
| MQTT binary upload, same file | table of announced uploads with size and time stamp; files on disk | announce, append a message, complete and rename, drop stale ones | MQTT callback, CMD_MQTT_BINARY_UPLOAD |
| Lua signals, `umlua.c`, `umlua_m.c`, `umplg_proc_signal` in `umink_plugin.c` | per signal a recursive mutex and a running flag; per thread a Lua state, a script cache, a stack of arguments | raise, run handler, nested raise, get arguments | every thread |
| Lua environments, `umlua.c` | environment table, one thread each, interval | start, run periodically, stop | signals, MQTT publish, data base, counters |
| Lua command line server, `umlua.c` | listening socket, detached client threads | accept, run a line | as environments |
| Plugin manager, `umink_plugin.c` | plugin array, command hooks, signal table | load, run command, register signal, terminate in phases | everything |
| Daemon life cycle, `umdaemon.c`, `sysagentd.c` | termination flag | start, SIGTERM, loop, shutdown | plugin manager, Lua |
| Counters, `umcounters.c` | counters with value, max, rate; a lock each and one for the table | new, inc, set, match, rate | Lua, signal handlers |
| Data base, `umdb.c` | SQLite handle | user look-up, key/value store | Lua, broker plugins |
| Mosquitto authentication, `plugins/mosquitto_auth` | failed logins and bans per user | authentication, ACL and message callbacks | broker, data base |
| OpenWrt, `plugins/openwrt` | ubus context, one thread | raise and list signals for ubus callers | signals, plugin manager |
| CoAP, `umrpc.c` | library handles | wrappers | libcoap |

Hard behaviour: lock-free publication with deliberately stale positions; a
semaphore whose timed-out waits pop without a token; a script called under a
lock that calls further scripts; a thread joined while a lock is held; memory
freed by one thread while another may still reach it; uploads in pieces with
short writes and a timeout that only the next message enforces; threads of
five kinds that start before everything is registered and are taken down in an
order of their own; a ban that is counted, imposed and lifted by the attempts
themselves.

What makes each part correct: the queue delivers each accepted item once and
in order and never refuses when it is empty; no message waits in a queue
without a wakeup and none is leaked; shutdown ends and frees nothing that is
in use (of this the code keeps a part, see below); a handler runs on one thread at a time, sees its own arguments,
releases what it took and is not re-entered; a file under its final name is
complete, and no upload is dropped early or kept for ever; every plugin and
signal is terminated once and main returns after SIGTERM; a command reaches its
plugin; bans rest on failures and hold; a stored value is read back.
`PROJECT.json`
lists the hazards line by line, with the properties that watch them.

## 2. Modules

| Module | Models | Role |
|---|---|---|
| `BoundedFifo` | what `spscq.h` promises | abstract specification: FIFO of capacity `Cap` that may refuse a push from `Guaranteed` items on and report "empty" with up to `Lag` items inside |
| `SpscQueue` | `spscq.h` | detailed: one action per group of shared accesses; implements `BoundedFifo` |
| `SpscQueueWeak` | `spscq.h` on ARM | item stores become visible late |
| `SpscQueueProofs` | | proofs for every ring size |
| `MqttSigProc` | MQTT receive path, publishing, shutdown | composes five threads around `BoundedFifo` |
| `MqttSigProcProofs` | | proofs for every capacity and message set |
| `LuaSignal` | signal handlers | any number of threads and nested handlers |
| `LuaSignalProofs` | | proofs for any threads, call graph and depth |
| `BinUpload` | binary uploads | receive thread, announcements, clock, disk |
| `BinUploadProofs` | | proofs for any uploads, sizes, chunk size and limit |
| `Counters` | `umcounters.c` and its Lua callers | table lock, counter locks, any number of threads |
| `CountersProofs` | | proofs for any threads, names and width of values |
| `PluginMngr` | `umink_plugin.c` | actions on the plugin array, hooks and signal table, used by `Lifecycle` |
| `LuaEnv` | environments and command line server of `umlua.c` | extends `PluginMngr` |
| `Lifecycle` | `sysagentd.c`, `umdaemon.c`, init and termination of the plugins | composes the two: main and all threads, from start to exit |
| `LifecycleProofs` | | proofs for any plugins, configurations and clients, and so for `PluginMngr` and `LuaEnv` |
| `AuthBan` | both Mosquitto plugins, user look-up of `umdb.c` | broker callbacks, clock, edits of the user table |
| `AuthBanProofs` | | proofs for any users, clients and ban configuration |
| `UmdbStore` | key/value store of `umdb.c` and its Lua callers | any number of threads, failures, restarts |
| `UmdbStoreProofs` | | proofs for any threads, tables, keys and values |
| `MC*` | | instances for TLC |

Definitions named "Fault: ..." are the plausible mistakes that the properties
are shown to catch; no specification uses them.

### SpscQueue

Variables are the fields of `spsc_queue_t` plus, for each side, a program
counter, its arguments and its last result. A push is `PushBegin` (the test
against the published tail), `PushStore`, and `PushPublish` when `flush_item`
is set or the new position is a watermark multiple; pops are symmetric. The
masks `& QUEUE_ITEMS_MASK` and `& QUEUE_WATERMARK_MASK` are `NextSlot` and
`Mark`. `SizeAssumption` is what `spscq_new` guarantees (a power of two, at
least 512 slots, watermark 256) weakened to whole blocks, more than one.
Positions are `uint64_t` indexes below QSIZE, so no overflow is possible.

The refinement maps the slots between the private tail and the private head to
the abstract queue. `Guaranteed` is `QSIZE - 2 - QUEUE_WATERMARK`: the
consumer may withhold a whole block, so with the smallest queue (512 slots) a
push can already be refused with 254 items inside, and only that many are
guaranteed.

`SpscQueue` lets stores become visible in program order, as x86 does and as
`volatile` plus `mb()` keep the compiler from changing. `SpscQueueWeak` puts
item stores into a buffer that drains in any order across slots.

### MqttSigProc

`queue`, `push_rc`, `pop_rc`, `popped` are the FIFO's. `mqtt_on_rx` always
flushes, so a push counts from its publication of head and a pop reports
"empty" only on an empty queue (`Lag` = 0).
`sig_sem` is the semaphore, `mngr_mtx` the manager lock, `terminating` the
daemon's flag. Threads: `Rx*` is the client library's callback; `Proc*` is
`mqtt_proc_thread`, with a handler that may publish; `Env*` is a Lua
environment that publishes; `Cli*` is a command line client that publishes,
detached, so that nobody waits for it and it may even look a connection up in a
manager that phase 1 has freed (any answer is then possible); `Main*` is `main`
from `umd_loop` to the end, with `mqtt_mngr_del_conn` in its steps. The ubus
thread publishes in the same way as an environment and is joined in phase 0; it
has no steps of its own here. Assumed of the MQTT library: one
callback at a time, none after `MQTTAsync_destroy`, which waits for one that
is running. A clock failure in `mqtt_proc_thread` exits the process and is
left out. `accepted` and `released` are history.

### LuaSignal

`stack[t]` holds the calls of `lua_sig_hndlr_run` in progress on thread t, each
at `enter` (authorization and preload), `lock` or `run`. The mutex is
`owner`/`count`, the flag `running`, the thread local level `Lref`, the Lua
table `mink_stdd`. Scripts are arbitrary: each run raises up to `MaxCalls` of
the signals in `CallGraph` and then ends, with or without an error. `BadScripts`
do not load; `conserve_mem` is chosen at the start. `ArgBorders` is what
`lua_rawlen` may return for `mink_stdd`.

### BinUpload

`bin_uploads`, `size`, `ts` are the descriptors, `tmp` and `final` the lengths of
`<uuid>.tmp` and `<uuid>` (-1: no such file). One message goes through
`Receive`, `Open`, `WriteChunk`..., `WriteDone`, `Close`, `Rename`, `Cleanup`;
announcements and the clock interleave between these steps. `write` may store
any part of a chunk, `open` and `rename` may fail. `Restart` ends the process at
any step, or after `Terminate`, and starts it with an empty table; `lost` is what
earlier processes had handed out. The unlocked look-up may miss an upload
(`ReceiveOther`). `unlink` is assumed to succeed; uuids do not repeat; the clock
does not go back.

### Counters

`counters` is the table: per counter the stored name, type and values. A call
begins (`CallById`, `CallAgain`, `CallMatch`), gets its counter under the table
lock (`umc_new_counter`, `umc_get`), and updates it in two steps: `Lock` takes
the counter's lock and computes the new value modulo 2^64, `Update` is
`update_value` and the unlocking. `umc_get_inc` and `umc_match` keep the table
locked across steps, so other calls wait in between. A name that does not fit
into the 256 bytes of `umc_t.id` is stored as `Trunc[id]` and looked up whole.
`delta` is kept as the unsigned number that `umc_get_rate` makes of it. Rows of
a match are copied without the counter's lock and may mix two updates; the
model has no rows. `sum` and `plain` are history.

### PluginMngr, LuaEnv, Lifecycle

`main` is where `main()` is; one action per call it makes, with `i` the plugin
at hand and `phase` the phase of termination. A plugin in the array is its
name; a hook is the array's allocation and an index, so that a hook made before
the array moved can be told from a good one (`umplg_run`). `terminated` is the
flag of that name, `termed` the phases each plugin and signal was called with.
`config` is the list of environments with what `process_cfg` looks at;
`umlua_init` turns it into environments (`Listed`) and signal owners
(`FirstWithEvent`). `th_env[e]` goes from `setup` over `test` and `run`, and back
while the interval is positive; the sleep is part of `test`. `mods[t]` is which
`M.*` sub modules the Lua state of thread t got when it was made. `sig_th` and
`ubus_th` are `on` while they wait or are inside a handler: `MqttSigProc` and
`LuaSignal` show what happens there, and here they only matter for what they may
still use (`InUse`) against what main has `freed`. Every thread that runs scripts
may use the MQTT connection, through `M.mqtt.publish`. The client library's own
thread is not among the threads here: it ends within the step that frees the
connection, and the order inside that step is in `MqttSigProc`. The loops of the
signal thread, the ubus thread and the command line server look at the flag
before they wait, so one more message, call or client may be served after
SIGTERM.

Left open to chance: which plugins load, whether sockets, the MQTT connection,
ubus and `pthread_create` of an environment succeed, when messages, clients and
SIGTERM come. `pthread_create` of the command line server, of its clients and of
the plugins' threads is not checked by the code and taken to succeed. A command
line client stays at `poll` while it runs lines. The map of command names and
the reading of arguments and configuration file have no state that changes
later.

### AuthBan

One action per callback: the broker calls its plugin from one thread.
`cb_basic_auth` (password) and `cb_basic_auth_jwt` (token) share what follows
once the user is known (`Checked`). `umusers` holds the counters under their
names; an entry that was never made is all zero, which is what a new one is.
`fails` is history: when wrong passwords were counted. A message passes
`cb_acl_check` and then `cb_pld_mod`, and the user table may be edited in between;
`pending.edits` is history and tells whether it was. The older plugin has no
callback for messages: `HandOn` is the broker handing on what the client sent, a
`mink_usr` of the client's own included. The three limits of the ban are
`uint32_t` and may be 0; a limit of 0 bans on the first failure, as 1 does
(`Needed`).
`mosquitto_auth_unpwd_check` is the older plugin, whose `uauth.auth` is read
before it is set: any outcome is possible. `Restart` forgets all bans, as
`mosquitto_plugin_cleanup` does.

### UmdbStore

`db[h][tbl]` are the rows of a table in one of the two data bases. A call of
`M.db_set` or `M.db_get` is two statements, each one step. `Numeric` is SQLite's
conversion of texts in columns of numeric affinity (external): it only has to be
idempotent and to make no other text the empty one. It stands in the model and in
`ReadsLastSet`, so that the conversion is described rather than tested; reals that
differ and print alike are separate keys in SQLite and one here. A statement is
taken to be atomic and, in the file, durable. `Error` is any of the
numbered error exits, all of which look the same to the script. `log` and
`restarted` are history: the sets that succeeded, and how many of them were
before the last restart, which a read in memory does not see.

## 3. Runs

| Run | Instance | Shows |
|---|---|---|
| `spscq` | 2 items, 6 slots, watermark 2 | ring invariants and `ImplementsFifo` |
| `spscq_weak` | same | **violated** `PopsPushedItem` |
| `mqtt` | 3 messages, capacity 2, 1 guaranteed | wakeups, order, ownership, no look-up during teardown, termination |
| `mqtt_shutdown` | same | **violated** `ShutdownCompletes` |
| `mqtt_free` | same | **violated** `NoUseAfterFree` |
| `lua` | 2 threads, 3 signals, depth 3, 2 calls per script, 1 outer call per thread | lock balance, arguments, recursion, return |
| `lua_recursion` | same | **violated** `NoRecursion` |
| `upload` | 2 uploads of 1 or 3 units, payloads 0 to 4, chunk 2, limit 1, clock to 3, crashes at any step | file and table invariants |
| `counters` | 2 threads, 1 short and 1 too long name, 2 counters, 2 bit values, arguments -1, 1, 2, 3 calls | no lost increment, one counter per name, return |
| `lifecycle` | 5 plugin files (one bad, one that asks for a taken command), 3 configurations, with and without conserve_memory, 1 client, array of 2 | order of freeing, single termination, hooks, sub modules, one-shot scripts, return of main |
| `auth` | 1 user, 2 clients, 2 passwords, 3 failures in 1 time unit ban for 1, clock to 6, 1 edit | bans, acceptance, headers |
| `store` | 2 threads, 3 keys (2 equal as numbers), 3 values (1 changed by conversion, 1 empty), 2 sets | reads against the history of writes |

Bounds. Three blocks are the smallest ring in which published tail, private
tail, published head and private head can lie in different blocks; the ring
goes round without bound. Three messages and capacity 2 give a full queue, a
refusal below capacity, and a message behind the one being handled. Depth 3
with two calls per script is the least in which a refused recursive call is
followed by another (which is the recursion finding), and two threads are
enough for every lock conflict; `CallGraph` has no cycle but the signal that
raises itself. Uploads of 1 and 3 units with chunk 2 meet the limit within,
at and past a chunk; the clock reaches the limit and passes it twice. With 2 bit
values and three calls a counter wraps upwards and, by a negative argument,
downwards; two counters are enough for a name created twice. In `lifecycle` the
array of plugins has to grow once (`ARRAY_MIN` is 8 in utarray and 2 here), and
the configurations hold a repeating environment, a second one of the same name,
a malformed entry, a script that does not load, and negative intervals with and
without auto_start. In `auth` the clock allows a window that restarts, a ban,
its end and a second ban; passwords and clients are symmetric. In `store` two
sets suffice for one to overwrite the other, on one key or on two that collide.

Deadlock checking is off where the system really stops: in `mqtt` after
shutdown (or in the deadlock that `mqtt_shutdown` reports), in `lua` when each
thread has made its outer calls or waits for a leaked mutex, in `counters` after the last call (`CallsReturn` says that no
thread is stuck in one), in `lifecycle` after exit (`ShutdownEnds` says that it
gets there), in `auth` when the clock is at its bound.

Fairness. `MqttSpec` assumes that each thread is scheduled when it can go on
(weak fairness for the callback already running, the signal thread, the
environment, and main): pthreads run to completion, `sem_timedwait` returns
after five seconds, handlers return. No message and no SIGTERM is promised, and
a command line client need not go on.
`LuaSignal` assumes that a thread inside a handler goes on and that scripts
end, `Counters` that a thread inside a call goes on. A waiting lock is not
granted fairly: weak fairness is enough because the models make finitely many
calls. `Lifecycle` assumes that main and each thread go on: scripts and handlers
end, polls and sleeps return after a second or the interval. Clients, messages,
errors and SIGTERM are promised nothing. `AuthBan` and `UmdbStore` state no
fairness and no liveness.

Some properties are conditional, on what others or the reading of the code
show: `ShutdownCompletesUnlessPublishing` on no handler caught between main's
lock and its own; `ReturnsUnlessLeaked` on no mutex leaked by a failed load (with
conserve_memory the exit at `umlua.c:693` does not unlock); `ShutdownEnds`, which
takes the handlers of `Lifecycle` to end, so that `mqtt_shutdown` stands beside
it, on every joined thread having been created; `OneShotEnds` on a script that
loads, or no conserve_memory; `HooksResolve` on an array that has not grown;
`SubModulesComplete` leaves out the MQTT connection's own thread;
`OnlyConnectionFreedInUse` excepts the MQTT connection, which the ubus thread may
use until phase 0 is through and environments until they are joined, although it
is freed (`mqtt_free` shows such a use), and leaves out the detached command line
clients; `NoLookupDuringTeardown` excepts a client that uses the manager after
phase 1 has freed it; `HeaderIsSenders` and `AcceptedRightly` speak of the newer
plugin only; `AttemptsBounded` of the failures since the last success, end of a
ban or start of the broker, where the counters begin at zero again.
`ReturnsUnlessLeaked` also depends on the acyclic `CallGraph`: with s1 raising
s2 and s2 raising s1, two threads lock the two handlers in opposite orders and
wait for each other.

### Findings

* `spscq_weak`: `mb()` is a compiler barrier; on the ARM targets that the same
  header mentions, a consumer can see the new head before the item. In the
  MQTT plugin the semaphore orders all pops but the one after a timeout.
* `mqtt_shutdown`: phase 0 joins the signal thread under the manager lock, and
  the handler on this thread may be waiting for this lock in
  `M.mqtt.publish`.
* `mqtt_free`: the queue and semaphore are freed before `MQTTAsync_destroy`;
  the connection is freed before the ubus thread and the environments are joined,
  and `mqtt_mngr_get_conn` hands out pointers that outlive its lock; command line
  clients are never joined.
* `lua_recursion`: a prevented recursion clears `running`, so that the next one
  is not prevented.

Results of reading and modelling that have no run of their own, and shape the
conditions of the properties above:

* With `conserve_memory`, a script that does not load leaves its handler's mutex
  locked (`umlua.c:690-694`): the next thread that raises the signal waits for
  ever.
* `max` of a gauge is the larger one of its last two values and not its "Maximum
  value" (`umcounters.c:114`, `umcounters.h:73`).
* With more than eight plugins the array may move and the hooks made before are
  left behind (`umink_plugin.c:90`).
* An environment with a negative interval and auto_start, or whose thread could
  not be created, is joined all the same (`umlua.c:1062`).
* With `interval` 0 and `conserve_memory` a script that does not load is retried
  without end and without a pause (`umlua.c:387-394`).
* A message that arrives before `plugins/mqtt` has registered its sub module
  leaves the connection's thread without `M.mqtt` (`plg_sysagent_mqtt.c:953-966`,
  `umlua.c:622`).
* Command line clients are detached and can use the data bases, the plugin
  manager, the environments, and the MQTT connection and its manager after main has
  freed them (`umlua.c:1289`).
* The command line server closes its socket twice when accept or getpeername
  fails (`umlua.c:1259`, `1301`).
* The first log-in attempt after a ban has run out is answered with success
  before the result of the password check is looked at
  (`plg_mosquitto_auth_v5.c:318-329`); `AcceptedRightly` names this exception. In
  the older plugin `uauth` is not initialised (`plg_mosquitto_auth.c:117`).
* Only the newer plugin replaces `mink_usr`; with the older one a client can send
  a header of its own.
* The columns of the key/value store are declared `STRING`, which gives them
  numeric affinity in SQLite (`umdb.c:44`): "007" is read back as "7", and keys
  "1" and "01" are one. An empty value is reported as missing (`umdb.c:307`).
* A statement that fails is not finalised (`umdb.c:239` and alike), which also
  keeps `sqlite3_close_v2` from closing the connection.

In `umcounters.c`, a counter name longer than 255 characters is never found again, so that
each `M.perf_inc` of it adds another counter (`OneCounterPerId` is stated for
the other names); and a negative increment of an incremental counter is ignored
unless the counter is 0, which it takes to 2^64 - n for good (`IncrementsAdd` is
stated for the others).

## 4. Proofs

`SpscQueueProofs` proves, from `SizeAssumption` and `ItemAssumption` alone, for
every ring size, watermark and set of items:

* `TypeCorrect`, `RingSound`, `LagBounded`, `SlotRaceFree`, `DrainedAccepts`:
  the invariants of run `spscq`;
* `RefinesFifo`: `Spec => Fifo!FifoSpec`.

The argument. `RingInv` is the inductive invariant (with `TypeOK`). Its first
part, `RingOrder`, is the cyclic order
`tail <= shadow_tail < head <= shadow_head < tail + QSIZE`, plus the two
tests of `push` and `pop` as long as the operation has not acted on them: the
other side can only move its published position away, so a test once passed
stays true. The order alone does not bound how old a published position is,
and without that bound neither `DrainedNotFull` nor the refinement holds: an
empty ring could refuse. `PublishesAtMarks` supplies it: between a published
and a private position there is no mark, other than the private position
itself with its publication still to come. As the ring is made of whole
blocks, any `QUEUE_WATERMARK` consecutive slots hold a mark (`MarkMultiple`,
`MarkStep`, `MarkAhead`, by division), which gives `LagBound`.
`UnreadAreItems` says that slots between the private positions hold pushed
items. `RingProducer` and `RingConsumer` do the step cases, one per action;
`StoreAppends` and `LoadTakesHead` show that a store is an enqueue and a load
a dequeue of `Contents`; `FullRefuses` and `EmptyReports` place the two
refusals inside `Guaranteed` and `Lag`; all other steps stutter.

`MqttSigProcProofs` proves, from `MqttAssumption` alone, for every capacity,
guaranteed capacity and set of messages:

* `MqttTypeCorrect`: `MqttTypeOK` with `HeldAndJoined`;
* `WakeupsSuffice`, `MessagesKept`: `EveryMessageHasWakeup` and
  `AcceptedOnceInOrder` of run `mqtt`;
* `TeardownHidesConnection`: `MqttSpec => NoLookupDuringTeardown`.

The argument. `MqttTypeOK` is not inductive: a pop puts the head of the queue
in hand, and a free appends what is in hand to the freed messages.
`HeldAndJoined` supplies what the threads hold while they hold it, that each
stage of main's teardown comes after the join it needs, and that the manager lock
is main's from the start of phase 0 until the connection is out of the table. The
last part is what `NoLookupDuringTeardown` rests on: a look-up gets the lock
either before phase 0 or when there is nothing left to find.
`EveryMessageHasWakeup` is inductive with the
types: a push is covered by the token about to be posted, a token taken by a
wait is covered by the thread on its way to the pop, and a pop that finds the
queue empty has nothing to cover. For `AcceptedOnceInOrder` the freed messages,
the one in hand and the queue are one sequence: a push extends it at the end
(`PushKeepsOrder`), a pop and a free only move the borders inside it
(`PopKeepsOrder`, `FreeKeepsOrder`).

`AuthBanProofs` proves, from `AuthAssumption` alone, for any users, passwords
and clients and every limit, time span and duration of a ban:

* `AuthTypeCorrect`, `AcceptsRightly`, `BansFollowPolicy`: `TypeOK`,
  `AcceptedRightly` and `BanPolicy` of run `auth`;
* `HeadersAreSenders`: `Spec => HeaderIsSenders`.

The limits may be 0 (`NeededIsLimit`).

The argument. An attempt to log in leaves a user's counter and history alone,
clears both, or counts one failure (`AttemptIsCountersStep`), so that each
invariant has three cases instead of one per callback. `HeaderIsSenders` needs
`StillAllowed`: as long as nobody edits the table, what the ACL check allowed is
allowed. `TypeOK` needs
`BelowLimit`: a counter at the limit belongs to a banned user, whose failures
are not counted. `BanPolicy` needs `HistoryInv`. Of a user who is not banned it
says that the counter counts the last `failed_nr` failures, from
`first_failed_ts` on (`CountsLast`), and that the current window starts more than
a span after any failure that lies `max_failed_nr` - 1 or more before its start
(`WindowApart`): the window before it held at most that many, and a window
restarts only when the span is over. A failure within the window then closes the
gap to the failure 2 * `max_failed_nr` - 2 before it through `WindowApart`, one
that restarts the window does so by itself (`FailureHistory`); at the limit
`CountsLast` names the failures that justify the ban.

`LuaSignalProofs` proves, from `LuaSignalAssumption` alone, for any threads,
signals, arguments, call graph and depth of nesting:

* `SignalTypeCorrect`, `LocksBalanced`, `OwnArguments`, `OnlyRecursionPrevented`:
  `TypeOK`, `LocksMatchCalls`, `ArgsOfInnermost` and `PreventsOnlyRecursion` of
  run `lua`.

The argument. `Levels` describes a thread's stack: a script that raised a signal
waits for it, so all calls but perhaps the top one run, `Lref` counts them, and
`mink_stdd` holds exactly their arguments. The border that `lua_rawlen` finds is
then `Lref`, which is `ArgsOfInnermost`; without the part on what is above
`Lref` a border could be a left-over of an earlier call. `OwnerRuns` says
that only the owner of a handler's mutex runs its script, and that a handler
which can leak its mutex never runs at all. `LockCounts` is `LocksMatchCalls` per
thread: the number of running calls (`Active`, a cardinality) goes up by one when
the top call starts (`StartStep`) and down when it ends (`FinishStep`), and no
step of one thread touches the calls of another. `running` is raised and cleared
under the mutex only, hence `PreventsOnlyRecursion`.

`BinUploadProofs` proves, from `BinAssumption` alone, for any uuids, sizes,
payloads, chunk size and time limit, with a crash at any step:

* `UploadTypeCorrect`, `SizeRespected`, `FinalComplete`, `NoOrphans`,
  `StaleDropped`: the invariants of run `upload`;
* `DroppedRightly`: `Spec => DroppedOnlyIfStaleOrDone`.

The argument. The limit in the chunk loop compares the running count `fsz` and
not the file's length, which a short write leaves behind; `Handling` says that
`fsz` is never less than the length while a message is written, nor more than
the announced size, and that the descriptor of a file about to be renamed is
gone. `RoomLeft` says that an upload which waits in the table is not complete:
otherwise its rename would be missed for ever. `Fresh` keeps earlier files from
appearing under a new uuid.

`CountersProofs` proves, from `CountersAssumption` (threads and counters are
finitely many), for any number of threads, any names and any width:

* `CountersTypeCorrect`, `NoIncrementLost`, `NamesUnique`: the invariants of run
  `counters`.

The argument. `InHand`: a thread that is about to store a value holds the
counter's lock, and the value is still what it would compute now, since only the
owner of the lock changes a counter. An increment that is stored therefore adds to
the latest value. `OneCounterPerId` follows from the table lock around look-up
and creation. `RoomForAll` is about the bound on counters: each call that may
create one reserves it, so that the choice of a fresh one is never empty. It
compares two cardinalities, and finiteness is what it needs.

`LifecycleProofs` proves, from `PluginAssumption`, `EnvAssumption`,
`OwnersAssumption` and `LifecycleAssumption`, for any plugins, commands,
configurations and clients:

* `LifecycleTypeCorrect`, `NothingElseFreedInUse`, `EachTerminatedOnce`,
  `CommandsReachPlugins`, `StatesHaveModules`: `TypeOK`, `OnlyConnectionFreedInUse`,
  `TerminatedOnce`, `HooksResolve` and `SubModulesComplete` of run `lifecycle`.

The assumptions say that the load order is that of a directory: each plugin
once, and `alphasort` (`sysagentd.c:144`) puts plugins/mqtt before
plugins/openwrt. Both are needed: a plugin loaded twice would be terminated
twice, and the ubus thread of an earlier plugins/openwrt could make a Lua state
before `M.mqtt` is registered.

The argument. `Threads` ties each thread to what main will wait for: the signal
thread to plugins/mqtt in the array, the ubus context to plugins/openwrt and to a
thread, an environment's thread to an entry that is joined. `Stopped` goes through
main's places: behind the plugin it has terminated in phase 0 the thread has
ended, from `join_envs` on the server has, from `free_envs` on the environments
have, and what is freed is nothing before phase 0 and at most the connection
before the joins. That is `OnlyConnectionFreedInUse`: whatever else is freed is
freed when no thread is left. A thread that has ended does not come back, so whatever runs
in between keeps it. `Phases` gives for each place the phases every plugin and
signal has gone through, by its position in the array; `Array`, that no plugin is
in it twice, is why a position stands for one plugin. `Hooks` says that an array
that did not grow did not move. `Modules` follows the registration of the sub
module from `umlua_init` on and needs `Settled`: once a state was made by a thread
other than plugins/mqtt's, that plugin is registered or will never be loaded.

`UmdbStoreProofs` proves, from `StoreAssumption` alone, for any threads, tables,
keys, values and conversion:

* `StoreTypeCorrect`: `TypeOK` of run `store`;
* `GetReturnsLastSet`: `Spec => ReadsLastSet`.

The argument. `Rows` says of each key in each table that it has a row just if
the history has a set that a read can mean, and that the row is the converted
value of the last one. A set appends to the history and changes the row of
every key that looks like the same number (`StoredRows`, `SetStep`); creating a
table that is missing cannot lose a row, because such a table has no sets
(`InitStep`); a restart takes rows in memory and their sets away together
(`RestartStep`).

With these, every invariant and every action property of the passing runs, and
the refinement of the FIFO, is a theorem. The bounds of the models (`MaxTime`,
`MaxDepth`, `MaxSets` and so on) are constants of the theorems like the others.

Only model-checked: the liveness properties `ShutdownCompletesUnlessPublishing`,
`AcceptedIsReleased`, `ReturnsUnlessLeaked`, `CallsReturn`, `OneShotEnds` and
`ShutdownEnds`, as they rest on fairness, which is out of the prover's reach.
The violations of the other four runs are counterexamples and have no theorem.

## 5. Not modelled

Configuration parsing, logging, the copying of string tables
(`umplg_stdd_*`), subscribing and reconnecting to a broker, blob messages of
ubus, `M.cmd_call`'s tables (the dispatch of a command is `umplg_run`), the
bundled uthash and utarray except for the growth of an array, the CoAP wrapper
(library calls without own state). Signatures of tokens and JSON are their
outcome. Data races inside uthash (the unlocked look-up at
`plg_sysagent_mqtt.c:323` when it does more than miss, the signal table) are
listed as hazards.

## 6. Plan

1. A second refinement of the ring, with every push flushing, that yields the
   `Lag` = 0 contract `MqttSigProc` uses.
2. More action properties of shutdown (what main may never free twice, a thread
   that is never started again), stated, checked and proved from the invariant of
   `LifecycleProofs`.
