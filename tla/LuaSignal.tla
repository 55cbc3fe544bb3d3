------------------------------ MODULE LuaSignal ------------------------------
(***************************************************************************)
(* Lua signals: umplg_proc_signal (utils/umink_plugin.c), the Lua handler  *)
(* lua_sig_hndlr_run (services/sysagent/umlua.c) and M.signal / get_args   *)
(* (umlua_m.c).                                                            *)
(*                                                                         *)
(* Any thread (an MQTT signal thread, a Lua environment, a command line    *)
(* client, ubus) may raise a signal; the handler is a Lua script that may  *)
(* raise further signals on the same thread.  Each handler has a recursive *)
(* mutex, held while its script runs, and a flag "running" meant to stop a *)
(* handler from raising its own signal.  What a script does is left open:  *)
(* it raises up to MaxCalls of the signals CallGraph allows, then returns  *)
(* or fails (lua_pcall makes both look the same).                          *)
(***************************************************************************)
EXTENDS Integers, Sequences, FiniteSets

CONSTANTS Threads, Signals,
          NoThread,     \* owner of a free mutex
          Args,         \* input data of a signal
          NoArg,        \* nil in mink_stdd
          CallGraph,    \* CallGraph[s]: the signals the script of s raises
          BadScripts,   \* signals whose script luaL_loadfile rejects
          MinAuth,      \* MinAuth[s]: min_auth_lvl of the handler
          Flags,        \* user flags a caller may have
          MaxCalls,     \* bound: signals raised by one run of a script
          MaxDepth,     \* bound: nesting of handlers
          MaxRaised     \* bound: signals a thread raises from outside

ASSUME LuaSignalAssumption ==
  /\ NoThread \notin Threads /\ NoArg \notin Args
  /\ CallGraph \in [Signals -> SUBSET Signals]
  /\ MinAuth \in [Signals -> Nat] /\ Flags \subseteq Nat
  /\ BadScripts \subseteq Signals
  /\ MaxCalls \in Nat /\ MaxDepth \in Nat \ {0} /\ MaxRaised \in Nat

VARIABLES
  conserve_mem,  \* configuration: re-read scripts on each run
  sig_cache,     \* sig_cache[t]: scripts in the thread's mink_sig_cache
  owner, count,  \* shd->mtx of each signal, a recursive mutex
  running,       \* shd->running of each signal
  stack,         \* stack[t]: handler calls in progress, outermost first
  Lref,          \* Lref[t]: thread local level of mink_stdd
  mink_stdd,     \* mink_stdd[t]: arguments by level
  raised         \* signals raised from outside by each thread so far

vars == <<conserve_mem, sig_cache, owner, count, running, stack, Lref, mink_stdd, raised>>

Frame == [sig : Signals, arg : Args, flags : Flags,
          pc : {"enter", "lock", "run"}, left : 0..MaxCalls]

Call(s, a, f) == [sig |-> s, arg |-> a, flags |-> f, pc |-> "enter", left |-> MaxCalls]

Top(t) == stack[t][Len(stack[t])]
Pop(t) == SubSeq(stack[t], 1, Len(stack[t]) - 1)
At(t, pc) == stack[t] # <<>> /\ Top(t).pc = pc
GoTo(t, pc) == stack' = [stack EXCEPT ![t][Len(stack[t])].pc = pc]
Return(t) == stack' = [stack EXCEPT ![t] = Pop(t)]

Free(s) == owner[s] = NoThread

Init ==
  /\ conserve_mem \in BOOLEAN
  /\ sig_cache = [t \in Threads |-> {}]
  /\ owner = [s \in Signals |-> NoThread] /\ count = [s \in Signals |-> 0]
  /\ running = [s \in Signals |-> FALSE]
  /\ stack = [t \in Threads |-> <<>>]
  /\ Lref = [t \in Threads |-> 0]
  /\ mink_stdd = [t \in Threads |-> [k \in 1..MaxDepth |-> NoArg]]
  /\ raised = [t \in Threads |-> 0]

-----------------------------------------------------------------------------

\* A thread outside of any handler raises a signal.
Raise(t, s, a, f) ==
  /\ stack[t] = <<>> /\ raised[t] < MaxRaised
  /\ stack' = [stack EXCEPT ![t] = <<Call(s, a, f)>>]
  /\ raised' = [raised EXCEPT ![t] = @ + 1]
  /\ UNCHANGED <<conserve_mem, sig_cache, owner, count, running, Lref, mink_stdd>>

\* umplg_proc_signal: flags below min_auth_lvl, UMPLG_RES_AUTH_ERROR
AuthError(t) ==
  /\ At(t, "enter")
  /\ Top(t).flags < MinAuth[Top(t).sig]
  /\ Return(t)
  /\ UNCHANGED <<conserve_mem, sig_cache, owner, count, running, Lref, mink_stdd, raised>>

Authorized(t) == At(t, "enter") /\ Top(t).flags >= MinAuth[Top(t).sig]

\* The script is precompiled into the thread's cache unless it is there, or
\* conserve_mem leaves loading to a later point.
Preload(t) ==
  /\ Authorized(t)
  /\ conserve_mem \/ Top(t).sig \in sig_cache[t] \/ Top(t).sig \notin BadScripts
  /\ sig_cache' = IF conserve_mem THEN sig_cache
                  ELSE [sig_cache EXCEPT ![t] = @ \cup {Top(t).sig}]
  /\ GoTo(t, "lock")
  /\ UNCHANGED <<conserve_mem, owner, count, running, Lref, mink_stdd, raised>>

\* Preloading fails before the lock is taken: UMPLG_RES_SIG_SETUP_FAILED
PreloadError(t) ==
  /\ Authorized(t)
  /\ ~conserve_mem /\ Top(t).sig \notin sig_cache[t] /\ Top(t).sig \in BadScripts
  /\ Return(t)
  /\ UNCHANGED <<conserve_mem, sig_cache, owner, count, running, Lref, mink_stdd, raised>>

\* pthread_mutex_lock(&shd->mtx) does not block: the mutex is recursive
CanLock(t) == At(t, "lock") /\ owner[Top(t).sig] \in {NoThread, t}

\* the mutex is locked once more
Acquire(t, s) ==
  /\ owner' = [owner EXCEPT ![s] = t]
  /\ count' = [count EXCEPT ![s] = @ + 1]

\* Fault: running is left as it is.
RunningKept(s) == UNCHANGED running

\* shd->running = false
RunningCleared(s) == running' = [running EXCEPT ![s] = FALSE]

\* The handler is marked running: the flag is cleared, "signal recursion
\* prevented" is the output, the mutex is left as it was.
Prevent(t) ==
  LET s == Top(t).sig IN
  /\ CanLock(t) /\ running[s]
  /\ RunningCleared(s)
  /\ Return(t)
  /\ UNCHANGED <<conserve_mem, sig_cache, owner, count, Lref, mink_stdd, raised>>

\* Loading fails under the lock, with conserve_mem: the error is returned and
\* the mutex stays locked.
LoadError(t) ==
  LET s == Top(t).sig IN
  /\ CanLock(t) /\ ~running[s]
  /\ conserve_mem /\ s \in BadScripts
  /\ Acquire(t, s)
  /\ Return(t)
  /\ UNCHANGED <<conserve_mem, sig_cache, running, Lref, mink_stdd, raised>>

\* Fault: all arguments go to the first level.
ArgLevelOne(t) == 1

\* ++Lref: the level at which the arguments of the next script go
ArgLevel(t) == Lref[t] + 1

\* The script starts, with its arguments one level up in mink_stdd.
Start(t) ==
  LET s == Top(t).sig IN
  /\ CanLock(t) /\ ~running[s]
  /\ ~(conserve_mem /\ s \in BadScripts)
  /\ Acquire(t, s)
  /\ Lref' = [Lref EXCEPT ![t] = @ + 1]
  /\ mink_stdd' = [mink_stdd EXCEPT ![t][ArgLevel(t)] = Top(t).arg]
  /\ running' = [running EXCEPT ![s] = TRUE]
  /\ GoTo(t, "run")
  /\ UNCHANGED <<conserve_mem, sig_cache, raised>>

\* The script calls M.signal: a handler call on top of this one.
Signal(t, s, a, f) ==
  /\ At(t, "run") /\ Top(t).left > 0 /\ Len(stack[t]) < MaxDepth
  /\ s \in CallGraph[Top(t).sig]
  /\ stack' = [stack EXCEPT ![t] =
                 Append(Pop(t) \o <<[Top(t) EXCEPT !.left = @ - 1]>>, Call(s, a, f))]
  /\ UNCHANGED <<conserve_mem, sig_cache, owner, count, running, Lref, mink_stdd, raised>>

\* Fault: the mutex is not unlocked.
ReleaseForgotten(s) == UNCHANGED <<owner, count>>

\* pthread_mutex_unlock(&shd->mtx)
Release(s) ==
  /\ owner' = [owner EXCEPT ![s] = IF count[s] = 1 THEN NoThread ELSE @]
  /\ count' = [count EXCEPT ![s] = @ - 1]

\* Fault: --Lref is missing.
LrefKept(t) == UNCHANGED Lref

\* --Lref
LrefDown(t) == Lref' = [Lref EXCEPT ![t] = @ - 1]

\* The script is done: its arguments are removed, running is cleared and the
\* mutex unlocked, whatever the script returned.
Finish(t) ==
  LET s == Top(t).sig IN
  /\ At(t, "run")
  /\ mink_stdd' = [mink_stdd EXCEPT ![t][Lref[t]] = NoArg]
  /\ LrefDown(t)
  /\ RunningCleared(s)
  /\ Release(s)
  /\ Return(t)
  /\ UNCHANGED <<conserve_mem, sig_cache, raised>>

\* mink_lua_get_args takes the arguments at level lua_rawlen(mink_stdd): Lua
\* promises a border, a level that is filled (or 0) with the next one nil.
ArgBorders(t) ==
  {k \in 0..MaxDepth :
     /\ k > 0 => mink_stdd[t][k] # NoArg
     /\ k < MaxDepth => mink_stdd[t][k + 1] = NoArg}

\* What a thread does inside a call of lua_sig_hndlr_run.
Step(t) ==
  \/ AuthError(t) \/ Preload(t) \/ PreloadError(t)
  \/ Prevent(t) \/ LoadError(t) \/ Start(t)
  \/ \E s \in Signals, a \in Args, f \in Flags : Signal(t, s, a, f)
  \/ Finish(t)

Next ==
  \E t \in Threads :
    \/ \E s \in Signals, a \in Args, f \in Flags : Raise(t, s, a, f)
    \/ Step(t)

\* Every thread inside a handler is scheduled, and scripts terminate.
Spec == Init /\ [][Next]_vars /\ \A t \in Threads : WF_vars(Step(t))

-----------------------------------------------------------------------------

\* The levels of thread t at which the script of s is running, and how many.
Runs(t, s) == {k \in DOMAIN stack[t] : stack[t][k].pc = "run" /\ stack[t][k].sig = s}
Active(t, s) == Cardinality(Runs(t, s))

TypeOK ==
  /\ conserve_mem \in BOOLEAN
  /\ sig_cache \in [Threads -> SUBSET (Signals \ BadScripts)]
  /\ owner \in [Signals -> Threads \cup {NoThread}] /\ count \in [Signals -> Nat]
  /\ running \in [Signals -> BOOLEAN]
  /\ stack \in [Threads -> Seq(Frame)] /\ \A t \in Threads : Len(stack[t]) <= MaxDepth
  /\ Lref \in [Threads -> 0..MaxDepth]
  /\ mink_stdd \in [Threads -> [1..MaxDepth -> Args \cup {NoArg}]]
  /\ raised \in [Threads -> 0..MaxRaised]

\* A signal whose handler may return with its mutex locked (LoadError).
Leaked(s) == conserve_mem /\ s \in BadScripts

\* A handler's mutex is locked exactly as often as its script is active: a
\* thread that has returned from all its handlers holds no mutex.
LocksMatchCalls ==
  \A s \in Signals : ~Leaked(s) =>
    IF owner[s] = NoThread THEN count[s] = 0
    ELSE count[s] = Active(owner[s], s) /\ count[s] > 0

\* M.get_args reads the arguments its own script was raised with, also when
\* handlers call each other and when a call in between was refused, and finds
\* nothing outside of a handler.
ArgsOfInnermost ==
  \A t \in Threads :
    /\ At(t, "run") => \A k \in ArgBorders(t) : k > 0 /\ mink_stdd[t][k] = Top(t).arg
    /\ stack[t] = <<>> => ArgBorders(t) = {0}

\* Only a thread that is inside the handler itself is ever told "signal
\* recursion prevented": the flag never outlives the run that set it, and
\* never turns away another thread's call.
PreventsOnlyRecursion ==
  \A s \in Signals : running[s] => ~Free(s) /\ Active(owner[s], s) > 0

\* A handler is not entered again by a signal its own script raises.
NoRecursion == \A t \in Threads, s \in Signals : Active(t, s) <= 1

\* Every signal call returns to its caller ...
EveryCallReturns == \A t \in Threads : stack[t] # <<>> ~> stack[t] = <<>>

\* ... when no handler has returned with its mutex locked and scripts raise
\* each other's signals in one order only.
ReturnsUnlessLeaked ==
  [](\A s \in Signals : Leaked(s) => Free(s)) => EveryCallReturns
=============================================================================
