------------------------------ MODULE Counters ------------------------------
(***************************************************************************)
(* Performance counters (umcounters.c) and their users: M.perf_inc,        *)
(* M.perf_set and M.perf_match of the scripts (umlua_m.c) and the run      *)
(* counters of the Lua environments (umlua.c), on any number of threads.   *)
(*                                                                         *)
(* A context has one lock for its table; each counter has a lock for its   *)
(* values.  Table accesses are critical sections and one action each,      *)
(* except where the code keeps the table locked over other steps (a match, *)
(* umc_get_inc).  An update is two steps: what umc_inc reads under the     *)
(* counter's lock, and update_value.  perf_match_cb copies the values of a *)
(* counter without its lock; the copies are not modelled.                  *)
(***************************************************************************)
EXTENDS Integers, FiniteSets

CONSTANTS
  Threads,     \* threads that run Lua scripts
  Ids,         \* counter names
  Trunc,       \* Trunc[id] is what fits into umc_t.id of a name
  Objs,        \* counters that can be allocated (bound)
  Mod,         \* 2^64, the values of uint64_t (scaled down for TLC)
  Ints,        \* the int arguments of the scripts, negative ones too
  MaxTime,     \* bound of the monotonic clock
  MaxCalls,    \* bound of the calls made
  NoThread, NoObj, NoId

ASSUME CountersAssumption ==
  /\ Mod \in Nat \ {0} /\ MaxTime \in Nat \ {0} /\ MaxCalls \in Nat
  /\ Ints \subseteq Int
  /\ DOMAIN Trunc = Ids
  /\ NoThread \notin Threads /\ NoObj \notin Objs /\ NoId \notin Ids
  /\ IsFiniteSet(Threads) /\ IsFiniteSet(Objs)

VARIABLES
  counters,    \* umc_ctx_t.counters: id, type and values of each counter
  ctx_mtx,     \* umc_ctx_t.mtx
  c_mtx,       \* umc_t.mtx of each counter
  clock,       \* CLOCK_MONOTONIC_RAW
  pc, id, c, inc, n, val,  \* of each thread: where it is, the name it asks for, its
                           \* counter, whether it increments it, its argument, and
                           \* the val of update_value
  todo, lst,   \* of each thread: what umc_match has still to visit, and has
  calls,       \* calls made
  sum, plain   \* history: increments applied, whether nothing else was

matchVars == <<todo, lst>>
historyVars == <<sum, plain>>
vars == <<counters, ctx_mtx, c_mtx, clock, pc, id, c, inc, n, val, calls, matchVars, historyVars>>

Table == DOMAIN counters
Types == {"UMCT_INCREMENTAL", "UMCT_GAUGE"}

\* HASH_FIND_STR: the stored name is compared with the whole name asked for.
Found(name) == {o \in Table : counters[o].id = name}

\* The table with a new counter o in it: zeroed, with as much of its name as
\* the buffer takes.
WithNew(o, name, incr) ==
  [x \in Table \cup {o} |->
     IF x # o THEN counters[x]
     ELSE [id |-> Trunc[name], type |-> IF incr THEN "UMCT_INCREMENTAL" ELSE "UMCT_GAUGE",
           value |-> 0, max |-> 0, ts_nsec |-> 0, ts_diff |-> 0, delta |-> 0]]

Init ==
  /\ counters = [o \in {} |-> 0]
  /\ ctx_mtx = NoThread /\ c_mtx = [o \in Objs |-> NoThread]
  /\ clock = 1
  /\ pc = [t \in Threads |-> "idle"] /\ c = [t \in Threads |-> NoObj]
  /\ id = [t \in Threads |-> NoId]
  /\ inc = [t \in Threads |-> FALSE]
  /\ n = [t \in Threads |-> 0] /\ val = [t \in Threads |-> 0]
  /\ calls = 0
  /\ todo = [t \in Threads |-> {}] /\ lst = [t \in Threads |-> {}]
  /\ sum = [o \in Objs |-> 0] /\ plain = [o \in Objs |-> TRUE]

-----------------------------------------------------------------------------
(* Calls of the users.                                                     *)

\* Thread t makes a call that continues at step.
Call(t, step) ==
  /\ pc[t] = "idle" /\ calls < MaxCalls
  /\ calls' = calls + 1
  /\ pc' = [pc EXCEPT ![t] = step]

\* The bound of the model: a counter is left for each call that may create one.
Room(name) ==
  Found(name) = {} => Cardinality({u \in Threads : pc[u] = "new"}) < Cardinality(Objs \ Table)

\* M.perf_inc, M.perf_set, umc_get_inc and umc_get_set, up to the table lock.
CallById(t, step, name, incr, i) ==
  /\ Call(t, step) /\ (step = "new" => Room(name))
  /\ id' = [id EXCEPT ![t] = name] /\ inc' = [inc EXCEPT ![t] = incr] /\ n' = [n EXCEPT ![t] = i]
  /\ UNCHANGED <<counters, ctx_mtx, c_mtx, clock, c, val, matchVars, historyVars>>

\* An environment or a handler uses a counter that it got in init_counters.
CallAgain(t, i) ==
  /\ c[t] # NoObj /\ Call(t, "lock")
  /\ n' = [n EXCEPT ![t] = i]
  /\ UNCHANGED <<counters, ctx_mtx, c_mtx, clock, id, c, inc, val, matchVars, historyVars>>

\* M.perf_match, up to the table lock.
CallMatch(t) ==
  /\ Call(t, "begin")
  /\ UNCHANGED <<counters, ctx_mtx, c_mtx, clock, id, c, inc, n, val, matchVars, historyVars>>

\* t has its counter o, and no more use for the name.
Obtained(t, o) ==
  /\ pc' = [pc EXCEPT ![t] = "lock"] /\ c' = [c EXCEPT ![t] = o]
  /\ id' = [id EXCEPT ![t] = NoId]

\* Fault: umc_new_counter without the check for duplicates.
NewNoCheck(t) ==
  /\ pc[t] = "new" /\ ctx_mtx = NoThread /\ Objs \ Table # {}
  /\ LET o == CHOOSE x \in Objs \ Table : TRUE
     IN  Obtained(t, o) /\ counters' = WithNew(o, id[t], inc[t])
  /\ UNCHANGED <<ctx_mtx, c_mtx, clock, inc, n, val, calls, matchVars, historyVars>>

\* umc_new_counter: the counter found, or a new one of the type that the caller
\* wants; the caller then uses it, whatever its type.
umc_new_counter(t) ==
  /\ pc[t] = "new" /\ ctx_mtx = NoThread
  /\ \/ \E o \in Found(id[t]) : Obtained(t, o) /\ UNCHANGED counters
     \/ /\ Found(id[t]) = {}
        /\ LET o == CHOOSE x \in Objs \ Table : TRUE
           IN  Obtained(t, o) /\ counters' = WithNew(o, id[t], inc[t])
  /\ UNCHANGED <<ctx_mtx, c_mtx, clock, inc, n, val, calls, matchVars, historyVars>>

\* Fault: an unknown name returns early, with the table locked.
GetKeepsLock(t) ==
  /\ pc[t] = "get" /\ ctx_mtx = NoThread
  /\ ctx_mtx' = t
  /\ \/ \E o \in Found(id[t]) : Obtained(t, o)
     \/ /\ Found(id[t]) = {} /\ UNCHANGED c
        /\ pc' = [pc EXCEPT ![t] = "idle"] /\ id' = [id EXCEPT ![t] = NoId]
  /\ UNCHANGED <<counters, c_mtx, clock, inc, n, val, calls, matchVars, historyVars>>

\* umc_get_inc and umc_get_set keep the table locked during the update; for an
\* unknown name they only lock and unlock it.
umc_get(t) ==
  /\ pc[t] = "get" /\ ctx_mtx = NoThread
  /\ \/ \E o \in Found(id[t]) : Obtained(t, o) /\ ctx_mtx' = t
     \/ /\ Found(id[t]) = {} /\ UNCHANGED <<ctx_mtx, c>>
        /\ pc' = [pc EXCEPT ![t] = "idle"] /\ id' = [id EXCEPT ![t] = NoId]
  /\ UNCHANGED <<counters, c_mtx, clock, inc, n, val, calls, matchVars, historyVars>>

-----------------------------------------------------------------------------
(* umc_inc and umc_set.                                                    *)

\* Fault: umc_inc computes the new value without waiting for the lock.
LockNoWait(t) ==
  /\ pc[t] = "lock"
  /\ c_mtx' = [c_mtx EXCEPT ![c[t]] = t]
  /\ val' = [val EXCEPT ![t] = (IF inc[t] THEN counters[c[t]].value + n[t] ELSE n[t]) % Mod]
  /\ pc' = [pc EXCEPT ![t] = "update"]
  /\ UNCHANGED <<counters, ctx_mtx, clock, id, c, inc, n, calls, matchVars, historyVars>>

\* Fault: the value is not reduced to the width of uint64_t.
LockNoWrap(t) ==
  /\ pc[t] = "lock" /\ c_mtx[c[t]] = NoThread
  /\ c_mtx' = [c_mtx EXCEPT ![c[t]] = t]
  /\ val' = [val EXCEPT ![t] = IF inc[t] THEN counters[c[t]].value + n[t] ELSE n[t]]
  /\ pc' = [pc EXCEPT ![t] = "update"]
  /\ UNCHANGED <<counters, ctx_mtx, clock, id, c, inc, n, calls, matchVars, historyVars>>

\* The counter's lock is taken and the new value computed, an int converted
\* to uint64_t and added modulo 2^64.
Lock(t) ==
  /\ pc[t] = "lock" /\ c_mtx[c[t]] = NoThread
  /\ c_mtx' = [c_mtx EXCEPT ![c[t]] = t]
  /\ val' = [val EXCEPT ![t] = (IF inc[t] THEN counters[c[t]].value + n[t] ELSE n[t]) % Mod]
  /\ pc' = [pc EXCEPT ![t] = "update"]
  /\ UNCHANGED <<counters, ctx_mtx, clock, id, c, inc, n, calls, matchVars, historyVars>>

\* update_value on record r at time now: a value that is not higher is for
\* gauges only, a rate for incremental counters only.
update_value(r, v, now) ==
  LET pv == r.value
      stored == [r EXCEPT !.value = v, !.max = IF v > pv THEN v ELSE pv]
  IN  IF v <= pv /\ r.type # "UMCT_GAUGE" THEN r
      ELSE IF r.type # "UMCT_INCREMENTAL" THEN stored
      ELSE [stored EXCEPT !.ts_diff = now - r.ts_nsec, !.delta = v - pv, !.ts_nsec = now]

\* The update and the unlocking of the counter and, in umc_get_inc, of the table.
Update(t) ==
  LET o == c[t] IN
  /\ pc[t] = "update"
  /\ \E now \in clock..MaxTime :
       /\ clock' = now
       /\ counters' = [counters EXCEPT ![o] = update_value(@, val[t], now)]
  /\ c_mtx' = [c_mtx EXCEPT ![o] = NoThread]
  /\ ctx_mtx' = IF ctx_mtx = t THEN NoThread ELSE ctx_mtx
  /\ pc' = [pc EXCEPT ![t] = "idle"]
  /\ plain' = [plain EXCEPT ![o] = @ /\ inc[t] /\ n[t] >= 0]
  /\ sum' = [sum EXCEPT ![o] = IF plain'[o] THEN @ + n[t] ELSE 0]
  /\ n' = [n EXCEPT ![t] = 0] /\ val' = [val EXCEPT ![t] = 0]
  /\ UNCHANGED <<id, c, inc, calls, matchVars>>

-----------------------------------------------------------------------------
(* M.perf_match: umc_match under the table lock, counter by counter.       *)

MatchBegin(t) ==
  /\ pc[t] = "begin" /\ ctx_mtx = NoThread
  /\ ctx_mtx' = t
  /\ pc' = [pc EXCEPT ![t] = "match"]
  /\ todo' = [todo EXCEPT ![t] = Table] /\ lst' = [lst EXCEPT ![t] = {}]
  /\ UNCHANGED <<counters, c_mtx, clock, id, c, inc, n, val, calls, historyVars>>

\* perf_match_cb copies the next counter, without its lock.
MatchCopy(t) ==
  /\ pc[t] = "match"
  /\ \E o \in todo[t] :
       /\ todo' = [todo EXCEPT ![t] = @ \ {o}]
       /\ lst' = [lst EXCEPT ![t] = @ \cup {o}]
  /\ UNCHANGED <<counters, ctx_mtx, c_mtx, clock, pc, id, c, inc, n, val, calls, historyVars>>

\* The rows are handed to the script, and dropped.
MatchEnd(t) ==
  /\ pc[t] = "match" /\ todo[t] = {}
  /\ ctx_mtx' = NoThread
  /\ pc' = [pc EXCEPT ![t] = "idle"]
  /\ lst' = [lst EXCEPT ![t] = {}]
  /\ UNCHANGED <<counters, c_mtx, clock, id, c, inc, n, val, calls, todo, historyVars>>

Step(t) ==
  \/ umc_new_counter(t) \/ umc_get(t) \/ Lock(t) \/ Update(t)
  \/ MatchBegin(t) \/ MatchCopy(t) \/ MatchEnd(t)

Next ==
  \E t \in Threads :
    \/ \E step \in {"new", "get"}, name \in Ids, incr \in BOOLEAN, i \in Ints :
         CallById(t, step, name, incr, i)
    \/ \E i \in Ints : CallAgain(t, i)
    \/ CallMatch(t)
    \/ Step(t)

\* A thread inside a call goes on.
Spec == Init /\ [][Next]_vars /\ \A t \in Threads : WF_vars(Step(t))

-----------------------------------------------------------------------------
(* Properties.                                                             *)

TypeOK ==
  /\ Table \subseteq Objs
  /\ \A o \in Table :
       counters[o] \in [id : {Trunc[x] : x \in Ids}, type : Types,
                        value : 0..(Mod - 1), max : 0..(Mod - 1), delta : 0..(Mod - 1),
                        ts_nsec : 0..MaxTime, ts_diff : 0..MaxTime]
  /\ ctx_mtx \in Threads \cup {NoThread} /\ c_mtx \in [Objs -> Threads \cup {NoThread}]
  /\ clock \in 1..MaxTime
  /\ pc \in [Threads -> {"idle", "new", "get", "lock", "update", "begin", "match"}]
  /\ id \in [Threads -> Ids \cup {NoId}] /\ c \in [Threads -> Table \cup {NoObj}]
  /\ inc \in [Threads -> BOOLEAN] /\ n \in [Threads -> Int] /\ val \in [Threads -> 0..(Mod - 1)]
  /\ calls \in 0..MaxCalls
  /\ todo \in [Threads -> SUBSET Objs] /\ lst \in [Threads -> SUBSET Objs]
  /\ sum \in [Objs -> Int] /\ plain \in [Objs -> BOOLEAN]

\* No increment is lost: as long as a counter was only incremented, and by no
\* negative amount, it shows the sum of all increments of all threads, until
\* this sum leaves uint64_t.
IncrementsAdd ==
  \A o \in Table : plain[o] /\ sum[o] < Mod => counters[o].value = sum[o]

\* Two threads that ask for one name at the same time do not create it twice,
\* provided that no longer name has it as its truncated form.
OneCounterPerId ==
  \A o, p \in Table :
    counters[o].id = counters[p].id /\ (\A x \in Ids : Trunc[x] = counters[o].id => Trunc[x] = x)
      => o = p

\* Every call returns: the table lock is taken before a counter's, never the
\* other way round, and each exit releases what was taken.
CallsReturn == \A t \in Threads : pc[t] # "idle" ~> pc[t] = "idle"
=============================================================================
