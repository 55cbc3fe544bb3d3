--------------------------- MODULE CountersProofs ---------------------------
(***************************************************************************)
(* The invariants of Counters for any number of threads, any names and any *)
(* width of the values.                                                    *)
(***************************************************************************)
EXTENDS Counters, FiniteSetTheorems, TLAPS

Record == [id : {Trunc[x] : x \in Ids}, type : Types,
           value : 0..(Mod - 1), max : 0..(Mod - 1), delta : 0..(Mod - 1),
           ts_nsec : 0..MaxTime, ts_diff : 0..MaxTime]

\* What the next update of thread t stores, if nobody changes its counter.
NewValue(t) == (IF inc[t] THEN counters[c[t]].value + n[t] ELSE n[t]) % Mod

\* What a thread has in hand at each step: a name, a counter, and with the
\* counter's lock the value computed from what the counter still shows.
InHand ==
  \A t \in Threads :
    /\ pc[t] \in {"new", "get"} => id[t] \in Ids
    /\ pc[t] \in {"lock", "update"} => c[t] \in Table
    /\ pc[t] = "update" => c_mtx[c[t]] = t /\ val[t] = NewValue(t)

\* No counter was updated in the future, no increment counted before there was
\* a counter.
Past ==
  /\ \A o \in Table : counters[o].ts_nsec <= clock
  /\ \A o \in Objs \ Table : sum[o] = 0

\* Threads about to create a counter, and room for all of them.
Creating == {t \in Threads : pc[t] = "new" /\ Found(id[t]) = {}}
RoomForAll == Cardinality(Creating) <= Cardinality(Objs \ Table)

IInv ==
  /\ TypeOK /\ counters \in [Table -> Record]
  /\ InHand /\ Past /\ RoomForAll
  /\ IncrementsAdd /\ OneCounterPerId

-----------------------------------------------------------------------------
\* What update_value stores in any counter.
LEMMA Stored ==
  ASSUME NEW r \in Record, NEW v \in 0..(Mod - 1), NEW m \in 0..(Mod - 1)
  PROVE  LET s == [r EXCEPT !.value = v, !.max = m]
         IN  s \in Record /\ s.id = r.id /\ s.ts_nsec = r.ts_nsec /\ s.value = v
BY DEF Record

\* update_value keeps a record's type and name; a value that is not higher is
\* not stored in an incremental counter.
LEMMA UpdateValue ==
  ASSUME NEW r \in Record, NEW v \in 0..(Mod - 1), NEW now \in 1..MaxTime, r.ts_nsec <= now
  PROVE  /\ update_value(r, v, now) \in Record
         /\ update_value(r, v, now).id = r.id
         /\ update_value(r, v, now).ts_nsec <= now
         /\ update_value(r, v, now).value =
              IF v <= r.value /\ r.type # "UMCT_GAUGE" THEN r.value ELSE v
<1> DEFINE m == IF v > r.value THEN v ELSE r.value
           s == [r EXCEPT !.value = v, !.max = m]
           d == now - r.ts_nsec
           e == v - r.value
           w == [s EXCEPT !.ts_diff = d, !.delta = e, !.ts_nsec = now]
<1>1. m \in 0..(Mod - 1) /\ d \in 0..MaxTime /\ r.value \in 0..(Mod - 1) /\ now \in 0..MaxTime
  BY CountersAssumption DEF Record
<1>2. s \in Record /\ s.id = r.id /\ s.ts_nsec = r.ts_nsec /\ s.value = v
  <2> HIDE DEF m
  <2> QED BY <1>1, Stored
<1>3. now <= now
  OBVIOUS
<1>4. CASE v <= r.value /\ r.type # "UMCT_GAUGE"
  BY <1>4 DEF update_value
<1>5. CASE ~(v <= r.value /\ r.type # "UMCT_GAUGE") /\ r.type # "UMCT_INCREMENTAL"
  <2>1. update_value(r, v, now) = s
    BY <1>5 DEF update_value
  <2> HIDE DEF m, s
  <2> QED BY <1>2, <1>5, <2>1
<1>6. CASE ~(v <= r.value /\ r.type # "UMCT_GAUGE") /\ r.type = "UMCT_INCREMENTAL"
  <2>1. update_value(r, v, now) = w
    BY <1>6 DEF update_value
  <2>2. e \in 0..(Mod - 1)
    BY <1>1, <1>6, CountersAssumption
  <2> HIDE DEF m, d, e, s
  <2>3. s \in Record /\ d \in 0..MaxTime /\ e \in 0..(Mod - 1) /\ now \in 0..MaxTime
    BY <1>1, <1>2, <2>2
  <2>4. w \in Record /\ w.id = s.id /\ w.ts_nsec = now /\ w.value = s.value
    BY <2>3 DEF Record
  <2> HIDE DEF w
  <2> QED BY <1>2, <1>3, <1>6, <2>1, <2>4
<1> QED BY <1>4, <1>5, <1>6

\* A value stays in uint64_t, and an addition that does not overflow is exact.
LEMMA Wraps ==
  ASSUME NEW x \in Int
  PROVE  x % Mod \in 0..(Mod - 1) /\ (x \in 0..(Mod - 1) => x % Mod = x)
BY CountersAssumption

LEMMA CountersInit == Init => IInv
<1> SUFFICES ASSUME Init PROVE IInv
  OBVIOUS
<1> USE CountersAssumption DEF Init, Table
<1>1. counters \in [Table -> Record] /\ Table = {}
  OBVIOUS
<1>2. TypeOK
  <2>1. clock \in 1..MaxTime /\ calls \in 0..MaxCalls /\ 0 \in 0..(Mod - 1)
    OBVIOUS
  <2> QED BY <1>1, <2>1 DEF TypeOK
<1>3. InHand /\ Past /\ IncrementsAdd /\ OneCounterPerId
  BY <1>1 DEF InHand, Past, IncrementsAdd, OneCounterPerId
<1>4. RoomForAll
  <2>1. Creating = {}
    BY DEF Creating
  <2>2. IsFiniteSet(Objs \ Table)
    BY <1>1
  <2>3. Cardinality(Objs \ Table) \in Nat
    BY <2>2, FS_CardinalityType
  <2> QED BY <2>1, <2>3, FS_EmptySet DEF RoomForAll
<1> QED BY <1>1, <1>2, <1>3, <1>4 DEF IInv

-----------------------------------------------------------------------------
\* What the invariant says of a counter depends on nothing a call or a match
\* changes; the room for new counters depends only on the threads about to
\* create one.
Quiet == UNCHANGED <<counters, c_mtx, clock, sum, plain, val>>

LEMMA QuietStep ==
  ASSUME IInv, Quiet
  PROVE  /\ Past' /\ IncrementsAdd' /\ OneCounterPerId'
         /\ (counters \in [Table -> Record])' /\ Table' = Table
         /\ \A name : Found(name)' = Found(name)
<1> USE DEF Quiet, IInv, Table
<1>1. Table' = Table /\ (counters \in [Table -> Record])' /\ \A name : Found(name)' = Found(name)
  BY DEF Found
<1>2. Past'
  BY DEF Past
<1>3. IncrementsAdd' /\ OneCounterPerId'
  BY DEF IncrementsAdd, OneCounterPerId
<1> QED BY <1>1, <1>2, <1>3

\* A step that makes no thread a creator, and takes no counter, leaves room.
LEMMA RoomKept ==
  ASSUME IInv, Creating' \subseteq Creating, Table' = Table
  PROVE  RoomForAll'
<1>1. IsFiniteSet(Creating) /\ IsFiniteSet(Objs \ Table)
  BY FS_Subset, FS_Difference, CountersAssumption DEF Creating
<1>2. Cardinality(Creating') <= Cardinality(Creating)
  BY <1>1, FS_Subset
<1>3. /\ Cardinality(Creating) \in Nat /\ Cardinality(Creating') \in Nat
      /\ Cardinality(Objs \ Table) \in Nat
  BY <1>1, FS_Subset, FS_CardinalityType
<1> QED BY <1>2, <1>3 DEF RoomForAll, IInv

\* A call is made only when a counter is left for it.
LEMMA CallByIdStep ==
  ASSUME IInv, NEW t \in Threads, NEW step \in {"new", "get"}, NEW name \in Ids,
         NEW incr \in BOOLEAN, NEW i \in Ints, CallById(t, step, name, incr, i)
  PROVE  IInv'
<1> USE CountersAssumption DEF CallById, Call, matchVars, historyVars
<1>1. Quiet
  BY DEF Quiet
<1>2. /\ Past' /\ IncrementsAdd' /\ OneCounterPerId'
      /\ (counters \in [Table -> Record])' /\ Table' = Table
      /\ \A x : Found(x)' = Found(x)
  BY <1>1, QuietStep
<1>3. TypeOK'
  <2>1. TypeOK
    BY DEF IInv
  <2>2. i \in Int
    OBVIOUS
  <2>3. calls' \in 0..MaxCalls
    BY <2>1 DEF TypeOK
  <2> QED BY <1>2, <2>1, <2>2, <2>3 DEF TypeOK
<1>4. InHand'
  BY <1>2 DEF InHand, NewValue, IInv, TypeOK
<1>5. RoomForAll'
  <2> DEFINE News == {u \in Threads : pc[u] = "new"}
  <2>1. /\ pc \in [Threads -> {"idle", "new", "get", "lock", "update", "begin", "match"}]
        /\ id \in [Threads -> Ids \cup {NoId}]
    BY DEF IInv, TypeOK
  <2>2. CASE step = "new" /\ Found(name) = {}
    <3>1. Cardinality(News) < Cardinality(Objs \ Table)
      BY <2>2 DEF Room
    <3>2. IsFiniteSet(News) /\ IsFiniteSet(Objs \ Table)
      BY FS_Subset, FS_Difference
    <3>3. Creating' \subseteq News \cup {t}
      BY <1>2, <2>1 DEF Creating
    <3>4. IsFiniteSet(News \cup {t}) /\ Cardinality(News \cup {t}) <= Cardinality(News) + 1
      <4>1. CASE t \in News
        <5>1. News \cup {t} = News
          BY <4>1
        <5>2. Cardinality(News) \in Nat
          BY <3>2, FS_CardinalityType
        <5> QED BY <3>2, <5>1, <5>2
      <4>2. CASE t \notin News
        <5>1. IsFiniteSet(News \cup {t}) /\ Cardinality(News \cup {t}) = Cardinality(News) + 1
          BY <3>2, <4>2, FS_AddElement
        <5>2. Cardinality(News) \in Nat
          BY <3>2, FS_CardinalityType
        <5> QED BY <5>1, <5>2
      <4> QED BY <4>1, <4>2
    <3>5. IsFiniteSet(Creating') /\ Cardinality(Creating') <= Cardinality(News \cup {t})
      BY <3>3, <3>4, FS_Subset
    <3>6. /\ Cardinality(Creating') \in Nat /\ Cardinality(News) \in Nat
          /\ Cardinality(News \cup {t}) \in Nat /\ Cardinality(Objs \ Table) \in Nat
      BY <3>2, <3>4, <3>5, FS_CardinalityType
    <3> HIDE DEF News
    <3> QED BY <1>2, <3>1, <3>4, <3>5, <3>6 DEF RoomForAll
  <2>3. CASE ~(step = "new" /\ Found(name) = {})
    <3>1. Creating' \subseteq Creating
      BY <1>2, <2>1, <2>3 DEF Creating
    <3> QED BY <1>2, <3>1, RoomKept
  <2> QED BY <2>2, <2>3
<1> QED BY <1>2, <1>3, <1>4, <1>5 DEF IInv

\* The other calls, umc_get and the match: a counter in hand is one of the table.
LEMMA QuietActions ==
  ASSUME IInv, NEW t \in Threads,
         \/ \E i \in Ints : CallAgain(t, i)
         \/ CallMatch(t) \/ umc_get(t) \/ MatchBegin(t) \/ MatchCopy(t) \/ MatchEnd(t)
  PROVE  IInv'
<1> USE CountersAssumption DEF matchVars, historyVars
<1>1. Quiet
  BY DEF Quiet, CallAgain, CallMatch, umc_get, MatchBegin, MatchCopy, MatchEnd
<1>2. /\ Past' /\ IncrementsAdd' /\ OneCounterPerId'
      /\ (counters \in [Table -> Record])' /\ Table' = Table
      /\ \A x : Found(x)' = Found(x)
  BY <1>1, QuietStep
<1> SUFFICES TypeOK' /\ InHand' /\ Creating' \subseteq Creating
  BY <1>2, RoomKept DEF IInv
<1>3. TypeOK /\ InHand /\ Table \subseteq Objs
  BY DEF IInv, TypeOK
<1>4. CASE \E i \in Ints : CallAgain(t, i)
  <2>1. PICK i \in Ints : CallAgain(t, i)
    BY <1>4
  <2> USE <2>1 DEF CallAgain, Call
  <2>2. calls' \in 0..MaxCalls /\ i \in Int
    BY <1>3 DEF TypeOK
  <2>3. TypeOK'
    BY <1>2, <1>3, <2>2 DEF TypeOK
  <2>4. InHand'
    BY <1>2, <1>3 DEF InHand, NewValue, TypeOK
  <2>5. Creating' \subseteq Creating
    BY <1>2, <1>3 DEF Creating, TypeOK
  <2> QED BY <2>3, <2>4, <2>5
<1>5. CASE CallMatch(t)
  <2> USE <1>5 DEF CallMatch, Call
  <2>2. calls' \in 0..MaxCalls
    BY <1>3 DEF TypeOK
  <2>3. TypeOK'
    BY <1>2, <1>3, <2>2 DEF TypeOK
  <2>4. InHand'
    BY <1>2, <1>3 DEF InHand, NewValue, TypeOK
  <2>5. Creating' \subseteq Creating
    BY <1>2, <1>3 DEF Creating, TypeOK
  <2> QED BY <2>3, <2>4, <2>5
<1>6. CASE umc_get(t)
  <2> USE <1>6 DEF umc_get, Obtained
  <2>1. \A o \in Found(id[t]) : o \in Table
    BY DEF Found
  <2>2. /\ c' \in [Threads -> Table' \cup {NoObj}] /\ id' \in [Threads -> Ids \cup {NoId}]
        /\ pc' \in [Threads -> {"idle", "new", "get", "lock", "update", "begin", "match"}]
        /\ ctx_mtx' \in Threads \cup {NoThread}
    <3>1. CASE Found(id[t]) = {}
      BY <1>2, <1>3, <3>1 DEF TypeOK
    <3>2. CASE Found(id[t]) # {}
      <4>1. PICK o \in Found(id[t]) : Obtained(t, o) /\ ctx_mtx' = t
        BY <3>2
      <4> QED BY <1>2, <1>3, <2>1, <4>1 DEF TypeOK
    <3> QED BY <3>1, <3>2
  <2>3. TypeOK'
    BY <1>2, <1>3, <2>2 DEF TypeOK
  <2>4. InHand'
    BY <1>2, <1>3, <2>1 DEF InHand, NewValue, TypeOK
  <2>5. Creating' \subseteq Creating
    BY <1>2, <1>3 DEF Creating, TypeOK
  <2> QED BY <2>3, <2>4, <2>5
<1>7. CASE MatchBegin(t) \/ MatchCopy(t) \/ MatchEnd(t)
  <2> USE <1>7 DEF MatchBegin, MatchCopy, MatchEnd
  <2>3. TypeOK'
    BY <1>2, <1>3 DEF TypeOK
  <2>4. InHand'
    BY <1>2, <1>3 DEF InHand, NewValue, TypeOK
  <2>5. Creating' \subseteq Creating
    BY <1>2, <1>3 DEF Creating, TypeOK
  <2> QED BY <2>3, <2>4, <2>5
<1> QED BY <1>4, <1>5, <1>6, <1>7

\* The counter's lock is free: whoever is at an update holds another one.
LEMMA LockStep ==
  ASSUME IInv, NEW t \in Threads, Lock(t)
  PROVE  IInv'
<1> USE CountersAssumption DEF matchVars, historyVars, Lock
<1>1. TypeOK /\ InHand /\ c[t] \in Table /\ Table \subseteq Objs /\ counters \in [Table -> Record]
  BY DEF IInv, TypeOK, InHand
<1>2. Table' = Table /\ (counters \in [Table -> Record])' /\ \A x : Found(x)' = Found(x)
  BY <1>1 DEF Found, Table
<1>3. counters[c[t]].value \in Int /\ n[t] \in Int
  BY <1>1 DEF Record, TypeOK
<1>4. NewValue(t) \in 0..(Mod - 1)
  BY <1>3, Wraps DEF NewValue
<1>5. val' = [val EXCEPT ![t] = NewValue(t)]
  BY DEF NewValue
<1>6. TypeOK'
  BY <1>1, <1>2, <1>4, <1>5 DEF TypeOK
<1>7. \A u \in Threads : NewValue(u)' = NewValue(u)
  BY DEF NewValue
<1>8. InHand'
  <2> SUFFICES ASSUME NEW u \in Threads
               PROVE  /\ pc'[u] \in {"new", "get"} => id'[u] \in Ids
                      /\ pc'[u] \in {"lock", "update"} => c'[u] \in Table'
                      /\ pc'[u] = "update" => c_mtx'[c'[u]] = u /\ val'[u] = NewValue(u)'
    BY DEF InHand
  <2>1. CASE u = t
    BY <1>1, <1>2, <1>5, <1>7, <2>1 DEF TypeOK
  <2>2. CASE u # t
    <3>1. pc'[u] = pc[u] /\ val'[u] = val[u] /\ c' = c
      BY <1>1, <1>5, <2>2 DEF TypeOK
    <3>2. pc[u] = "update" => c[u] # c[t]
      BY <1>1 DEF InHand
    <3> QED BY <1>1, <1>2, <1>7, <3>1, <3>2 DEF InHand, TypeOK
  <2> QED BY <2>1, <2>2
<1>9. Creating' \subseteq Creating
  BY <1>1, <1>2 DEF Creating, TypeOK
<1>10. RoomForAll'
  BY <1>2, <1>9, RoomKept
<1>11. Past' /\ IncrementsAdd' /\ OneCounterPerId'
  <2>1. Past'
    BY <1>2 DEF IInv, Past
  <2> QED BY <1>2, <2>1 DEF IInv, IncrementsAdd, OneCounterPerId
<1> QED BY <1>2, <1>6, <1>8, <1>10, <1>11 DEF IInv

\* umc_new_counter takes a counter that is in the table or a fresh one; a name
\* that no longer one is truncated to is found if it is in the table.
LEMMA NewCounterStep ==
  ASSUME IInv, NEW t \in Threads, umc_new_counter(t)
  PROVE  IInv'
<1> USE CountersAssumption DEF matchVars, historyVars, umc_new_counter, Obtained
<1>1. TypeOK /\ InHand /\ Table \subseteq Objs /\ counters \in [Table -> Record] /\ id[t] \in Ids
  BY DEF IInv, TypeOK, InHand
<1>2. CASE \E o \in Found(id[t]) : Obtained(t, o) /\ UNCHANGED counters
  <2>1. PICK o \in Found(id[t]) : Obtained(t, o) /\ UNCHANGED counters
    BY <1>2
  <2>2. o \in Table
    BY DEF Found
  <2>3. Quiet
    BY <2>1 DEF Quiet
  <2>4. /\ Past' /\ IncrementsAdd' /\ OneCounterPerId'
        /\ (counters \in [Table -> Record])' /\ Table' = Table
        /\ \A x : Found(x)' = Found(x)
    BY <2>3, QuietStep
  <2>5. TypeOK'
    BY <1>1, <2>1, <2>2, <2>4 DEF TypeOK
  <2>6. InHand'
    BY <1>1, <2>1, <2>2, <2>4 DEF InHand, NewValue, TypeOK
  <2>7. Creating' \subseteq Creating
    BY <1>1, <2>1, <2>4 DEF Creating, TypeOK
  <2> QED BY <2>4, <2>5, <2>6, <2>7, RoomKept DEF IInv
<1>3. CASE Found(id[t]) = {} /\ ~ \E o \in Found(id[t]) : Obtained(t, o) /\ UNCHANGED counters
  <2> DEFINE o == CHOOSE x \in Objs \ Table : TRUE
             name == id[t]
             r == [id |-> Trunc[name], type |-> IF inc[t] THEN "UMCT_INCREMENTAL" ELSE "UMCT_GAUGE",
                   value |-> 0, max |-> 0, ts_nsec |-> 0, ts_diff |-> 0, delta |-> 0]
  <2>1. Obtained(t, o) /\ counters' = WithNew(o, name, inc[t])
    BY <1>3
  <2>2. t \in Creating
    BY <1>3 DEF Creating
  <2>3. IsFiniteSet(Creating) /\ IsFiniteSet(Objs \ Table)
    BY FS_Subset, FS_Difference DEF Creating
  <2>4. o \in Objs \ Table
    <3>1. Cardinality(Creating) # 0
      BY <2>2, <2>3, FS_EmptySet
    <3>2. Cardinality(Creating) \in Nat /\ Cardinality(Objs \ Table) \in Nat
      BY <2>3, FS_CardinalityType
    <3>3. Cardinality(Objs \ Table) # 0
      BY <3>1, <3>2 DEF IInv, RoomForAll
    <3> QED BY <2>3, <3>3, FS_EmptySet
  <2>5. r \in Record
    <3>1. 0 \in 0..(Mod - 1) /\ 0 \in 0..MaxTime
      OBVIOUS
    <3> QED BY <1>1, <3>1 DEF Record, Types
  <2>6. /\ Table' = Table \cup {o} /\ counters'[o] = r
        /\ \A p \in Table : p # o /\ counters'[p] = counters[p]
    <3> HIDE DEF o
    <3> QED BY <2>1, <2>4 DEF WithNew, Table
  <2>7. (counters \in [Table -> Record])'
    <3>1. counters' = [p \in Table' |-> counters'[p]]
      BY <2>1 DEF WithNew, Table
    <3>2. \A p \in Table' : counters'[p] \in Record
      <4> HIDE DEF r, o
      <4> QED BY <1>1, <2>5, <2>6
    <3> QED BY <3>1, <3>2
  <2> HIDE DEF o
  <2>8. r.id = Trunc[name] /\ r.value = 0 /\ r.ts_nsec = 0
    OBVIOUS
  <2> HIDE DEF r
  <2>9. TypeOK'
    <3>1. Table' \subseteq Objs /\ (\A p \in Table' : counters'[p] \in Record)
      BY <1>1, <2>4, <2>6, <2>7
    <3>2. c' \in [Threads -> Table' \cup {NoObj}]
      BY <1>1, <2>1, <2>6 DEF TypeOK
    <3> QED BY <1>1, <2>1, <3>1, <3>2 DEF TypeOK, Record
  <2>10. InHand'
    <3> SUFFICES ASSUME NEW u \in Threads
                 PROVE  /\ pc'[u] \in {"new", "get"} => id'[u] \in Ids
                        /\ pc'[u] \in {"lock", "update"} => c'[u] \in Table'
                        /\ pc'[u] = "update" => c_mtx'[c'[u]] = u /\ val'[u] = NewValue(u)'
      BY DEF InHand
    <3>1. CASE u = t
      BY <1>1, <2>1, <2>6, <3>1 DEF TypeOK
    <3>2. CASE u # t
      <4>1. pc'[u] = pc[u] /\ c'[u] = c[u] /\ id'[u] = id[u]
        BY <1>1, <2>1, <3>2 DEF TypeOK
      <4>2. c[u] \in Table => NewValue(u)' = NewValue(u)
        BY <2>6, <4>1 DEF NewValue
      <4> QED BY <1>1, <2>6, <4>1, <4>2 DEF InHand
    <3> QED BY <3>1, <3>2
  <2>11. Past'
    BY <2>4, <2>6, <2>8, <1>1 DEF IInv, Past, TypeOK
  <2>12. IncrementsAdd'
    <3>1. sum[o] = 0
      BY <2>4 DEF IInv, Past
    <3> QED BY <2>6, <2>8, <3>1 DEF IInv, IncrementsAdd
  <2>13. OneCounterPerId'
    <3>1. \A p \in Table : counters[p].id = Trunc[name] => Trunc[name] # name
      BY <1>3 DEF Found
    <3>2. \A p \in Table' : counters'[p].id = (IF p = o THEN Trunc[name] ELSE counters[p].id)
      BY <2>6, <2>8
    <3> SUFFICES ASSUME NEW p \in Table', NEW q \in Table', counters'[p].id = counters'[q].id,
                        \A x \in Ids : Trunc[x] = counters'[p].id => Trunc[x] = x
                 PROVE  p = q
      BY DEF OneCounterPerId
    <3>3. CASE p = o \/ q = o
      BY <1>1, <2>6, <3>1, <3>2, <3>3
    <3>4. CASE p # o /\ q # o
      BY <2>6, <3>2, <3>4 DEF IInv, OneCounterPerId
    <3> QED BY <3>3, <3>4
  <2>14. RoomForAll'
    <3>1. Objs \ Table' = (Objs \ Table) \ {o}
      BY <2>6
    <3>2. Cardinality(Objs \ Table') = Cardinality(Objs \ Table) - 1
      <4>1. Cardinality((Objs \ Table) \ {o}) = Cardinality(Objs \ Table) - 1
        BY <2>3, <2>4, FS_RemoveElement
      <4> QED BY <3>1, <4>1, Zenon
    <3>3. Creating' \subseteq Creating \ {t}
      <4> SUFFICES ASSUME NEW u \in Creating' PROVE u \in Creating \ {t}
        OBVIOUS
      <4>1. u \in Threads /\ pc'[u] = "new" /\ (\A p \in Table' : counters'[p].id # id'[u])
        BY DEF Creating, Found
      <4>2. u # t /\ pc[u] = "new" /\ id'[u] = id[u]
        BY <1>1, <2>1, <4>1 DEF TypeOK
      <4>3. \A p \in Table : counters[p].id # id[u]
        BY <2>6, <4>1, <4>2
      <4> QED BY <4>1, <4>2, <4>3 DEF Creating, Found
    <3>4. IsFiniteSet(Creating \ {t}) /\ Cardinality(Creating \ {t}) = Cardinality(Creating) - 1
      BY <2>2, <2>3, FS_RemoveElement
    <3>5. IsFiniteSet(Creating') /\ Cardinality(Creating') <= Cardinality(Creating \ {t})
      BY <3>3, <3>4, FS_Subset
    <3>6. /\ Cardinality(Creating') \in Nat /\ Cardinality(Creating) \in Nat
          /\ Cardinality(Objs \ Table) \in Nat
      BY <2>3, <3>5, FS_CardinalityType
    <3> QED BY <3>2, <3>4, <3>5, <3>6 DEF IInv, RoomForAll
  <2> QED BY <2>7, <2>9, <2>10, <2>11, <2>12, <2>13, <2>14 DEF IInv
<1> QED BY <1>2, <1>3

\* The update: the counter did not change since the value was computed.
LEMMA UpdateStep ==
  ASSUME IInv, NEW t \in Threads, Update(t)
  PROVE  IInv'
<1> USE CountersAssumption DEF matchVars, historyVars
<1> DEFINE o == c[t]
           r == counters[o]
           v == val[t]
<1>1. TypeOK /\ InHand /\ Table \subseteq Objs /\ counters \in [Table -> Record]
  BY DEF IInv, TypeOK
<1>2. /\ pc[t] = "update" /\ o \in Table /\ o \in Objs /\ c_mtx[o] = t /\ v = NewValue(t)
      /\ v \in 0..(Mod - 1) /\ r \in Record
  BY <1>1 DEF Update, InHand, TypeOK
<1>3. PICK now \in clock..MaxTime :
        clock' = now /\ counters' = [counters EXCEPT ![o] = update_value(r, v, now)]
  BY <1>1, <1>2 DEF Update
<1>4. now \in 1..MaxTime /\ r.ts_nsec <= now /\ now \in Int /\ clock \in Int /\ clock <= now
  <2>1. clock \in 1..MaxTime
    BY <1>1 DEF TypeOK
  <2>2. now \in 1..MaxTime /\ clock <= now
    BY <2>1
  <2>3. r.ts_nsec \in Int /\ r.ts_nsec <= clock
    BY <1>2 DEF IInv, Past, Record
  <2> QED BY <2>1, <2>2, <2>3
<1> DEFINE s == update_value(r, v, now)
<1>5. /\ s \in Record /\ s.id = r.id /\ s.ts_nsec <= now
      /\ s.value = IF v <= r.value /\ r.type # "UMCT_GAUGE" THEN r.value ELSE v
  BY <1>2, <1>4, UpdateValue
<1> HIDE DEF s
<1>6. /\ Table' = Table /\ counters'[o] = s /\ (counters \in [Table -> Record])'
      /\ \A p \in Table : p # o => counters'[p] = counters[p]
  BY <1>1, <1>2, <1>3, <1>5 DEF Table, s
<1>7. \A x : Found(x)' = Found(x)
  BY <1>2, <1>5, <1>6 DEF Found
<1>8. TypeOK'
  <2>1. \A p \in Table' : counters'[p] \in Record
    BY <1>6
  <2>2. clock' \in 1..MaxTime
    BY <1>3, <1>4
  <2>3. 0 \in 0..(Mod - 1) /\ 0 \in Int
    OBVIOUS
  <2>4. plain' \in [Objs -> BOOLEAN]
    BY <1>1, <1>2 DEF Update, TypeOK
  <2>5. sum' \in [Objs -> Int]
    <3>1. n[t] \in Int /\ sum[o] \in Int /\ sum[o] + n[t] \in Int
      BY <1>1, <1>2 DEF TypeOK
    <3> QED BY <1>1, <1>2, <2>3, <3>1 DEF Update, TypeOK
  <2>6. n' \in [Threads -> Int] /\ val' \in [Threads -> 0..(Mod - 1)]
    BY <1>1, <2>3 DEF Update, TypeOK
  <2> QED BY <1>1, <1>2, <1>6, <2>1, <2>2, <2>4, <2>5, <2>6 DEF Update, TypeOK, Record
<1>9. InHand'
  <2> SUFFICES ASSUME NEW u \in Threads
               PROVE  /\ pc'[u] \in {"new", "get"} => id'[u] \in Ids
                      /\ pc'[u] \in {"lock", "update"} => c'[u] \in Table'
                      /\ pc'[u] = "update" => c_mtx'[c'[u]] = u /\ val'[u] = NewValue(u)'
    BY DEF InHand
  <2>1. CASE u = t
    BY <1>1, <1>6, <2>1 DEF Update, TypeOK
  <2>2. CASE u # t
    <3>1. /\ pc'[u] = pc[u] /\ c'[u] = c[u] /\ id'[u] = id[u] /\ n'[u] = n[u]
          /\ inc'[u] = inc[u] /\ val'[u] = val[u]
      BY <1>1, <2>2 DEF Update, TypeOK
    <3>2. pc[u] = "update" => c[u] # o /\ c[u] \in Table
      BY <1>1, <1>2, <2>2 DEF InHand
    <3>3. pc[u] = "update" => NewValue(u)' = NewValue(u)
      BY <1>6, <3>1, <3>2 DEF NewValue
    <3>4. pc[u] = "update" => c_mtx'[c[u]] = c_mtx[c[u]]
      BY <1>1, <3>2 DEF Update, TypeOK
    <3> QED BY <1>1, <1>6, <3>1, <3>2, <3>3, <3>4 DEF InHand
  <2> QED BY <2>1, <2>2
<1>10. Past'
  <2>1. \A p \in Table : counters'[p].ts_nsec <= now
    <3> SUFFICES ASSUME NEW p \in Table, p # o PROVE counters[p].ts_nsec <= now
      BY <1>5, <1>6
    <3>1. counters[p].ts_nsec \in Int /\ counters[p].ts_nsec <= clock
      BY <1>1 DEF IInv, Past, Record
    <3> QED BY <1>4, <3>1
  <2>2. \A p \in Objs \ Table : sum'[p] = 0
    BY <1>1, <1>2 DEF IInv, Past, Update, TypeOK
  <2> QED BY <1>3, <1>6, <2>1, <2>2 DEF Past
<1>11. IncrementsAdd'
  <2>1. \A p \in Table : p # o => plain'[p] = plain[p] /\ sum'[p] = sum[p]
    BY <1>1 DEF Update, TypeOK
  <2>2. ASSUME plain'[o], sum'[o] < Mod
        PROVE  s.value = sum'[o]
    <3>1. plain[o] /\ inc[t] /\ n[t] >= 0 /\ sum'[o] = sum[o] + n[t]
      BY <1>1, <1>2, <2>2 DEF Update, TypeOK
    <3>2. n[t] \in Int /\ sum[o] \in Int
      BY <1>1, <1>2 DEF TypeOK
    <3>3. r.value = sum[o] /\ r.value \in 0..(Mod - 1)
      BY <1>2, <2>2, <3>1, <3>2 DEF IInv, IncrementsAdd, Record
    <3>4. r.value + n[t] \in 0..(Mod - 1)
      BY <2>2, <3>1, <3>2, <3>3
    <3>5. v = (r.value + n[t]) % Mod
      BY <1>2, <3>1 DEF NewValue
    <3>6. v = r.value + n[t]
      BY <3>4, <3>5, Wraps
    <3> HIDE DEF v, r
    <3> QED BY <1>5, <3>1, <3>2, <3>3, <3>6
  <2> QED BY <1>6, <2>1, <2>2 DEF IInv, IncrementsAdd
<1>12. OneCounterPerId'
  <2>1. \A p \in Table : counters'[p].id = counters[p].id
    BY <1>5, <1>6
  <2> QED BY <1>6, <2>1 DEF IInv, OneCounterPerId
<1>13. Creating' \subseteq Creating
  BY <1>1, <1>7 DEF Creating, TypeOK, Update
<1>14. RoomForAll'
  BY <1>6, <1>13, RoomKept
<1> QED BY <1>6, <1>8, <1>9, <1>10, <1>11, <1>12, <1>14 DEF IInv

LEMMA CountersStep == IInv /\ [Next]_vars => IInv'
<1> SUFFICES ASSUME IInv, [Next]_vars PROVE IInv'
  OBVIOUS
<1>1. CASE Next
  BY <1>1, CallByIdStep, QuietActions, LockStep, NewCounterStep, UpdateStep DEF Next, Step
<1>2. CASE UNCHANGED vars
  <2> USE <1>2 DEF vars, matchVars, historyVars
  <2>1. /\ Past' /\ IncrementsAdd' /\ OneCounterPerId'
        /\ (counters \in [Table -> Record])' /\ Table' = Table
        /\ \A x : Found(x)' = Found(x)
    BY QuietStep DEF Quiet
  <2>2. TypeOK' /\ InHand'
    BY <2>1 DEF IInv, TypeOK, InHand, NewValue
  <2>3. Creating' \subseteq Creating
    BY <2>1 DEF Creating
  <2> QED BY <2>1, <2>2, <2>3, RoomKept DEF IInv
<1> QED BY <1>1, <1>2

LEMMA CountersInvariant == Spec => []IInv
BY CountersInit, CountersStep, PTL DEF Spec

\* Every counter keeps its type, its value within uint64_t, and every lock has
\* no owner or a thread, for any number of threads.
THEOREM CountersTypeCorrect == Spec => []TypeOK
<1>1. IInv => TypeOK
  BY DEF IInv
<1> QED BY <1>1, CountersInvariant, PTL

\* umc_inc loses no increment: the value that a thread computed under the
\* counter's lock is still right when update_value stores it, so a counter that
\* was only incremented shows the sum of the increments of all threads.
THEOREM NoIncrementLost == Spec => []IncrementsAdd
<1>1. IInv => IncrementsAdd
  BY DEF IInv
<1> QED BY <1>1, CountersInvariant, PTL

\* umc_new_counter creates a name once, however many threads ask for it, if no
\* longer name is truncated to it.
THEOREM NamesUnique == Spec => []OneCounterPerId
<1>1. IInv => OneCounterPerId
  BY DEF IInv
<1> QED BY <1>1, CountersInvariant, PTL
=============================================================================
