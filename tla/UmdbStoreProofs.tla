--------------------------- MODULE UmdbStoreProofs ---------------------------
(***************************************************************************)
(* What scripts read from the key/value store of UmdbStore, for any number *)
(* of threads, tables, keys and values, with any bound on calls of db_set. *)
(***************************************************************************)
EXTENDS UmdbStore, SequenceTheorems, TLAPS

Entry == [h : Handles, tbl : Tables, k : Keys, v : Values]

\* What a thread is at work with: the statement that is next is the call's.
CallOK(t) ==
  /\ call[t].h \in Handles /\ call[t].tbl \in Tables /\ call[t].k \in Keys
  /\ call[t].op \in {"set", "get"}
  /\ call[t].op = "set" => call[t].v \in Values
  /\ pc[t] \in {"init", call[t].op}

Shape ==
  /\ db = [h \in Handles |-> [tbl \in Tables |-> db[h][tbl]]]
  /\ call = [t \in Threads |-> call[t]]
  /\ \A t \in Threads : pc[t] # "idle" => CallOK(t)
  /\ log \in Seq(Entry) /\ restarted \in 0..Len(log)

\* The last completed set that a read of k can mean.
IsLast(n, h, tbl, k) == n \in SetsOf(h, tbl, k) /\ \A m \in SetsOf(h, tbl, k) : m <= n

\* A table holds, under the number that a key looks like, what was last set.
HoldsLast(h, tbl, k) ==
  \/ /\ SetsOf(h, tbl, k) = {}
     /\ db[h][tbl] # NoTable => Numeric[k] \notin DOMAIN db[h][tbl]
  \/ \E n \in Nat :
       /\ IsLast(n, h, tbl, k)
       /\ db[h][tbl] # NoTable /\ Numeric[k] \in DOMAIN db[h][tbl]
       /\ db[h][tbl][Numeric[k]] = Numeric[log[n].v]

Rows == \A h \in Handles, tbl \in Tables, k \in Keys : HoldsLast(h, tbl, k)

IInv == TypeOK /\ Shape /\ Rows

-----------------------------------------------------------------------------
(* The statements.                                                         *)

\* What a table holds is not taken for a missing table.
LEMMA NotMissing ==
  ASSUME NEW D \in SUBSET Keys, NEW rows \in [D -> Values]
  PROVE  rows # NoTable
BY StoreAssumption

\* Stored, the upsert: a set of rows again, with one key changed.
LEMMA StoredRows ==
  ASSUME NEW rows, NEW k \in Keys, NEW v \in Values,
         DOMAIN rows \subseteq {Numeric[x] : x \in Keys},
         \A x \in DOMAIN rows : rows[x] \in {Numeric[y] : y \in Values}
  PROVE  LET new == Stored(rows, k, v) IN
         /\ new # NoTable
         /\ DOMAIN new = DOMAIN rows \cup {Numeric[k]}
         /\ new[Numeric[k]] = Numeric[v]
         /\ \A x \in DOMAIN rows : x # Numeric[k] => new[x] = rows[x]
         /\ DOMAIN new \subseteq {Numeric[x] : x \in Keys}
         /\ \A x \in DOMAIN new : new[x] \in {Numeric[y] : y \in Values}
<1> DEFINE new == Stored(rows, k, v)
<1>1. /\ DOMAIN new = DOMAIN rows \cup {Numeric[k]}
      /\ new[Numeric[k]] = Numeric[v]
      /\ \A x \in DOMAIN rows : x # Numeric[k] => new[x] = rows[x]
  BY DEF Stored
<1>2. new = [x \in DOMAIN new |-> new[x]]
  BY DEF Stored
<1> HIDE DEF new
<1>3. DOMAIN new \subseteq {Numeric[x] : x \in Keys}
  BY <1>1
<1>4. \A x \in DOMAIN new : new[x] \in {Numeric[y] : y \in Values}
  BY <1>1
<1>5. DOMAIN new \in SUBSET Keys /\ \A x \in DOMAIN new : new[x] \in Values
  BY <1>3, <1>4, StoreAssumption
<1>6. new \in [DOMAIN new -> Values]
  BY <1>2, <1>5
<1>7. new # NoTable
  BY <1>5, <1>6, NotMissing
<1> QED BY <1>1, <1>3, <1>4, <1>7 DEF new

\* A statement changes one table.
Written(h, tbl, rows) == db' = [db EXCEPT ![h][tbl] = rows]

LEMMA TableWritten ==
  ASSUME Shape, NEW h \in Handles, NEW tbl \in Tables, NEW rows,
         Written(h, tbl, rows)
  PROVE  /\ db' = [g \in Handles |-> [u \in Tables |-> db'[g][u]]]
         /\ db'[h][tbl] = rows
         /\ \A g \in Handles, u \in Tables : g # h \/ u # tbl => db'[g][u] = db[g][u]
<1> DEFINE row == [db[h] EXCEPT ![tbl] = rows]
<1>1. db' = [db EXCEPT ![h] = row]
  BY DEF Written
<1>2. DOMAIN db = Handles /\ \A g \in Handles : db[g] = [u \in Tables |-> db[g][u]]
  BY DEF Shape
<1>3. /\ row = [u \in Tables |-> row[u]] /\ row[tbl] = rows
      /\ \A u \in Tables : u # tbl => row[u] = db[h][u]
  BY <1>2
<1> HIDE DEF row
<1>4. db' = [g \in Handles |-> IF g = h THEN row ELSE db[g]]
  BY <1>1, <1>2
<1>5. \A g \in Handles : db'[g] = IF g = h THEN row ELSE db[g]
  BY <1>4
<1>6. \A g \in Handles : db'[g] = [u \in Tables |-> db'[g][u]]
  BY <1>2, <1>3, <1>5
<1>7. DOMAIN db' = Handles /\ db' = [g \in Handles |-> db'[g]]
  BY <1>4
<1>8. db' = [g \in Handles |-> [u \in Tables |-> db'[g][u]]]
  BY <1>6, <1>7
<1> QED BY <1>3, <1>5, <1>8

\* Neither the tables nor the history change.
LEMMA SameRows ==
  ASSUME Rows, UNCHANGED <<db, log, restarted>>
  PROVE  Rows'
BY DEF Rows, HoldsLast, IsLast, SetsOf

\* A call that ends leaves its thread idle.
LEMMA Returned ==
  ASSUME TypeOK, Shape, NEW t \in Threads, NEW r \in Values \cup {Nil}, Return(t, r)
  PROVE  /\ pc' \in [Threads -> {"idle", "init", "set", "get"}]
         /\ \A u \in Threads : pc'[u] = "idle" <=> call'[u] = NoCall
         /\ got' \in [Threads -> Values \cup {Nil}]
         /\ call' = [u \in Threads |-> call'[u]]
         /\ \A u \in Threads : pc'[u] # "idle" => CallOK(u)'
<1>1. /\ pc' = [pc EXCEPT ![t] = "idle"] /\ call' = [call EXCEPT ![t] = NoCall]
      /\ got' = [got EXCEPT ![t] = r]
  BY DEF Return
<1>2. DOMAIN call = Threads /\ pc \in [Threads -> {"idle", "init", "set", "get"}]
  BY DEF TypeOK, Shape
<1>3. /\ pc'[t] = "idle" /\ call'[t] = NoCall
      /\ \A u \in Threads \ {t} : pc'[u] = pc[u] /\ call'[u] = call[u]
  BY <1>1, <1>2
<1>4. \A u \in Threads : pc'[u] # "idle" => CallOK(u)'
  BY <1>3 DEF CallOK, Shape
<1>5. got' \in [Threads -> Values \cup {Nil}] /\ pc' \in [Threads -> {"idle", "init", "set", "get"}]
  BY <1>1, <1>2 DEF TypeOK
<1>6. call' = [u \in Threads |-> call'[u]]
  BY <1>1, <1>2
<1> QED BY <1>3, <1>4, <1>5, <1>6 DEF TypeOK

-----------------------------------------------------------------------------
(* One lemma per action.                                                   *)

LEMMA CallStep ==
  ASSUME IInv, NEW t \in Threads, NEW op \in {"set", "get"}, NEW h \in Handles,
         NEW tbl \in Tables, NEW k \in Keys, NEW v, op = "set" => v \in Values,
         Call(t, op, h, tbl, k, v)
  PROVE  IInv'
<1> DEFINE a == [op |-> op, h |-> h, tbl |-> tbl, k |-> k, v |-> v]
<1>1. /\ pc' = [pc EXCEPT ![t] = "init"] /\ call' = [call EXCEPT ![t] = a]
      /\ UNCHANGED <<opened, db, got, log, restarted>>
  BY DEF Call
<1>2. /\ a.op = op /\ a.h = h /\ a.tbl = tbl /\ a.k = k /\ a.v = v /\ a # NoCall
  <2>1. DOMAIN a = {"op", "h", "tbl", "k", "v"} /\ DOMAIN NoCall = {}
    BY DEF NoCall
  <2> QED BY <2>1
<1> HIDE DEF a
<1>3. DOMAIN call = Threads /\ pc \in [Threads -> {"idle", "init", "set", "get"}]
  BY DEF IInv, TypeOK, Shape
<1>4. /\ pc'[t] = "init" /\ call'[t] = a /\ call' = [u \in Threads |-> call'[u]]
      /\ pc' \in [Threads -> {"idle", "init", "set", "get"}]
      /\ \A u \in Threads \ {t} : pc'[u] = pc[u] /\ call'[u] = call[u]
  BY <1>1, <1>3
<1>5. \A u \in Threads : pc'[u] = "idle" <=> call'[u] = NoCall
  BY <1>2, <1>4 DEF IInv, TypeOK
<1>6. TypeOK'
  BY <1>1, <1>4, <1>5 DEF IInv, TypeOK
<1>7. \A u \in Threads : pc'[u] # "idle" => CallOK(u)'
  BY <1>2, <1>4 DEF IInv, Shape, CallOK
<1>8. Shape'
  BY <1>1, <1>4, <1>7 DEF IInv, Shape
<1>9. Rows'
  BY <1>1, SameRows DEF IInv
<1> QED BY <1>6, <1>8, <1>9 DEF IInv

\* CREATE TABLE IF NOT EXISTS: a table that is there keeps its rows, and one
\* that is not has had no sets.
LEMMA InitStep ==
  ASSUME IInv, NEW t \in Threads, umdb_mngr_store_init(t)
  PROVE  IInv'
<1> DEFINE empty == [x \in {} |-> Nil]
<1>1. PICK h, tbl, op : h = call[t].h /\ tbl = call[t].tbl /\ op = call[t].op
  OBVIOUS
<1>2. /\ pc[t] = "init" /\ h \in opened /\ pc' = [pc EXCEPT ![t] = op]
      /\ db' = IF db[h][tbl] = NoTable THEN [db EXCEPT ![h][tbl] = empty] ELSE db
      /\ UNCHANGED <<opened, call, got, log, restarted>>
  BY <1>1 DEF umdb_mngr_store_init
<1>3. h \in Handles /\ tbl \in Tables /\ op \in {"set", "get"} /\ CallOK(t)
  BY <1>1, <1>2 DEF IInv, Shape, CallOK
<1>4. DOMAIN empty = {} /\ empty # NoTable
  BY NotMissing
<1> HIDE DEF empty
<1>5. /\ db' = [g \in Handles |-> [u \in Tables |-> db'[g][u]]]
      /\ \A g \in Handles, u \in Tables :
           IF g = h /\ u = tbl /\ db[h][tbl] = NoTable THEN db'[g][u] = empty ELSE db'[g][u] = db[g][u]
  <2>1. CASE db[h][tbl] = NoTable
    <3>1. Shape /\ Written(h, tbl, empty)
      BY <1>2, <2>1 DEF IInv, Written
    <3>2. /\ db' = [g \in Handles |-> [u \in Tables |-> db'[g][u]]]
          /\ db'[h][tbl] = empty
          /\ \A g \in Handles, u \in Tables : g # h \/ u # tbl => db'[g][u] = db[g][u]
      BY <1>3, <3>1, TableWritten
    <3> QED BY <2>1, <3>2
  <2>2. CASE db[h][tbl] # NoTable
    BY <1>2, <2>2 DEF IInv, Shape
  <2> QED BY <2>1, <2>2
<1>6. /\ pc' \in [Threads -> {"idle", "init", "set", "get"}] /\ pc'[t] = op
      /\ \A u \in Threads \ {t} : pc'[u] = pc[u]
  BY <1>2, <1>3 DEF IInv, TypeOK
<1>7. TypeOK'
  <2>1. \A g \in Handles, u \in Tables : db'[g][u] # NoTable =>
          /\ g \in opened
          /\ DOMAIN db'[g][u] \subseteq {Numeric[k] : k \in Keys}
          /\ \A k \in DOMAIN db'[g][u] : db'[g][u][k] \in {Numeric[v] : v \in Values}
    <3> SUFFICES ASSUME NEW g \in Handles, NEW u \in Tables, db'[g][u] # NoTable
                 PROVE  /\ g \in opened
                        /\ DOMAIN db'[g][u] \subseteq {Numeric[k] : k \in Keys}
                        /\ \A k \in DOMAIN db'[g][u] : db'[g][u][k] \in {Numeric[v] : v \in Values}
      OBVIOUS
    <3>1. CASE db'[g][u] = db[g][u]
      BY <3>1 DEF IInv, TypeOK
    <3>2. CASE db'[g][u] = empty /\ g = h
      BY <1>2, <1>4, <3>2
    <3> QED BY <1>5, <3>1, <3>2
  <2>2. \A u \in Threads : pc'[u] = "idle" <=> call'[u] = NoCall
    BY <1>2, <1>3, <1>6 DEF IInv, TypeOK
  <2> QED BY <1>2, <1>6, <2>1, <2>2 DEF IInv, TypeOK
<1>8. Shape'
  <2>1. \A u \in Threads : pc'[u] # "idle" => CallOK(u)'
    BY <1>1, <1>2, <1>3, <1>6 DEF IInv, Shape, CallOK
  <2> QED BY <1>2, <1>5, <2>1 DEF IInv, Shape
<1>9. Rows'
  <2> SUFFICES ASSUME NEW g \in Handles, NEW u \in Tables, NEW k \in Keys
               PROVE  HoldsLast(g, u, k)'
    BY DEF Rows
  <2>1. SetsOf(g, u, k)' = SetsOf(g, u, k) /\ \A n : IsLast(n, g, u, k)' = IsLast(n, g, u, k)
    BY <1>2 DEF SetsOf, IsLast
  <2>2. HoldsLast(g, u, k)
    BY DEF IInv, Rows
  <2>3. CASE db'[g][u] = db[g][u]
    BY <1>2, <2>1, <2>2, <2>3 DEF HoldsLast
  <2>4. CASE db'[g][u] = empty /\ db[g][u] = NoTable
    BY <1>4, <2>1, <2>2, <2>4 DEF HoldsLast
  <2> QED BY <1>5, <2>3, <2>4
<1> QED BY <1>7, <1>8, <1>9 DEF IInv

\* The upsert: the row is now what the newest entry of the log says, and no
\* other row changes.
LEMMA SetStep ==
  ASSUME IInv, NEW t \in Threads, umdb_mngr_store_set(t)
  PROVE  IInv'
<1>1. PICK h, tbl, key, val :
        h = call[t].h /\ tbl = call[t].tbl /\ key = call[t].k /\ val = call[t].v
  OBVIOUS
<1> DEFINE new == Stored(db[h][tbl], key, val)
           entry == [h |-> h, tbl |-> tbl, k |-> key, v |-> val]
<1>2. /\ pc[t] = "set" /\ db[h][tbl] # NoTable
      /\ db' = [db EXCEPT ![h][tbl] = new]
      /\ log' = Append(log, entry)
      /\ Return(t, Nil) /\ UNCHANGED <<opened, restarted>>
  BY <1>1 DEF umdb_mngr_store_set
<1>3. h \in Handles /\ tbl \in Tables /\ key \in Keys /\ val \in Values
  BY <1>1, <1>2 DEF IInv, Shape, CallOK
<1>4. /\ new # NoTable
      /\ DOMAIN new = DOMAIN db[h][tbl] \cup {Numeric[key]}
      /\ new[Numeric[key]] = Numeric[val]
      /\ \A x \in DOMAIN db[h][tbl] : x # Numeric[key] => new[x] = db[h][tbl][x]
      /\ DOMAIN new \subseteq {Numeric[x] : x \in Keys}
      /\ \A x \in DOMAIN new : new[x] \in {Numeric[y] : y \in Values}
  <2>1. /\ DOMAIN db[h][tbl] \subseteq {Numeric[x] : x \in Keys}
        /\ \A x \in DOMAIN db[h][tbl] : db[h][tbl][x] \in {Numeric[y] : y \in Values}
    BY <1>2, <1>3 DEF IInv, TypeOK
  <2> QED BY <1>3, <2>1, StoredRows
<1>5. entry \in Entry /\ entry.h = h /\ entry.tbl = tbl /\ entry.k = key /\ entry.v = val
  BY <1>3 DEF Entry
<1> HIDE DEF new, entry
<1>6. /\ db' = [g \in Handles |-> [u \in Tables |-> db'[g][u]]]
      /\ db'[h][tbl] = new
      /\ \A g \in Handles, u \in Tables : g # h \/ u # tbl => db'[g][u] = db[g][u]
  <2>1. Shape /\ Written(h, tbl, new)
    BY <1>2 DEF IInv, Written
  <2> QED BY <1>3, <2>1, TableWritten
<1>7. /\ log \in Seq(Entry) /\ log' \in Seq(Entry) /\ Len(log') = Len(log) + 1 /\ Len(log) \in Nat
      /\ DOMAIN log = 1..Len(log) /\ DOMAIN log' = 1..(Len(log) + 1)
      /\ \A n \in DOMAIN log : log'[n] = log[n]
      /\ log'[Len(log) + 1] = entry
      /\ restarted \in 0..Len(log)
  BY <1>2, <1>5 DEF IInv, Shape
<1>8. /\ pc' \in [Threads -> {"idle", "init", "set", "get"}]
      /\ \A u \in Threads : pc'[u] = "idle" <=> call'[u] = NoCall
      /\ got' \in [Threads -> Values \cup {Nil}]
      /\ call' = [u \in Threads |-> call'[u]]
      /\ \A u \in Threads : pc'[u] # "idle" => CallOK(u)'
  BY <1>2, Returned DEF IInv
<1>9. TypeOK'
  <2>1. h \in opened
    BY <1>2, <1>3 DEF IInv, TypeOK
  <2>2. \A g \in Handles, u \in Tables : db'[g][u] # NoTable =>
          /\ g \in opened
          /\ DOMAIN db'[g][u] \subseteq {Numeric[k] : k \in Keys}
          /\ \A k \in DOMAIN db'[g][u] : db'[g][u][k] \in {Numeric[v] : v \in Values}
    <3> SUFFICES ASSUME NEW g \in Handles, NEW u \in Tables, db'[g][u] # NoTable
                 PROVE  /\ g \in opened
                        /\ DOMAIN db'[g][u] \subseteq {Numeric[k] : k \in Keys}
                        /\ \A k \in DOMAIN db'[g][u] : db'[g][u][k] \in {Numeric[v] : v \in Values}
      OBVIOUS
    <3>1. CASE g = h /\ u = tbl
      BY <1>4, <1>6, <2>1, <3>1
    <3>2. CASE g # h \/ u # tbl
      BY <1>6, <3>2 DEF IInv, TypeOK
    <3> QED BY <3>1, <3>2
  <2> QED BY <1>2, <1>8, <2>2 DEF IInv, TypeOK
<1>10. Shape'
  <2>1. restarted' \in 0..Len(log')
    BY <1>2, <1>7
  <2> QED BY <1>6, <1>7, <1>8, <2>1 DEF Shape
<1>11. Rows'
  <2> SUFFICES ASSUME NEW g \in Handles, NEW u \in Tables, NEW k \in Keys
               PROVE  HoldsLast(g, u, k)'
    BY DEF Rows
  <2> PICK last \in Nat : last = Len(log) + 1
    BY <1>7
  <2> DEFINE Hit == g = h /\ u = tbl /\ Numeric[k] = Numeric[key]
  <2>1. HoldsLast(g, u, k)
    BY DEF IInv, Rows
  <2>2. \A n \in DOMAIN log : n \in SetsOf(g, u, k)' <=> n \in SetsOf(g, u, k)
    BY <1>2, <1>7 DEF SetsOf
  <2>3. last \in DOMAIN log' /\ (last \in SetsOf(g, u, k)' <=> Hit)
    <3>1. last \in DOMAIN log' /\ log'[last] = entry /\ last > restarted'
      BY <1>2, <1>7
    <3> QED BY <1>5, <3>1 DEF SetsOf
  <2>4. \A n \in SetsOf(g, u, k)' : n \in DOMAIN log \/ n = last
    BY <1>7 DEF SetsOf
  <2>5. CASE Hit
    <3>1. IsLast(last, g, u, k)'
      <4>1. \A m \in SetsOf(g, u, k)' : m <= last
        BY <1>7, <2>4
      <4> QED BY <2>3, <2>5, <4>1 DEF IsLast
    <3>2. /\ db'[g][u] # NoTable /\ Numeric[k] \in DOMAIN db'[g][u]
          /\ db'[g][u][Numeric[k]] = Numeric[log'[last].v]
      BY <1>4, <1>5, <1>6, <1>7, <2>5
    <3> QED BY <3>1, <3>2 DEF HoldsLast
  <2>6. CASE ~Hit
    <3>1. SetsOf(g, u, k) \subseteq DOMAIN log
      BY DEF SetsOf
    <3>2. \A x : x \in SetsOf(g, u, k)' <=> x \in SetsOf(g, u, k)
      BY <2>2, <2>3, <2>4, <2>6, <3>1
    <3>3. SetsOf(g, u, k)' = SetsOf(g, u, k)
      BY <3>2, Zenon
    <3>4. \A n : IsLast(n, g, u, k)' = IsLast(n, g, u, k)
      BY <3>3 DEF IsLast
    <3>5. \A n : IsLast(n, g, u, k) => log'[n] = log[n]
      BY <1>7, <3>1 DEF IsLast
    <3>6. /\ db'[g][u] = NoTable <=> db[g][u] = NoTable
          /\ db[g][u] # NoTable =>
               /\ Numeric[k] \in DOMAIN db'[g][u] <=> Numeric[k] \in DOMAIN db[g][u]
               /\ Numeric[k] \in DOMAIN db[g][u] => db'[g][u][Numeric[k]] = db[g][u][Numeric[k]]
      <4>1. CASE g = h /\ u = tbl
        BY <1>2, <1>4, <1>6, <2>6, <4>1
      <4>2. CASE g # h \/ u # tbl
        BY <1>6, <4>2
      <4> QED BY <4>1, <4>2
    <3> QED BY <2>1, <3>3, <3>4, <3>5, <3>6 DEF HoldsLast
  <2> QED BY <2>5, <2>6
<1> QED BY <1>9, <1>10, <1>11 DEF IInv

\* What a read returns, from what the table holds.
LEMMA GetReads ==
  ASSUME IInv, NEW t \in Threads, umdb_mngr_store_get(t)
  PROVE  LET a == call[t]
             S == SetsOf(a.h, a.tbl, a.k)
             v == log[CHOOSE n \in S : \A m \in S : m <= n].v
         IN  /\ got'[t] = IF S = {} \/ v = Empty THEN Nil ELSE Numeric[v]
             /\ got'[t] \in Values \cup {Nil}
<1>1. PICK h, tbl, k : h = call[t].h /\ tbl = call[t].tbl /\ k = call[t].k
  OBVIOUS
<1> DEFINE S == SetsOf(h, tbl, k)
           last == CHOOSE n \in S : \A m \in S : m <= n
           rows == db[h][tbl]
<1>2. /\ pc[t] = "get" /\ rows # NoTable /\ got' = [got EXCEPT ![t] = Fetched(rows, k)]
  BY <1>1 DEF umdb_mngr_store_get, Return
<1>3. h \in Handles /\ tbl \in Tables /\ k \in Keys
  BY <1>1, <1>2 DEF IInv, Shape, CallOK
<1>4. got'[t] = Fetched(rows, k)
  BY <1>2 DEF IInv, TypeOK
<1>5. HoldsLast(h, tbl, k)
  BY <1>3 DEF IInv, Rows
<1>6. CASE S = {}
  <2>1. Fetched(rows, k) = Nil
    BY <1>2, <1>5, <1>6 DEF HoldsLast, IsLast, Fetched
  <2> QED BY <1>1, <1>4, <1>6, <2>1
<1>7. CASE S # {}
  <2>1. PICK n \in Nat :
          /\ IsLast(n, h, tbl, k) /\ Numeric[k] \in DOMAIN rows
          /\ rows[Numeric[k]] = Numeric[log[n].v]
    BY <1>5, <1>7 DEF HoldsLast
  <2>2. last = n
    <3>1. S \subseteq DOMAIN log /\ DOMAIN log \subseteq Nat
      BY DEF SetsOf, IInv, Shape
    <3>2. n \in S /\ \A m \in S : m <= n
      BY <2>1 DEF IsLast
    <3>3. last \in S /\ \A m \in S : m <= last
      BY <3>2
    <3> HIDE DEF last, S
    <3> QED BY <3>1, <3>2, <3>3
  <2>3. log[n].v \in Values
    <3>1. n \in DOMAIN log /\ log \in Seq(Entry)
      BY <2>1 DEF IsLast, SetsOf, IInv, Shape
    <3>2. log[n] \in Entry
      BY <3>1
    <3> QED BY <3>2 DEF Entry
  <2>4. /\ Numeric[log[n].v] = Empty <=> log[n].v = Empty
        /\ Numeric[log[n].v] \in Values
    BY <2>3, StoreAssumption DEF Texts
  <2>5. Fetched(rows, k) = IF log[n].v = Empty THEN Nil ELSE Numeric[log[n].v]
    BY <2>1, <2>4 DEF Fetched
  <2> HIDE DEF last
  <2>6. /\ got'[t] = IF S = {} \/ log[last].v = Empty THEN Nil ELSE Numeric[log[last].v]
        /\ got'[t] \in Values \cup {Nil}
    BY <1>4, <1>7, <2>2, <2>4, <2>5
  <2> QED BY <1>1, <2>6 DEF last
<1> QED BY <1>6, <1>7

\* A read, and a statement that fails, end the call and nothing else.
LEMMA ReturnStep ==
  ASSUME IInv, NEW t \in Threads, umdb_mngr_store_get(t) \/ Error(t)
  PROVE  IInv'
<1>1. UNCHANGED <<opened, db, log, restarted>>
  BY DEF umdb_mngr_store_get, Error
<1>2. PICK r : Return(t, r) /\ r \in Values \cup {Nil}
  <2>1. CASE Error(t)
    BY <2>1 DEF Error
  <2>2. CASE umdb_mngr_store_get(t)
    <3>1. PICK r : Return(t, r)
      BY <2>2 DEF umdb_mngr_store_get
    <3>2. r = got'[t]
      BY <3>1 DEF Return, IInv, TypeOK
    <3>3. got'[t] \in Values \cup {Nil}
      BY <2>2, GetReads
    <3> QED BY <3>1, <3>2, <3>3
  <2> QED BY <2>1, <2>2
<1>3. /\ pc' \in [Threads -> {"idle", "init", "set", "get"}]
      /\ \A u \in Threads : pc'[u] = "idle" <=> call'[u] = NoCall
      /\ got' \in [Threads -> Values \cup {Nil}]
      /\ call' = [u \in Threads |-> call'[u]]
      /\ \A u \in Threads : pc'[u] # "idle" => CallOK(u)'
  BY <1>2, Returned DEF IInv
<1>4. TypeOK' /\ Shape'
  BY <1>1, <1>3 DEF IInv, TypeOK, Shape
<1>5. Rows'
  BY <1>1, SameRows DEF IInv
<1> QED BY <1>4, <1>5 DEF IInv

\* What was set in memory does not count any more, and is not there any more.
LEMMA RestartStep ==
  ASSUME IInv, Restart
  PROVE  IInv'
<1>1. /\ UNCHANGED <<opened, log>> /\ restarted' = Len(log) /\ Len(log) \in Nat
      /\ pc' = [t \in Threads |-> "idle"] /\ call' = [t \in Threads |-> NoCall]
      /\ got' = [t \in Threads |-> Nil]
  BY DEF Restart, IInv, Shape
<1>2. /\ db' = [h \in Handles |-> [tbl \in Tables |-> db'[h][tbl]]]
      /\ \A tbl \in Tables : db'["perm"][tbl] = db["perm"][tbl] /\ db'["mem"][tbl] = NoTable
  <2>1. db' = [h \in Handles |-> IF h = "perm" THEN db[h] ELSE [tbl \in Tables |-> NoTable]]
    BY DEF Restart, Reopen
  <2>2. db["perm"] = [tbl \in Tables |-> db["perm"][tbl]]
    BY DEF IInv, Shape, Handles
  <2>3. /\ db'["perm"] = db["perm"] /\ db'["mem"] = [tbl \in Tables |-> NoTable]
        /\ db' = [h \in Handles |-> db'[h]]
    BY <2>1 DEF Handles
  <2>4. \A h \in Handles : db'[h] = [tbl \in Tables |-> db'[h][tbl]]
    BY <2>2, <2>3 DEF Handles
  <2> QED BY <2>3, <2>4
<1>3. TypeOK'
  <2>1. \A h \in Handles, tbl \in Tables : db'[h][tbl] # NoTable => db'[h][tbl] = db[h][tbl]
    BY <1>2 DEF Handles
  <2> QED BY <1>1, <2>1 DEF IInv, TypeOK
<1>4. Shape'
  BY <1>1, <1>2 DEF IInv, Shape
<1>5. Rows'
  <2> SUFFICES ASSUME NEW h \in Handles, NEW tbl \in Tables, NEW k \in Keys
               PROVE  HoldsLast(h, tbl, k)'
    BY DEF Rows
  <2>1. CASE h = "perm"
    <3>1. SetsOf(h, tbl, k)' = SetsOf(h, tbl, k)
      BY <1>1, <2>1 DEF SetsOf
    <3>2. HoldsLast(h, tbl, k)
      BY DEF IInv, Rows
    <3> QED BY <1>1, <1>2, <2>1, <3>1, <3>2 DEF HoldsLast, IsLast
  <2>2. CASE h = "mem"
    <3>1. \A n \in DOMAIN log' : ~(n > restarted')
      BY <1>1 DEF IInv, Shape
    <3>2. SetsOf(h, tbl, k)' = {}
      BY <2>2, <3>1 DEF SetsOf
    <3> QED BY <1>2, <2>2, <3>2 DEF HoldsLast
  <2> QED BY <2>1, <2>2 DEF Handles
<1> QED BY <1>3, <1>4, <1>5 DEF IInv

-----------------------------------------------------------------------------
LEMMA StoreInit == Init => IInv
<1> SUFFICES ASSUME Init PROVE IInv
  OBVIOUS
<1>1. \A h \in Handles, tbl \in Tables : db[h][tbl] = NoTable
  BY DEF Init
<1>2. TypeOK
  BY <1>1 DEF Init, TypeOK, Handles
<1>3. log \in Seq(Entry) /\ DOMAIN log = {} /\ restarted \in 0..Len(log)
  BY DEF Init
<1>4. Shape
  BY <1>3 DEF Init, Shape
<1>5. Rows
  BY <1>1, <1>3 DEF Rows, HoldsLast, SetsOf
<1> QED BY <1>2, <1>4, <1>5 DEF IInv

LEMMA StoreStep == IInv /\ [Next]_vars => IInv'
<1> SUFFICES ASSUME IInv, [Next]_vars PROVE IInv'
  OBVIOUS
<1>1. CASE Restart
  BY <1>1, RestartStep
<1>2. ASSUME NEW t \in Threads, Step(t) PROVE IInv'
  BY <1>2, InitStep, SetStep, ReturnStep DEF Step
<1>3. ASSUME NEW t \in Threads, NEW h \in Handles, NEW tbl \in Tables, NEW k \in Keys,
             \/ Call(t, "get", h, tbl, k, Nil)
             \/ \E v \in Values : Call(t, "set", h, tbl, k, v)
      PROVE  IInv'
  <2>1. CASE Call(t, "get", h, tbl, k, Nil)
    BY <2>1, CallStep
  <2>2. ASSUME NEW v \in Values, Call(t, "set", h, tbl, k, v) PROVE IInv'
    BY <2>2, CallStep
  <2> QED BY <1>3, <2>1, <2>2
<1>4. CASE UNCHANGED vars
  BY <1>4 DEF vars, IInv, TypeOK, Shape, CallOK, Rows, HoldsLast, IsLast, SetsOf
<1> QED BY <1>1, <1>2, <1>3, <1>4 DEF Next

LEMMA StoreInvariant == Spec => []IInv
BY StoreInit, StoreStep, PTL DEF Spec

\* Tables exist only on connections that are there, and hold only keys and
\* values as the columns' affinity leaves them, whatever calls interleave, fail
\* or are cut off by a restart.
THEOREM StoreTypeCorrect == Spec => []TypeOK
<1>1. IInv => TypeOK
  BY DEF IInv
<1> QED BY <1>1, StoreInvariant, PTL

\* umdb_mngr_store_get returns what was last set under the key, by any thread
\* and, in the file, in any run.
THEOREM GetReturnsLastSet == Spec => ReadsLastSet
<1>1. IInv /\ [Next]_vars =>
        [\A t \in Threads : pc[t] = "get" /\ umdb_mngr_store_get(t) =>
           LET a == call[t]
               S == SetsOf(a.h, a.tbl, a.k)
               v == log[CHOOSE n \in S : \A m \in S : m <= n].v
           IN  got'[t] = IF S = {} \/ v = Empty THEN Nil ELSE Numeric[v]]_vars
  BY GetReads
<1> QED BY <1>1, StoreInvariant, PTL DEF Spec, ReadsLastSet
=============================================================================
