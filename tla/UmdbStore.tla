------------------------------ MODULE UmdbStore ------------------------------
(***************************************************************************)
(* The key/value store of scripts: M.db_set and M.db_get (umlua_m.c) over  *)
(* tables of an SQLite data base (umdb.c).  All Lua states share two       *)
(* connections, one in memory and one to a file; SQLite serialises the     *)
(* statements, so that a statement is one step, but a call makes two of    *)
(* them and other threads come in between.  Any statement may fail.  A     *)
(* restart of the daemon empties the memory and keeps the file.            *)
(*                                                                         *)
(* Columns declared STRING have numeric affinity in SQLite: a text that    *)
(* looks like a number is stored, compared and read back as the number.    *)
(* The constant Numeric is this conversion; texts are model values.        *)
(***************************************************************************)
EXTENDS Naturals, Sequences, FiniteSets

CONSTANTS
  Threads, Tables, Keys, Values,
  Numeric,      \* Numeric[x]: x after conversion to a number and back
  Empty,        \* the empty text
  Nil, NoTable,
  MaxSets       \* bound on calls of db_set

Texts == Keys \cup Values
Handles == {"mem", "perm"}

ASSUME StoreAssumption ==
  /\ Numeric \in [Texts -> Texts]
  /\ \A x \in Texts : Numeric[Numeric[x]] = Numeric[x]
  /\ Empty \in Values /\ Nil \notin Texts
  /\ \A x \in Texts : Numeric[x] = Empty <=> x = Empty        \* no number is the empty text
  /\ \A D \in SUBSET Keys : NoTable \notin [D -> Values]
  /\ \A k \in Keys : Numeric[k] \in Keys
  /\ \A v \in Values : Numeric[v] \in Values
  /\ MaxSets \in Nat

VARIABLES
  opened,   \* connections that are there: none without a configuration, perm only if
            \* the configuration has a "db" that can be opened
  db,       \* db[h][tbl]: the rows of a table, by key, or NoTable
  pc, call, \* where each thread is and what it was called with
  got,      \* what each thread's last db_get returned
  log,      \* history: completed sets, oldest first
  restarted \* history: how many of them were before the last restart

vars == <<opened, db, pc, call, got, log, restarted>>

NoCall == <<>>

Init ==
  /\ opened \in {{}, {"mem"}, Handles}
  /\ db = [h \in Handles |-> [tbl \in Tables |-> NoTable]]
  /\ pc = [t \in Threads |-> "idle"] /\ call = [t \in Threads |-> NoCall]
  /\ got = [t \in Threads |-> Nil]
  /\ log = <<>> /\ restarted = 0

\* the call ends; a script that gets nothing sees nil
Return(t, r) ==
  /\ pc' = [pc EXCEPT ![t] = "idle"]
  /\ call' = [call EXCEPT ![t] = NoCall]
  /\ got' = [got EXCEPT ![t] = r]

Sets == Len(log) + Cardinality({t \in Threads : pc[t] # "idle" /\ call[t].op = "set"})

\* M.db_set and M.db_get with arguments of the right type; the flag selects the
\* connection
Call(t, op, h, tbl, k, v) ==
  /\ pc[t] = "idle" /\ (op = "set" => Sets < MaxSets)
  /\ pc' = [pc EXCEPT ![t] = "init"]
  /\ call' = [call EXCEPT ![t] = [op |-> op, h |-> h, tbl |-> tbl, k |-> k, v |-> v]]
  /\ UNCHANGED <<opened, db, got, log, restarted>>

\* Fault: umdb_mngr_store_init without a connection.
InitUnchecked(t) ==
  LET a == call[t] IN
  /\ pc[t] = "init"
  /\ db' = [db EXCEPT ![a.h][a.tbl] = [k \in {} |-> Nil]]
  /\ pc' = [pc EXCEPT ![t] = a.op]
  /\ UNCHANGED <<opened, call, got, log, restarted>>

\* umdb_mngr_store_init: CREATE TABLE IF NOT EXISTS
umdb_mngr_store_init(t) ==
  LET a == call[t] IN
  /\ pc[t] = "init" /\ a.h \in opened
  /\ db' = IF db[a.h][a.tbl] = NoTable
           THEN [db EXCEPT ![a.h][a.tbl] = [k \in {} |-> Nil]] ELSE db
  /\ pc' = [pc EXCEPT ![t] = a.op]
  /\ UNCHANGED <<opened, call, got, log, restarted>>

\* Fault: INSERT OR IGNORE.
StoredFirst(rows, k, v) ==
  [x \in DOMAIN rows \cup {Numeric[k]} |->
     IF x \in DOMAIN rows THEN rows[x] ELSE Numeric[v]]

\* INSERT ... ON CONFLICT(k) DO UPDATE
Stored(rows, k, v) ==
  [x \in DOMAIN rows \cup {Numeric[k]} |-> IF x = Numeric[k] THEN Numeric[v] ELSE rows[x]]

umdb_mngr_store_set(t) ==
  LET a == call[t] IN
  /\ pc[t] = "set" /\ db[a.h][a.tbl] # NoTable
  /\ db' = [db EXCEPT ![a.h][a.tbl] = Stored(@, a.k, a.v)]
  /\ log' = Append(log, [h |-> a.h, tbl |-> a.tbl, k |-> a.k, v |-> a.v])
  /\ Return(t, Nil)
  /\ UNCHANGED <<opened, restarted>>

\* SELECT v ... WHERE k; an empty value counts as none
Fetched(rows, k) ==
  IF Numeric[k] \notin DOMAIN rows \/ rows[Numeric[k]] = Empty THEN Nil ELSE rows[Numeric[k]]

umdb_mngr_store_get(t) ==
  LET a == call[t] IN
  /\ pc[t] = "get" /\ db[a.h][a.tbl] # NoTable
  /\ Return(t, Fetched(db[a.h][a.tbl], a.k))
  /\ UNCHANGED <<opened, db, log, restarted>>

\* No connection, or a statement that cannot be prepared or fails: the call
\* returns and the script is not told.
Error(t) ==
  /\ pc[t] # "idle"
  /\ Return(t, Nil)
  /\ UNCHANGED <<opened, db, log, restarted>>

\* what the connections of the next run find
Reopen == [h \in Handles |-> IF h = "perm" THEN db[h] ELSE [tbl \in Tables |-> NoTable]]

\* The daemon stops, at any point, and is started again.
Restart ==
  /\ db' = Reopen
  /\ pc' = [t \in Threads |-> "idle"] /\ call' = [t \in Threads |-> NoCall]
  /\ got' = [t \in Threads |-> Nil]
  /\ restarted' = Len(log)
  /\ UNCHANGED <<opened, log>>

Step(t) ==
  umdb_mngr_store_init(t) \/ umdb_mngr_store_set(t) \/ umdb_mngr_store_get(t) \/ Error(t)

Next ==
  \/ Restart
  \/ \E t \in Threads :
       \/ Step(t)
       \/ \E h \in Handles, tbl \in Tables, k \in Keys :
            \/ Call(t, "get", h, tbl, k, Nil)
            \/ \E v \in Values : Call(t, "set", h, tbl, k, v)

Spec == Init /\ [][Next]_vars

-----------------------------------------------------------------------------
(* Properties.                                                             *)

TypeOK ==
  /\ opened \subseteq Handles
  /\ \A h \in Handles, tbl \in Tables : db[h][tbl] # NoTable =>
       /\ h \in opened
       /\ DOMAIN db[h][tbl] \subseteq {Numeric[k] : k \in Keys}
       /\ \A k \in DOMAIN db[h][tbl] : db[h][tbl][k] \in {Numeric[v] : v \in Values}
  /\ pc \in [Threads -> {"idle", "init", "set", "get"}]
  /\ \A t \in Threads : pc[t] = "idle" <=> call[t] = NoCall
  /\ got \in [Threads -> Values \cup {Nil}]

\* The places in the log that a read of k in this table of h can mean: in
\* memory only those of this run of the daemon.
SetsOf(h, tbl, k) ==
  {n \in DOMAIN log : /\ log[n].h = h /\ log[n].tbl = tbl /\ Numeric[log[n].k] = Numeric[k]
                      /\ h = "perm" \/ n > restarted}

\* A read that finds something returns the value last written under the key,
\* by whatever thread and, in the file, in whatever run of the daemon; it is the
\* text that was written unless that looks like a number, and keys that are
\* equal as numbers are one key.  A read finds nothing only where nothing or an
\* empty text was written last, or when a statement fails.
ReadsLastSet ==
  [][\A t \in Threads : pc[t] = "get" /\ umdb_mngr_store_get(t) =>
       LET a == call[t]
           S == SetsOf(a.h, a.tbl, a.k)
           v == log[CHOOSE n \in S : \A m \in S : m <= n].v
       IN  got'[t] = IF S = {} \/ v = Empty THEN Nil ELSE Numeric[v]]_vars
=============================================================================
