----------------------------- MODULE MCUmdbStore -----------------------------
(***************************************************************************)
(* UmdbStore with two threads, two keys that are equal as numbers ("1" and *)
(* "01") and one that is none, a value that looks like a number and is     *)
(* changed ("007"), what it is changed into, and the empty one.            *)
(***************************************************************************)
EXTENDS UmdbStore

CONSTANTS t1, t2, tbl

MCNumeric == [x \in Texts |-> CASE x = "01" -> "1" [] x = "007" -> "7" [] OTHER -> x]
=============================================================================
