----------------------------- MODULE MCCounters -----------------------------
(***************************************************************************)
(* Counters with two threads, a short name and a name too long for the     *)
(* buffer; uint64_t has two bits.                                          *)
(***************************************************************************)
EXTENDS Counters, TLC

CONSTANTS short, long, cut

MCIds == {short, long}
MCTrunc == (short :> short) @@ (long :> cut)
MCInts == {-1, 1, 2}
=============================================================================
