------------------------------ MODULE MCAuthBan ------------------------------
(***************************************************************************)
(* AuthBan with two clients of one user: three wrong passwords within one  *)
(* time unit ban for one.  The clock is long enough for a window to        *)
(* restart, a ban, its end and a second round.                             *)
(***************************************************************************)
EXTENDS AuthBan, TLC

CONSTANTS u1, p1, p2, c1, c2

Symmetry == Permutations({p1, p2}) \cup Permutations({c1, c2})
=============================================================================
