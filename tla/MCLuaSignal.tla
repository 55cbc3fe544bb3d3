----------------------------- MODULE MCLuaSignal -----------------------------
(***************************************************************************)
(* LuaSignal with two threads and three signals: s1 raises s2 and the      *)
(* signal s3 whose script cannot be loaded, s2 needs authorization and     *)
(* raises itself.                                                          *)
(***************************************************************************)
EXTENDS LuaSignal, TLC

CONSTANTS s1, s2, s3, a1, a2

MCSignals == {s1, s2, s3}
MCArgs == {a1, a2}
MCCallGraph == (s1 :> {s2, s3}) @@ (s2 :> {s2}) @@ (s3 :> {})
MCMinAuth == (s1 :> 0) @@ (s2 :> 1) @@ (s3 :> 0)
MCBad == {s3}
=============================================================================
