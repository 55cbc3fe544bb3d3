----------------------------- MODULE MCSpscQueue -----------------------------
(***************************************************************************)
(* SpscQueue on a ring of three watermark blocks of two slots.             *)
(***************************************************************************)
EXTENDS SpscQueue

CONSTANTS i1, i2

MCItems == {i1, i2}
MCSlots == 6
MCWatermark == 2
=============================================================================
