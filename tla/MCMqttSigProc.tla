---------------------------- MODULE MCMqttSigProc ----------------------------
(***************************************************************************)
(* MqttSigProc with three messages and a queue of two that may refuse a    *)
(* push from one held item on (the watermark's stale tail).                *)
(***************************************************************************)
EXTENDS MqttSigProc

CONSTANTS m1, m2, m3

MCMsgs == {m1, m2, m3}
MCCap == 2
MCGuaranteed == 1
MCLag == 0
=============================================================================
