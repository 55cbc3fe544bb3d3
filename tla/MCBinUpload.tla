----------------------------- MODULE MCBinUpload -----------------------------
(***************************************************************************)
(* Two uploads of one or three units, written in chunks of at most two,    *)
(* with payloads that end short of, at and past the announced size, and a  *)
(* clock that passes the limit.                                            *)
(***************************************************************************)
EXTENDS BinUpload

MCSizes == {0, 1, 3}
MCPayloads == 0..4
MCChunk == 2
MCTimeout == 1
MCMaxTime == 3
=============================================================================
