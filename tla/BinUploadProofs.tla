--------------------------- MODULE BinUploadProofs ---------------------------
(***************************************************************************)
(* The invariants of BinUpload for any uuids, announced sizes, payloads,   *)
(* chunk size and time limit, with crashes at any step.                    *)
(***************************************************************************)
EXTENDS BinUpload, TLAPS

\* The receive thread is writing to the file of u.
Writing(u) == rx_pc \in {"chunk", "close"} /\ f = u

\* What mqtt_handle_bin knows of the upload it works on: its descriptor is in
\* the table until it is complete, the running count fsz is never less than the
\* file's length, and a chunk is part of the payload.
Handling ==
  /\ rx_pc \in {"open", "chunk", "close"} => f \in bin_uploads
  /\ rx_pc = "chunk" => tmp[f] \in 0..fsz /\ fsz <= size[f] /\ chunk <= sz
  /\ rx_pc = "close" => tmp[f] \in 0..size[f]
  /\ rx_pc = "rename" => tmp[f] = size[f] /\ f \notin bin_uploads /\ f \in issued

\* An upload in the table that is not being written to has room left.
RoomLeft ==
  \A u \in bin_uploads : size[u] > 0 /\ (~Writing(u) => tmp[u] < size[u])

\* Nothing is known of a uuid before it is handed out.
Fresh == \A u \in Uuids \ issued : tmp[u] = -1 /\ final[u] = -1

IInv ==
  /\ TypeOK /\ Handling /\ RoomLeft /\ Fresh
  /\ NeverOverflows /\ FinalIsComplete /\ NoOrphanTmp /\ StaleAreDropped
  /\ cleaned <= now

-----------------------------------------------------------------------------
\* A chunk is no longer than the rest of the payload, nor than the chunk before.
LEMMA ChunkBounds ==
  ASSUME NEW rest \in Nat, NEW limit \in Nat
  PROVE  Chunk(rest, limit) \in 0..limit /\ Chunk(rest, limit) <= rest
BY DEF Chunk

LEMMA UploadInit == Init => IInv
<1> SUFFICES ASSUME Init PROVE IInv
  OBVIOUS
<1> USE DEF Init
<1>1. TypeOK
  <2>1. tmp \in [Uuids -> Nat \cup {-1}] /\ final \in [Uuids -> Nat \cup {-1}]
    OBVIOUS
  <2>2. /\ size \in [Uuids -> Nat] /\ ts \in [Uuids -> 0..MaxTime]
        /\ now \in 0..MaxTime /\ cleaned \in 0..MaxTime /\ chunk \in 0..CHUNK
    BY BinAssumption
  <2> QED BY <2>1, <2>2 DEF TypeOK
<1>2. Handling /\ RoomLeft /\ Fresh /\ cleaned <= now
  BY DEF Handling, RoomLeft, Fresh
<1>3. NeverOverflows /\ FinalIsComplete /\ NoOrphanTmp /\ StaleAreDropped
  BY DEF NeverOverflows, FinalIsComplete, NoOrphanTmp, StaleAreDropped
<1> QED BY <1>1, <1>2, <1>3 DEF IInv

-----------------------------------------------------------------------------
(* One lemma per group of steps.                                           *)

\* CMD_MQTT_BINARY_UPLOAD
LEMMA AnnounceInv ==
  ASSUME IInv, NEW u \in Uuids, NEW n \in Sizes, Announce(u, n) PROVE IInv'
<1> USE BinAssumption DEF IInv, Announce, NewUpload, files, locals
<1>0. n \in Nat /\ n > 0
  OBVIOUS
<1>1. TypeOK'
  BY <1>0 DEF TypeOK
<1>2. f \in issued \/ rx_pc \notin {"open", "chunk", "close", "rename"}
  BY DEF TypeOK, Handling
<1>3. Handling'
  BY <1>2 DEF TypeOK, Handling
<1>4. RoomLeft'
  BY <1>0 DEF TypeOK, RoomLeft, Writing, Fresh
<1>5. Fresh' /\ NoOrphanTmp' /\ cleaned' <= now'
  BY DEF TypeOK, Fresh, NoOrphanTmp
<1>6. NeverOverflows'
  BY <1>0, <1>2 DEF TypeOK, NeverOverflows, Fresh
<1>7. FinalIsComplete'
  BY DEF TypeOK, FinalIsComplete, Fresh
<1>8. StaleAreDropped'
  BY DEF TypeOK, StaleAreDropped
<1> QED BY <1>1, <1>3, <1>4, <1>5, <1>6, <1>7, <1>8

\* A message arrives and its file is opened.
LEMMA OpenInv ==
  ASSUME IInv,
         \/ \E u \in Uuids, n \in Payloads : Receive(u, n)
         \/ ReceiveOther \/ Open \/ OpenError
  PROVE  IInv'
<1> USE BinAssumption DEF IInv, files, locals
<1>1. ASSUME NEW u \in Uuids, NEW n \in Payloads, Receive(u, n) PROVE IInv'
  <2> USE <1>1 DEF Receive
  <2>1. TypeOK' /\ Handling' /\ Fresh' /\ FinalIsComplete' /\ NoOrphanTmp'
        /\ StaleAreDropped' /\ cleaned' <= now'
    BY DEF TypeOK, Handling, Fresh, FinalIsComplete, NoOrphanTmp, StaleAreDropped
  <2>2. RoomLeft' /\ NeverOverflows'
    BY DEF TypeOK, RoomLeft, Writing, NeverOverflows
  <2> QED BY <2>1, <2>2
<1>2. CASE ReceiveOther \/ OpenError
  <2> USE <1>2 DEF ReceiveOther, OpenError
  <2>1. TypeOK' /\ Handling' /\ Fresh' /\ FinalIsComplete' /\ NoOrphanTmp'
        /\ StaleAreDropped' /\ cleaned' <= now'
    BY DEF TypeOK, Handling, Fresh, FinalIsComplete, NoOrphanTmp, StaleAreDropped
  <2>2. RoomLeft' /\ NeverOverflows'
    BY DEF TypeOK, RoomLeft, Writing, NeverOverflows
  <2> QED BY <2>1, <2>2
<1>3. CASE Open
  <2> USE <1>3 DEF Open
  <2>1. f \in bin_uploads /\ f \in Uuids /\ size[f] > 0 /\ tmp[f] < size[f] /\ final[f] = -1
    BY DEF TypeOK, Handling, RoomLeft, Writing, FinalIsComplete
  <2>2. Length(tmp[f]) \in Nat /\ Length(tmp[f]) < size[f] /\ size[f] \in Nat
    BY <2>1 DEF TypeOK, Length
  <2>3. rx_pc' = "chunk" /\ fsz' = Length(tmp[f]) /\ tmp' = [tmp EXCEPT ![f] = fsz']
    BY <2>2
  <2>4. chunk' \in 0..CHUNK /\ chunk' <= sz
    BY ChunkBounds DEF TypeOK
  <2>5. TypeOK'
    BY <2>1, <2>2, <2>3, <2>4 DEF TypeOK
  <2>6. Handling'
    BY <2>1, <2>2, <2>3, <2>4 DEF TypeOK, Handling
  <2>7. RoomLeft'
    BY <2>1, <2>2, <2>3 DEF TypeOK, RoomLeft, Writing
  <2>8. Fresh' /\ FinalIsComplete'
    BY <2>1, <2>3 DEF TypeOK, Fresh, FinalIsComplete
  <2>9. NeverOverflows'
    BY <2>1, <2>2, <2>3 DEF TypeOK, NeverOverflows
  <2>10. NoOrphanTmp' /\ StaleAreDropped' /\ cleaned' <= now'
    BY <2>1, <2>3 DEF TypeOK, NoOrphanTmp, StaleAreDropped
  <2> QED BY <2>5, <2>6, <2>7, <2>8, <2>9, <2>10
<1> QED BY <1>1, <1>2, <1>3

\* The write loop; a file that is complete is renamed.
LEMMA WriteInv ==
  ASSUME IInv,
         \/ \E w \in 0..CHUNK : WriteChunk(w)
         \/ WriteDone \/ Close \/ Rename \/ RenameError
  PROVE  IInv'
<1> USE BinAssumption DEF IInv, files, locals
<1>1. ASSUME NEW w \in 0..CHUNK, WriteChunk(w) PROVE IInv'
  <2> USE <1>1 DEF WriteChunk
  <2>1. /\ f \in bin_uploads /\ f \in Uuids /\ final[f] = -1
        /\ tmp[f] \in Nat /\ fsz \in Nat /\ size[f] \in Nat /\ chunk \in Nat /\ sz \in Nat /\ w \in Nat
        /\ tmp[f] <= fsz /\ chunk <= sz /\ fsz + chunk <= size[f] /\ w <= chunk
    BY DEF TypeOK, Handling, FinalIsComplete, Fits
  <2>2. tmp[f] + w \in Nat /\ tmp[f] + w <= fsz + chunk /\ sz - chunk \in Nat
    BY <2>1
  <2>3. chunk' \in 0..chunk /\ chunk' <= sz - chunk
    BY <2>1, <2>2, ChunkBounds
  <2>4. chunk' \in 0..CHUNK
    BY <2>1, <2>3 DEF TypeOK
  <2>5. TypeOK'
    BY <2>1, <2>2, <2>4 DEF TypeOK
  <2>6. Handling'
    BY <2>1, <2>2, <2>3 DEF TypeOK, Handling
  <2>7. RoomLeft' /\ Fresh' /\ FinalIsComplete'
    BY <2>1 DEF TypeOK, RoomLeft, Writing, Fresh, FinalIsComplete
  <2>8. NeverOverflows'
    BY <2>1, <2>2 DEF TypeOK, NeverOverflows
  <2>9. NoOrphanTmp' /\ StaleAreDropped' /\ cleaned' <= now'
    BY <2>1 DEF TypeOK, NoOrphanTmp, StaleAreDropped
  <2> QED BY <2>5, <2>6, <2>7, <2>8, <2>9
<1>2. CASE WriteDone
  <2> USE <1>2 DEF WriteDone
  <2>1. TypeOK' /\ Fresh' /\ FinalIsComplete' /\ NoOrphanTmp' /\ StaleAreDropped' /\ cleaned' <= now'
    BY DEF TypeOK, Fresh, FinalIsComplete, NoOrphanTmp, StaleAreDropped
  <2>2. Handling'
    BY DEF TypeOK, Handling
  <2>3. RoomLeft' /\ NeverOverflows'
    BY DEF TypeOK, RoomLeft, Writing, NeverOverflows
  <2> QED BY <2>1, <2>2, <2>3
<1>3. CASE Close
  <2> USE <1>3 DEF Close, Complete, Delete
  <2>1. f \in bin_uploads /\ f \in Uuids /\ f \in issued /\ tmp[f] \in 0..size[f]
    BY DEF TypeOK, Handling
  <2>2. TypeOK'
    BY DEF TypeOK
  <2>3. Handling' /\ Fresh' /\ FinalIsComplete' /\ cleaned' <= now'
    BY <2>1 DEF TypeOK, Handling, Fresh, FinalIsComplete
  <2>4. RoomLeft'
    BY <2>1 DEF TypeOK, RoomLeft, Writing
  <2>5. NeverOverflows' /\ NoOrphanTmp'
    BY DEF TypeOK, NeverOverflows, NoOrphanTmp
  <2>6. StaleAreDropped'
    BY <2>1 DEF TypeOK, StaleAreDropped
  <2> QED BY <2>2, <2>3, <2>4, <2>5, <2>6
<1>4. CASE Rename
  <2> USE <1>4 DEF Rename
  <2>1. f \notin bin_uploads /\ f \in Uuids /\ f \in issued /\ tmp[f] = size[f] /\ size[f] \in Nat
    BY DEF TypeOK, Handling
  <2>2. TypeOK'
    BY <2>1 DEF TypeOK
  <2>3. Handling' /\ Fresh' /\ FinalIsComplete' /\ cleaned' <= now'
    BY <2>1 DEF TypeOK, Handling, Fresh, FinalIsComplete
  <2>4. RoomLeft' /\ NoOrphanTmp' /\ StaleAreDropped'
    BY <2>1 DEF TypeOK, RoomLeft, Writing, NoOrphanTmp, StaleAreDropped
  <2>5. NeverOverflows'
    BY <2>1 DEF TypeOK, NeverOverflows
  <2> QED BY <2>2, <2>3, <2>4, <2>5
<1>5. CASE RenameError
  <2> USE <1>5 DEF RenameError
  <2>1. TypeOK' /\ Handling' /\ Fresh' /\ FinalIsComplete' /\ NoOrphanTmp'
        /\ StaleAreDropped' /\ cleaned' <= now'
    BY DEF TypeOK, Handling, Fresh, FinalIsComplete, NoOrphanTmp, StaleAreDropped
  <2>2. RoomLeft' /\ NeverOverflows'
    BY DEF TypeOK, RoomLeft, Writing, NeverOverflows
  <2> QED BY <2>1, <2>2
<1> QED BY <1>1, <1>2, <1>3, <1>4, <1>5

\* mqtt_bin_cleanup, alone or at the end, a crash, the clock.
LEMMA CleanupInv ==
  ASSUME IInv, Cleanup \/ Terminate \/ Restart \/ Tick PROVE IInv'
<1> USE BinAssumption DEF IInv, files, locals
<1>1. CASE Cleanup \/ Terminate
  <2> USE <1>1 DEF Cleanup, Terminate
  <2>0. rx_pc \in {"idle", "cleanup"} /\ rx_pc' = "idle" /\ cleaned' = now /\ UnlinkExpired
        /\ bin_uploads' = bin_uploads \ Expired /\ UNCHANGED <<size, ts, final, now, issued, lost, f, sz, chunk, fsz>>
    OBVIOUS
  <2>1. \A u \in Uuids : tmp'[u] = IF u \in Expired THEN -1 ELSE tmp[u]
    BY DEF UnlinkExpired
  <2>2. TypeOK'
    BY DEF TypeOK, UnlinkExpired
  <2>3. Handling' /\ cleaned' <= now'
    BY <2>0 DEF TypeOK, Handling
  <2>4. RoomLeft'
    BY <2>0, <2>1 DEF TypeOK, RoomLeft, Writing
  <2>5. Fresh' /\ FinalIsComplete' /\ NoOrphanTmp'
    BY <2>0, <2>1 DEF TypeOK, Fresh, FinalIsComplete, NoOrphanTmp
  <2>6. NeverOverflows'
    BY <2>0, <2>1 DEF TypeOK, NeverOverflows
  <2>7. StaleAreDropped'
    BY <2>0 DEF TypeOK, StaleAreDropped, Expired
  <2> QED BY <2>2, <2>3, <2>4, <2>5, <2>6, <2>7
<1>2. CASE Restart
  <2> USE <1>2 DEF Restart
  <2>1. TypeOK' /\ Handling' /\ RoomLeft' /\ Fresh' /\ FinalIsComplete' /\ StaleAreDropped'
        /\ cleaned' <= now'
    BY DEF TypeOK, Handling, RoomLeft, Fresh, FinalIsComplete, StaleAreDropped
  <2>2. NeverOverflows' /\ NoOrphanTmp'
    BY DEF TypeOK, NeverOverflows, NoOrphanTmp, Fresh
  <2> QED BY <2>1, <2>2
<1>3. CASE Tick
  <2> USE <1>3 DEF Tick
  <2>1. TypeOK' /\ Handling' /\ Fresh' /\ FinalIsComplete' /\ NoOrphanTmp'
        /\ StaleAreDropped' /\ cleaned' <= now'
    BY DEF TypeOK, Handling, Fresh, FinalIsComplete, NoOrphanTmp, StaleAreDropped
  <2>2. RoomLeft' /\ NeverOverflows'
    BY DEF TypeOK, RoomLeft, Writing, NeverOverflows
  <2> QED BY <2>1, <2>2
<1> QED BY <1>1, <1>2, <1>3

LEMMA UploadStep == IInv /\ [Next]_vars => IInv'
<1> SUFFICES ASSUME IInv, [Next]_vars PROVE IInv'
  OBVIOUS
<1>1. CASE Next
  BY <1>1, AnnounceInv, OpenInv, WriteInv, CleanupInv DEF Next
<1>2. CASE UNCHANGED vars
  BY <1>2 DEF vars, IInv, TypeOK, Handling, RoomLeft, Writing, Fresh, NeverOverflows,
     FinalIsComplete, NoOrphanTmp, StaleAreDropped
<1> QED BY <1>1, <1>2

LEMMA UploadInv == Spec => []IInv
BY UploadInit, UploadStep, PTL DEF Spec

-----------------------------------------------------------------------------
\* Descriptors, files and the local variables of mqtt_handle_bin keep their
\* types: in particular a chunk is never longer than CHUNK and the rest of a
\* payload never negative, for any sizes.
THEOREM UploadTypeCorrect == Spec => []TypeOK
<1>1. IInv => TypeOK
  BY DEF IInv
<1> QED BY <1>1, UploadInv, PTL

\* The size checks of mqtt_handle_bin hold a file within its announced size,
\* whatever arrives and however little the disk takes, and the exit that does
\* not close the file is never taken.
THEOREM SizeRespected == Spec => []NeverOverflows
<1>1. IInv => NeverOverflows
  BY DEF IInv
<1> QED BY <1>1, UploadInv, PTL

\* A file gets its final name only with all of its bytes, at whatever step the
\* process is killed.
THEOREM FinalComplete == Spec => []FinalIsComplete
<1>1. IInv => FinalIsComplete
  BY DEF IInv
<1> QED BY <1>1, UploadInv, PTL

\* mqtt_bin_cleanup can reach every partial file of this process.
THEOREM NoOrphans == Spec => []NoOrphanTmp
<1>1. IInv => NoOrphanTmp
  BY DEF IInv
<1> QED BY <1>1, UploadInv, PTL

\* After a binary message no upload is left that was silent for too long.
THEOREM StaleDropped == Spec => []StaleAreDropped
<1>1. IInv => StaleAreDropped
  BY DEF IInv
<1> QED BY <1>1, UploadInv, PTL

\* The descriptor of an upload goes only when the file is complete, was silent
\* for longer than the limit, or with the process.
THEOREM DroppedRightly == Spec => DroppedOnlyIfStaleOrDone
<1>1. IInv /\ [Next]_vars =>
        [\A u \in bin_uploads \ bin_uploads' :
           tmp[u] = size[u] \/ now - ts[u] > SIG_SEM_TIMEOUT \/ u \in lost']_vars
  <2> SUFFICES ASSUME IInv, Next, NEW u \in bin_uploads \ bin_uploads'
               PROVE  tmp[u] = size[u] \/ now - ts[u] > SIG_SEM_TIMEOUT \/ u \in lost'
    OBVIOUS
  <2>1. CASE Close
    BY <2>1 DEF Close, Complete, Delete
  <2>2. CASE Cleanup \/ Terminate
    BY <2>2 DEF Cleanup, Terminate, Expired
  <2>3. CASE Restart
    BY <2>3 DEF Restart, IInv, TypeOK
  <2>4. CASE bin_uploads \subseteq bin_uploads'
    BY <2>4
  <2>5. Close \/ Cleanup \/ Terminate \/ Restart \/ bin_uploads \subseteq bin_uploads'
    BY DEF Next, Announce, NewUpload, Receive, ReceiveOther, Open, OpenError, WriteChunk,
       WriteDone, Rename, RenameError, Tick
  <2> QED BY <2>1, <2>2, <2>3, <2>4, <2>5
<1> QED BY <1>1, UploadInv, PTL DEF Spec, DroppedOnlyIfStaleOrDone
=============================================================================
