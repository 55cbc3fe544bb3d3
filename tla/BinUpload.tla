------------------------------ MODULE BinUpload ------------------------------
(***************************************************************************)
(* plugins/mqtt: binary file uploads.  CMD_MQTT_BINARY_UPLOAD announces a  *)
(* file (mqtt_bin_upl_add) and hands out a uuid; messages on the topic     *)
(* mink.bin/<device>/<uuid>/upload append to <uuid>.tmp (mqtt_handle_bin), *)
(* which is renamed when it has the announced size; after each message     *)
(* uploads without traffic for SIG_SEM_TIMEOUT seconds are dropped         *)
(* (mqtt_bin_cleanup).                                                     *)
(*                                                                         *)
(* All messages are handled by the MQTT library's one receive thread, in   *)
(* steps here, so that announcements, the clock and a failing disk can     *)
(* come between them.  A file is its length.                               *)
(***************************************************************************)
EXTENDS Integers, FiniteSets

CONSTANTS Uuids,            \* uuids that uuid_generate may return
          Sizes,            \* file sizes that are announced
          Payloads,         \* payload lengths
          CHUNK,            \* 2097152: bytes per write
          SIG_SEM_TIMEOUT,  \* seconds an upload may pause
          MaxTime           \* bound on the clock

ASSUME BinAssumption ==
  /\ Sizes \subseteq Nat /\ Payloads \subseteq Nat
  /\ CHUNK \in Nat \ {0} /\ SIG_SEM_TIMEOUT \in Nat /\ MaxTime \in Nat

VARIABLES
  bin_uploads,   \* uuids with a descriptor in the table
  size, ts,      \* f->size and f->ts of each descriptor
  tmp,           \* length of <uuid>.tmp, -1 if there is none
  final,         \* length of <uuid>, -1 if there is none
  now,           \* time(NULL)
  issued,        \* uuids handed out so far
  rx_pc,         \* "idle", "open", "chunk", "close", "rename" or "cleanup"
  f,             \* the upload mqtt_handle_bin works on
  sz, chunk, fsz,  \* its local variables
  cleaned,       \* time of the last mqtt_bin_cleanup (history)
  down,          \* the plugin was terminated
  lost           \* uuids that earlier processes handed out (history)

vars == <<bin_uploads, size, ts, tmp, final, now, issued, rx_pc, f, sz, chunk, fsz, cleaned, down, lost>>
locals == <<f, sz, chunk, fsz>>
files == <<tmp, final>>

\* Fault: the chunk is the whole rest of the payload.
ChunkUncapped(rest, limit) == rest

\* the next chunk: no more than the rest of the payload
Chunk(rest, limit) == IF rest < limit THEN rest ELSE limit

Length(n) == IF n = -1 THEN 0 ELSE n

Init ==
  /\ bin_uploads = {} /\ issued = {}
  /\ size = [u \in Uuids |-> 0] /\ ts = [u \in Uuids |-> 0]
  /\ tmp = [u \in Uuids |-> -1] /\ final = [u \in Uuids |-> -1]
  /\ now = 0 /\ cleaned = 0
  /\ rx_pc = "idle" /\ f \in Uuids /\ sz = 0 /\ chunk = 0 /\ fsz = 0
  /\ down = FALSE /\ lost = {}

-----------------------------------------------------------------------------

\* mqtt_bin_upl_add, under bin_upl_mtx: a descriptor for a new uuid
NewUpload(u, n) ==
  /\ n # 0
  /\ bin_uploads' = bin_uploads \cup {u}
  /\ size' = [size EXCEPT ![u] = n] /\ ts' = [ts EXCEPT ![u] = now]

\* CMD_MQTT_BINARY_UPLOAD: the uuid of the new descriptor is handed out
Announce(u, n) ==
  /\ ~down /\ u \notin issued
  /\ NewUpload(u, n)
  /\ issued' = issued \cup {u}
  /\ UNCHANGED <<files, now, rx_pc, locals, cleaned, down, lost>>

\* mqtt_on_rx on mink.bin/<device>/<u>/upload, u being an upload in progress
Receive(u, n) ==
  /\ rx_pc = "idle" /\ ~down
  /\ u \in bin_uploads
  /\ f' = u /\ sz' = n
  /\ rx_pc' = "open"
  /\ UNCHANGED <<bin_uploads, size, ts, files, now, issued, chunk, fsz, cleaned, down, lost>>

\* a binary topic that is malformed, names no upload or another operation, or an
\* upload that the look-up misses: it takes no lock, and an announcement may be
\* extending the table
ReceiveOther ==
  /\ rx_pc = "idle" /\ ~down
  /\ rx_pc' = "cleanup"
  /\ UNCHANGED <<bin_uploads, size, ts, files, now, issued, locals, cleaned, down, lost>>

\* open(fp, O_APPEND | O_CREAT), then the file size check
Open ==
  /\ rx_pc = "open"
  /\ tmp' = [tmp EXCEPT ![f] = Length(@)]
  /\ fsz' = Length(tmp[f])
  /\ chunk' = Chunk(sz, CHUNK)
  /\ rx_pc' = IF fsz' >= size[f] THEN "cleanup" ELSE "chunk"
  /\ UNCHANGED <<bin_uploads, size, ts, final, now, issued, f, sz, cleaned, down, lost>>

\* open fails
OpenError ==
  /\ rx_pc = "open"
  /\ rx_pc' = "cleanup"
  /\ UNCHANGED <<bin_uploads, size, ts, files, now, issued, locals, cleaned, down, lost>>

\* Fault: the length is compared before the chunk is added to it.
FitsLate(n) == fsz < size[f]

\* overflow check: the file would not grow past the announced size
Fits(n) == fsz + n <= size[f]

\* One round of the write loop; write() may store less than it was given,
\* which nothing checks.
WriteChunk(w) ==
  /\ rx_pc = "chunk" /\ sz > 0 /\ w \in 0..chunk
  /\ Fits(chunk)
  /\ tmp' = [tmp EXCEPT ![f] = @ + w]
  /\ fsz' = fsz + chunk
  /\ sz' = sz - chunk
  /\ chunk' = Chunk(sz - chunk, chunk)
  /\ UNCHANGED <<bin_uploads, size, ts, final, now, issued, rx_pc, f, cleaned, down, lost>>

\* The loop ends, at the end of the payload or at an overflow.
WriteDone ==
  /\ rx_pc = "chunk" /\ (sz = 0 \/ ~Fits(chunk))
  /\ rx_pc' = "close"
  /\ UNCHANGED <<bin_uploads, size, ts, files, now, issued, locals, cleaned, down, lost>>

\* Fault: completion is decided by the bytes handed to write().
CompleteByCount == fsz = size[f]

\* f->size == fsz, with fsz read back from the file
Complete == tmp[f] = size[f]

\* mqtt_bin_upl_del
Delete(u) == bin_uploads' = bin_uploads \ {u}

\* f->ts = time(NULL) and, if complete, the descriptor goes
Close ==
  /\ rx_pc = "close"
  /\ ts' = [ts EXCEPT ![f] = now]
  /\ IF Complete
       THEN Delete(f) /\ rx_pc' = "rename"
       ELSE rx_pc' = "cleanup" /\ UNCHANGED bin_uploads
  /\ UNCHANGED <<size, files, now, issued, locals, cleaned, down, lost>>

\* rename(<uuid>.tmp, <uuid>)
Rename ==
  /\ rx_pc = "rename"
  /\ final' = [final EXCEPT ![f] = tmp[f]] /\ tmp' = [tmp EXCEPT ![f] = -1]
  /\ rx_pc' = "cleanup"
  /\ UNCHANGED <<bin_uploads, size, ts, now, issued, locals, cleaned, down, lost>>

\* rename fails, which nothing checks: the file keeps its temporary name
RenameError ==
  /\ rx_pc = "rename"
  /\ rx_pc' = "cleanup"
  /\ UNCHANGED <<bin_uploads, size, ts, files, now, issued, locals, cleaned, down, lost>>

\* Fault: now - f->ts >= SIG_SEM_TIMEOUT.
ExpiredEarly == {u \in bin_uploads : now - ts[u] >= SIG_SEM_TIMEOUT}

\* Fault: the limit is one second too long.
ExpiredLate == {u \in bin_uploads : now - ts[u] > SIG_SEM_TIMEOUT + 1}

\* now - f->ts > SIG_SEM_TIMEOUT
Expired == {u \in bin_uploads : now - ts[u] > SIG_SEM_TIMEOUT}

\* Fault: the descriptor goes, the file stays.
UnlinkForgotten == UNCHANGED tmp

\* unlink of each expired upload's .tmp
UnlinkExpired == tmp' = [u \in Uuids |-> IF u \in Expired THEN -1 ELSE tmp[u]]

\* mqtt_bin_cleanup, after every message on a binary topic
Cleanup ==
  /\ rx_pc = "cleanup"
  /\ bin_uploads' = bin_uploads \ Expired
  /\ UnlinkExpired
  /\ cleaned' = now
  /\ rx_pc' = "idle"
  /\ UNCHANGED <<size, ts, final, now, issued, locals, down, lost>>

\* term_phase_1 runs mqtt_bin_cleanup once more, with the client gone
Terminate ==
  /\ rx_pc = "idle" /\ ~down
  /\ bin_uploads' = bin_uploads \ Expired
  /\ UnlinkExpired
  /\ cleaned' = now
  /\ down' = TRUE
  /\ UNCHANGED <<size, ts, final, now, issued, rx_pc, locals, lost>>

\* The process is killed, at any of its steps, or had been terminated, and is
\* started again: the table is empty and nothing looks at the files.
Restart ==
  /\ bin_uploads' = {} /\ lost' = issued
  /\ rx_pc' = "idle" /\ down' = FALSE
  /\ UNCHANGED <<size, ts, files, now, issued, locals, cleaned>>

Tick ==
  /\ now < MaxTime /\ ~down
  /\ now' = now + 1
  /\ UNCHANGED <<bin_uploads, size, ts, files, issued, rx_pc, locals, cleaned, down, lost>>

Next ==
  \/ \E u \in Uuids, n \in Sizes : Announce(u, n)
  \/ \E u \in Uuids, n \in Payloads : Receive(u, n)
  \/ ReceiveOther
  \/ Open \/ OpenError
  \/ \E w \in 0..CHUNK : WriteChunk(w)
  \/ WriteDone \/ Close \/ Rename \/ RenameError
  \/ Cleanup \/ Terminate \/ Restart
  \/ Tick

Spec == Init /\ [][Next]_vars

-----------------------------------------------------------------------------

TypeOK ==
  /\ bin_uploads \subseteq issued /\ issued \subseteq Uuids
  /\ size \in [Uuids -> Nat] /\ ts \in [Uuids -> 0..MaxTime]
  /\ tmp \in [Uuids -> Nat \cup {-1}] /\ final \in [Uuids -> Nat \cup {-1}]
  /\ now \in 0..MaxTime /\ cleaned \in 0..MaxTime
  /\ rx_pc \in {"idle", "open", "chunk", "close", "rename", "cleanup"}
  /\ f \in Uuids /\ sz \in Nat /\ chunk \in 0..CHUNK /\ fsz \in Nat
  /\ down \in BOOLEAN /\ lost \subseteq issued

\* Whatever is sent, and however little of it the disk takes, a file does not
\* grow past the announced size; and one that is opened has room left, so that
\* the exit for a full file, which does not close the handle, is never taken ...
NeverOverflows ==
  \A u \in Uuids :
    /\ tmp[u] <= size[u]
    /\ rx_pc = "open" /\ f = u => tmp[u] < size[u]

\* ... and under its final name it has exactly that size, at whatever step the
\* process is killed.
FinalIsComplete ==
  \A u \in Uuids : final[u] # -1 =>
    final[u] = size[u] /\ tmp[u] = -1 /\ u \notin bin_uploads

\* Every partial temporary file belongs to a descriptor, which is what cleanup
\* goes by: the only temporary files that are left behind are complete ones whose
\* rename failed, and those of a process that ended before the upload did.
NoOrphanTmp ==
  \A u \in Uuids : tmp[u] # -1 => u \in bin_uploads \/ u \in lost \/ tmp[u] = size[u]

\* A message on any binary topic drops every upload that has been silent for
\* longer than the limit.
StaleAreDropped ==
  \A u \in bin_uploads : cleaned - ts[u] <= SIG_SEM_TIMEOUT

\* An upload is only dropped when it is complete or was silent for longer than
\* the limit, or the process ends.
DroppedOnlyIfStaleOrDone ==
  [][\A u \in bin_uploads \ bin_uploads' :
       tmp[u] = size[u] \/ now - ts[u] > SIG_SEM_TIMEOUT \/ u \in lost']_vars
=============================================================================
