----------------------------- MODULE BoundedFifo -----------------------------
(***************************************************************************)
(* What a user of include/spscq.h may rely on: a FIFO of at most Cap       *)
(* items, one producer and one consumer, whose two "try" operations may    *)
(* answer conservatively because each side only publishes its position     *)
(* every so often:                                                         *)
(*   - a push may be refused only while Guaranteed items or more are held; *)
(*   - a pop may report "empty" only while at most Lag items are held.     *)
(* SpscQueue implements this specification.                                *)
(***************************************************************************)
EXTENDS Naturals, Sequences

CONSTANTS Items,        \* what is queued (void * in the code)
          NoItem,       \* content of a variable that never received an item
          Cap,          \* the most items the queue ever holds
          Guaranteed,   \* a push that finds fewer items than this is accepted
          Lag           \* a pop that finds more items than this succeeds

VARIABLES queue,        \* accepted and not yet popped, oldest first
          push_rc,      \* result of the last push: 0 accepted, 1 refused
          pop_rc,       \* result of the last pop: 0 success, 1 empty
          popped        \* item handed out by the last successful pop

fifoVars == <<queue, push_rc, pop_rc, popped>>

FifoInit ==
  /\ queue = <<>>
  /\ push_rc = 0 /\ pop_rc = 1
  /\ popped = NoItem

Enqueue(item) ==
  /\ Len(queue) < Cap
  /\ queue' = Append(queue, item)
  /\ push_rc' = 0
  /\ UNCHANGED <<pop_rc, popped>>

Refuse ==
  /\ Len(queue) >= Guaranteed
  /\ push_rc' = 1
  /\ UNCHANGED <<queue, pop_rc, popped>>

Dequeue ==
  /\ queue # <<>>
  /\ popped' = Head(queue)
  /\ queue' = Tail(queue)
  /\ pop_rc' = 0
  /\ UNCHANGED push_rc

ReportEmpty ==
  /\ Len(queue) <= Lag
  /\ pop_rc' = 1
  /\ UNCHANGED <<queue, push_rc, popped>>

FifoNext ==
  \/ \E item \in Items : Enqueue(item)
  \/ Refuse
  \/ Dequeue
  \/ ReportEmpty

FifoSpec == FifoInit /\ [][FifoNext]_fifoVars
=============================================================================
