------------------------------ MODULE SpscQueue ------------------------------
(***************************************************************************)
(* include/spscq.h: the single-producer single-consumer ring that carries  *)
(* received MQTT messages from the network thread to the signal thread.    *)
(*                                                                         *)
(* One action per group of accesses to shared memory: a push reads the     *)
(* published tail, then stores the item, then possibly publishes head; a   *)
(* pop reads the published head, then loads the item, then possibly        *)
(* publishes tail.  shadow_head is only used by the producer, shadow_tail  *)
(* only by the consumer.  Stores become visible in program order (x86);    *)
(* SpscQueueWeak drops that assumption.                                    *)
(***************************************************************************)
EXTENDS Integers, Sequences

CONSTANTS Items,            \* the pointers that are queued
          NoItem,           \* what malloc left in a slot
          QSIZE,            \* number of slots
          QUEUE_WATERMARK   \* positions are published on its multiples

(***************************************************************************)
(* spscq_new raises the requested size to at least 256 and rounds size + 1 *)
(* up to a power of two, with a watermark of 256: the ring is made of      *)
(* whole watermark blocks, and of more than one (512 slots or more).       *)
(***************************************************************************)
ASSUME SizeAssumption ==
  /\ QSIZE \in Nat /\ QUEUE_WATERMARK \in Nat
  /\ QUEUE_WATERMARK >= 1
  /\ QSIZE > QUEUE_WATERMARK + 2
  /\ QSIZE % QUEUE_WATERMARK = 0

ASSUME ItemAssumption == NoItem \notin Items

VARIABLES
  shadow_head, head, tail, shadow_tail, items,   \* spsc_queue_t
  push_pc,    \* "idle", "store" or "publish": where the producer is
  item,       \* argument of the push in progress
  flush_item, \* argument of the push in progress
  push_rc,    \* what the last push returned
  pop_pc,     \* "idle", "load" or "publish": where the consumer is
  popped,     \* *item of the last successful pop
  pop_rc      \* what the last pop returned

producerVars == <<shadow_head, head, items, push_pc, item, flush_item, push_rc>>
consumerVars == <<shadow_tail, tail, pop_pc, popped, pop_rc>>
vars == <<shadow_head, head, items, push_pc, item, flush_item, push_rc,
          shadow_tail, tail, pop_pc, popped, pop_rc>>

Slot == 0..(QSIZE - 1)

\* (i + 1) & QUEUE_ITEMS_MASK
NextSlot(i) == IF i = QSIZE - 1 THEN 0 ELSE i + 1

\* Fault: the position is masked with QUEUE_ITEMS_MASK, one mark per lap.
MarkOncePerLap(i) == i = 0

\* (i & QUEUE_WATERMARK_MASK) == 0
Mark(i) == i % QUEUE_WATERMARK = 0

-----------------------------------------------------------------------------

\* Fault: the consumer starts one slot past the ring.
InitPastEnd ==
  /\ tail = QSIZE /\ shadow_tail = QSIZE
  /\ head = 0 /\ shadow_head = 0
  /\ items = [s \in Slot |-> NoItem]
  /\ push_pc = "idle" /\ item = NoItem /\ flush_item = 0 /\ push_rc = 0
  /\ pop_pc = "idle" /\ popped = NoItem /\ pop_rc = 1

\* spscq_new
Init ==
  /\ tail = QSIZE - 1 /\ shadow_tail = QSIZE - 1
  /\ head = 0 /\ shadow_head = 0
  /\ items = [s \in Slot |-> NoItem]
  /\ push_pc = "idle" /\ item = NoItem /\ flush_item = 0 /\ push_rc = 0
  /\ pop_pc = "idle" /\ popped = NoItem /\ pop_rc = 1

\* Fault: a push that does not look at tail.
PushBeginUnchecked(i, f) ==
  /\ push_pc = "idle"
  /\ push_pc' = "store"
  /\ item' = i /\ flush_item' = f
  /\ UNCHANGED <<shadow_head, head, items, push_rc>>
  /\ UNCHANGED consumerVars

\* spscq_push finds room behind the published tail
PushBegin(i, f) ==
  /\ push_pc = "idle"
  /\ tail # NextSlot(shadow_head)
  /\ push_pc' = "store"
  /\ item' = i /\ flush_item' = f
  /\ UNCHANGED <<shadow_head, head, items, push_rc>>
  /\ UNCHANGED consumerVars

\* spscq_push finds the ring full and returns 1
PushFull ==
  /\ push_pc = "idle"
  /\ tail = NextSlot(shadow_head)
  /\ push_rc' = 1
  /\ UNCHANGED <<shadow_head, head, items, push_pc, item, flush_item>>
  /\ UNCHANGED consumerVars

\* The item is stored; from here on the push returns 0.
PushStore ==
  /\ push_pc = "store"
  /\ items' = [items EXCEPT ![shadow_head] = item]
  /\ shadow_head' = NextSlot(shadow_head)
  /\ push_pc' = IF flush_item = 1 \/ Mark(NextSlot(shadow_head))
                  THEN "publish" ELSE "idle"
  /\ push_rc' = 0
  /\ UNCHANGED <<head, item, flush_item>>
  /\ UNCHANGED consumerVars

PushPublish ==
  /\ push_pc = "publish"
  /\ head' = shadow_head
  /\ push_pc' = "idle"
  /\ UNCHANGED <<shadow_head, items, item, flush_item, push_rc>>
  /\ UNCHANGED consumerVars

\* spscq_pop finds an item below the published head
PopBegin ==
  /\ pop_pc = "idle"
  /\ NextSlot(shadow_tail) # head
  /\ pop_pc' = "load"
  /\ UNCHANGED <<shadow_tail, tail, popped, pop_rc>>
  /\ UNCHANGED producerVars

\* spscq_pop finds nothing published and returns 1
PopEmpty ==
  /\ pop_pc = "idle"
  /\ NextSlot(shadow_tail) = head
  /\ pop_rc' = 1
  /\ UNCHANGED <<shadow_tail, tail, pop_pc, popped>>
  /\ UNCHANGED producerVars

\* Fault: the item is loaded from the slot consumed before.
PopLoadOldSlot ==
  /\ pop_pc = "load"
  /\ popped' = items[shadow_tail]
  /\ shadow_tail' = NextSlot(shadow_tail)
  /\ pop_pc' = IF Mark(NextSlot(shadow_tail)) THEN "publish" ELSE "idle"
  /\ pop_rc' = 0
  /\ UNCHANGED tail
  /\ UNCHANGED producerVars

\* The item is loaded; from here on the pop returns 0.
PopLoad ==
  /\ pop_pc = "load"
  /\ popped' = items[NextSlot(shadow_tail)]
  /\ shadow_tail' = NextSlot(shadow_tail)
  /\ pop_pc' = IF Mark(NextSlot(shadow_tail)) THEN "publish" ELSE "idle"
  /\ pop_rc' = 0
  /\ UNCHANGED tail
  /\ UNCHANGED producerVars

PopPublish ==
  /\ pop_pc = "publish"
  /\ tail' = shadow_tail
  /\ pop_pc' = "idle"
  /\ UNCHANGED <<shadow_tail, popped, pop_rc>>
  /\ UNCHANGED producerVars

Next ==
  \/ \E i \in Items, f \in {0, 1} : PushBegin(i, f)
  \/ PushFull
  \/ PushStore
  \/ PushPublish
  \/ PopBegin
  \/ PopEmpty
  \/ PopLoad
  \/ PopPublish

Spec == Init /\ [][Next]_vars

-----------------------------------------------------------------------------

\* How many slots one has to advance from a to reach b.
Dist(a, b) == IF a <= b THEN b - a ELSE b - a + QSIZE

\* Items accepted and not yet popped, published or not.
Unread == Dist(shadow_tail, shadow_head) - 1

TypeOK ==
  /\ shadow_head \in Slot /\ head \in Slot
  /\ shadow_tail \in Slot /\ tail \in Slot
  /\ items \in [Slot -> Items \cup {NoItem}]
  /\ push_pc \in {"idle", "store", "publish"}
  /\ item \in Items \cup {NoItem} /\ flush_item \in {0, 1} /\ push_rc \in {0, 1}
  /\ pop_pc \in {"idle", "load", "publish"}
  /\ popped \in Items \cup {NoItem} /\ pop_rc \in {0, 1}

(***************************************************************************)
(* The four positions keep their cyclic order                              *)
(*     tail <= shadow_tail < head <= shadow_head < tail + QSIZE            *)
(* and the checks made at the start of a push or a pop still hold when the *)
(* item is stored or loaded.                                               *)
(***************************************************************************)
RingOrder ==
  /\ Dist(tail, shadow_tail) < Dist(tail, head)
  /\ Dist(tail, head) <= Dist(tail, shadow_head)
  /\ push_pc = "store" => tail # NextSlot(shadow_head)
  /\ pop_pc = "load" => NextSlot(shadow_tail) # head

\* n slots ahead of i.
Ahead(i, n) == IF i + n >= QSIZE THEN i + n - QSIZE ELSE i + n

(***************************************************************************)
(* A position is published as soon as the private one reaches a mark: all  *)
(* the marks between a published position and the private one are the      *)
(* private one itself, with its publication still to come.                 *)
(***************************************************************************)
PublishesAtMarks(published, private, pc) ==
  \A n \in 1..Dist(published, private) :
    Mark(Ahead(published, n)) => n = Dist(published, private) /\ pc = "publish"

\* Slots between the two private positions hold items that were pushed.
UnreadAreItems ==
  /\ push_pc = "store" => item \in Items
  /\ \A s \in Slot :
       Dist(shadow_tail, s) \in 1..Unread => items[s] \in Items

\* The ring is sound at every point of a push and of a pop: this is what one
\* side may assume while the other is half-way through its own operation.
RingInv ==
  /\ RingOrder
  /\ PublishesAtMarks(tail, shadow_tail, pop_pc)
  /\ PublishesAtMarks(head, shadow_head, push_pc)
  /\ UnreadAreItems

(***************************************************************************)
(* Neither side withholds more than one watermark block: the producer sees *)
(* a tail at most QUEUE_WATERMARK pops old and the consumer a head at most *)
(* QUEUE_WATERMARK pushes old.                                             *)
(***************************************************************************)
PublicationLag ==
  /\ Dist(tail, shadow_tail) <= QUEUE_WATERMARK
  /\ Dist(head, shadow_head) <= QUEUE_WATERMARK

\* A slot is never stored to by the push and loaded by the pop at one time,
\* and the store never hits an item that is still unread: items[] itself is
\* accessed with no lock and no atomic operation.
NoSlotRace ==
  push_pc = "store" =>
    /\ pop_pc = "load" => shadow_head # NextSlot(shadow_tail)
    /\ Unread < QSIZE - 2

\* A consumer that has taken everything leaves the ring usable: with nothing
\* unread a push is accepted, although the producer may still see an old tail.
DrainedNotFull ==
  Unread = 0 => tail # NextSlot(shadow_head)

-----------------------------------------------------------------------------
(***************************************************************************)
(* Refinement: the unread slots, in ring order, are the abstract queue.    *)
(* With pop_pc = "publish" the consumer withholds a whole block, otherwise *)
(* less: a refused push has found at least QSIZE - 2 - QUEUE_WATERMARK     *)
(* items, and an empty pop at most QUEUE_WATERMARK unpublished ones.       *)
(***************************************************************************)
Contents == [n \in 1..Unread |-> items[Ahead(shadow_tail, n)]]

Fifo == INSTANCE BoundedFifo WITH
          queue <- Contents,
          Cap <- QSIZE - 2,
          Guaranteed <- QSIZE - 2 - QUEUE_WATERMARK,
          Lag <- QUEUE_WATERMARK

\* Every push and pop does what BoundedFifo allows: items come out once, in
\* the order in which they were accepted, and a refusal or an "empty" answer
\* is never further from the truth than one watermark block.
ImplementsFifo == Fifo!FifoSpec
=============================================================================
