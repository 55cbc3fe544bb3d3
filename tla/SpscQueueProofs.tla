--------------------------- MODULE SpscQueueProofs ---------------------------
(***************************************************************************)
(* SpscQueue for every ring size, watermark and set of items: type         *)
(* correctness, the order of the four positions, the bound on what either  *)
(* side withholds, and the implementation of BoundedFifo.                  *)
(***************************************************************************)
EXTENDS SpscQueue, SequenceTheorems, TLAPS

\* The marks are the multiples of the watermark.
LEMMA MarkMultiple ==
  ASSUME NEW i \in Nat
  PROVE  Mark(i) <=> \E k \in Nat : i = k * QUEUE_WATERMARK
<1>1. QUEUE_WATERMARK \in Nat /\ QUEUE_WATERMARK >= 1
  BY SizeAssumption
<1>2. ASSUME NEW k \in Nat PROVE (k * QUEUE_WATERMARK) % QUEUE_WATERMARK = 0
  BY <1>1
<1>3. /\ i \div QUEUE_WATERMARK \in Nat
      /\ i = (i \div QUEUE_WATERMARK) * QUEUE_WATERMARK + (i % QUEUE_WATERMARK)
  BY <1>1, SMT
<1>4. ASSUME Mark(i) PROVE \E k \in Nat : i = k * QUEUE_WATERMARK
  BY <1>1, <1>3, <1>4 DEF Mark
<1> QED BY <1>2, <1>4 DEF Mark

\* The marks go round the ring: one block after a mark comes the next one
\* (what makes spscq_push and spscq_pop publish in time).
LEMMA MarkStep ==
  ASSUME NEW i \in Slot, Mark(i)
  PROVE  Mark(Ahead(i, QUEUE_WATERMARK))
<1>1. /\ QUEUE_WATERMARK \in Nat /\ QUEUE_WATERMARK >= 1
      /\ QSIZE \in Nat /\ i \in Nat /\ i < QSIZE /\ Mark(QSIZE)
  BY SizeAssumption DEF Slot, Mark
<1>2. PICK k \in Nat : i = k * QUEUE_WATERMARK
  BY <1>1, MarkMultiple
<1>3. PICK b \in Nat : QSIZE = b * QUEUE_WATERMARK
  BY <1>1, MarkMultiple
<1>4. k < b
  <2>1. SUFFICES ASSUME k >= b PROVE FALSE
    BY <1>1
  <2>2. k * QUEUE_WATERMARK >= b * QUEUE_WATERMARK
    BY <2>1, <1>1
  <2> QED BY <2>2, <1>1, <1>2, <1>3
<1>5. (k + 1) * QUEUE_WATERMARK = i + QUEUE_WATERMARK
  BY <1>1, <1>2
<1>6. CASE k + 1 < b
  <2>1. (k + 1) * QUEUE_WATERMARK < b * QUEUE_WATERMARK
    BY <1>6, <1>1
  <2>2. Ahead(i, QUEUE_WATERMARK) = (k + 1) * QUEUE_WATERMARK
    BY <2>1, <1>1, <1>3, <1>5 DEF Ahead
  <2> QED BY <2>2, <1>1, MarkMultiple
<1>7. CASE k + 1 = b
  <2>1. Ahead(i, QUEUE_WATERMARK) = 0 * QUEUE_WATERMARK
    BY <1>7, <1>5, <1>3, <1>1 DEF Ahead
  <2> QED BY <2>1, <1>1, MarkMultiple
<1> QED BY <1>4, <1>6, <1>7

\* Any block of QUEUE_WATERMARK consecutive slots holds a mark.
LEMMA MarkAhead ==
  ASSUME NEW i \in Slot
  PROVE  \E n \in 1..QUEUE_WATERMARK : Mark(Ahead(i, n))
<1> DEFINE r == i % QUEUE_WATERMARK
           k == i \div QUEUE_WATERMARK
           n == QUEUE_WATERMARK - r
<1>1. QUEUE_WATERMARK \in Nat /\ QUEUE_WATERMARK >= 1 /\ QSIZE \in Nat /\ i \in Nat
  BY SizeAssumption DEF Slot
<1>2. /\ r \in Nat /\ r < QUEUE_WATERMARK /\ k \in Nat
      /\ i = k * QUEUE_WATERMARK + r
  BY <1>1, SMT
<1> HIDE DEF r, k
<1>3. n \in 1..QUEUE_WATERMARK
  BY <1>1, <1>2
<1>4. k * QUEUE_WATERMARK \in Slot
  BY <1>1, <1>2, k * QUEUE_WATERMARK \in Nat DEF Slot
<1>5. Mark(k * QUEUE_WATERMARK)
  BY <1>1, <1>2, <1>4, MarkMultiple DEF Slot
<1>6. Ahead(i, n) = Ahead(k * QUEUE_WATERMARK, QUEUE_WATERMARK)
  BY <1>1, <1>2, <1>4 DEF Ahead, Slot
<1> QED BY <1>3, <1>4, <1>5, <1>6, MarkStep

-----------------------------------------------------------------------------

\* Publishing at the marks bounds what is withheld by one block.
LEMMA LagBound ==
  ASSUME NEW a \in Slot, NEW b \in Slot, NEW pc, PublishesAtMarks(a, b, pc)
  PROVE  /\ Dist(a, b) <= QUEUE_WATERMARK
         /\ pc # "publish" => Dist(a, b) < QUEUE_WATERMARK
<1>1. QUEUE_WATERMARK \in Nat /\ QSIZE \in Nat /\ Dist(a, b) \in Nat
  BY SizeAssumption DEF Dist, Slot
<1>2. PICK n \in 1..QUEUE_WATERMARK : Mark(Ahead(a, n))
  BY MarkAhead
<1>3. CASE Dist(a, b) < QUEUE_WATERMARK
  BY <1>1, <1>3
<1>4. CASE Dist(a, b) >= QUEUE_WATERMARK
  <2>1. n \in 1..Dist(a, b)
    BY <1>1, <1>2, <1>4
  <2>2. n = Dist(a, b) /\ pc = "publish"
    BY <1>2, <2>1 DEF PublishesAtMarks
  <2> QED BY <1>1, <1>2, <1>4, <2>2
<1> QED BY <1>1, <1>3, <1>4

\* Advancing the private position by one slot keeps the publication rule.
LEMMA AdvancePrivate ==
  ASSUME NEW a \in Slot, NEW b \in Slot, NEW pc, NEW pcn,
         PublishesAtMarks(a, b, pc), pc # "publish",
         a # NextSlot(b),
         Mark(NextSlot(b)) => pcn = "publish"
  PROVE  PublishesAtMarks(a, NextSlot(b), pcn)
<1>1. QSIZE \in Nat /\ QSIZE > 2
  BY SizeAssumption
<1>2. /\ Dist(a, NextSlot(b)) = Dist(a, b) + 1
      /\ Dist(a, b) \in Nat
      /\ Ahead(a, Dist(a, b) + 1) = NextSlot(b)
  BY <1>1 DEF Dist, NextSlot, Slot, Ahead
<1>3. SUFFICES ASSUME NEW n \in 1..(Dist(a, b) + 1), Mark(Ahead(a, n))
               PROVE  n = Dist(a, b) + 1 /\ pcn = "publish"
  BY <1>2 DEF PublishesAtMarks
<1>4. n \notin 1..Dist(a, b)
  BY <1>3 DEF PublishesAtMarks
<1>5. n = Dist(a, b) + 1
  BY <1>2, <1>3, <1>4
<1> QED BY <1>2, <1>3, <1>5

-----------------------------------------------------------------------------

\* Every variable keeps its type through every step of a push or a pop.
THEOREM TypeCorrect == Spec => []TypeOK
<1>1. Init => TypeOK
  BY SizeAssumption DEF Init, TypeOK, Slot
<1>2. TypeOK /\ [Next]_vars => TypeOK'
  <2> SUFFICES ASSUME TypeOK, [Next]_vars PROVE TypeOK'
    OBVIOUS
  <2> USE DEF TypeOK
  <2>1. \A s \in Slot : NextSlot(s) \in Slot
    BY SizeAssumption DEF NextSlot, Slot
  <2>2. ASSUME NEW i \in Items, NEW f \in {0, 1}, PushBegin(i, f) PROVE TypeOK'
    BY <2>2 DEF PushBegin, consumerVars
  <2>3. CASE PushFull
    BY <2>3 DEF PushFull, consumerVars
  <2>4. CASE PushStore
    BY <2>4, <2>1 DEF PushStore, consumerVars
  <2>5. CASE PushPublish
    BY <2>5 DEF PushPublish, consumerVars
  <2>6. CASE PopBegin
    BY <2>6 DEF PopBegin, producerVars
  <2>7. CASE PopEmpty
    BY <2>7 DEF PopEmpty, producerVars
  <2>8. CASE PopLoad
    BY <2>8, <2>1 DEF PopLoad, producerVars
  <2>9. CASE PopPublish
    BY <2>9 DEF PopPublish, producerVars
  <2>10. CASE UNCHANGED vars
    BY <2>10 DEF vars
  <2> QED BY <2>2, <2>3, <2>4, <2>5, <2>6, <2>7, <2>8, <2>9, <2>10 DEF Next
<1> QED BY <1>1, <1>2, PTL DEF Spec

-----------------------------------------------------------------------------
(***************************************************************************)
(* RingInv is inductive given the types.  RingOrder alone is not enough:   *)
(* the bound on what is withheld (and with it DrainedNotFull) needs the    *)
(* position of the marks, and the refinement needs the slots' contents.    *)
(***************************************************************************)

\* The ring created by spscq_new satisfies the invariant.
LEMMA RingInit == Init => RingInv
<1> SUFFICES ASSUME Init PROVE RingInv
  OBVIOUS
<1> USE SizeAssumption DEF Init
<1>1. RingOrder
  BY DEF RingOrder, Dist, NextSlot
<1>2. PublishesAtMarks(tail, shadow_tail, pop_pc) /\ PublishesAtMarks(head, shadow_head, push_pc)
  BY DEF PublishesAtMarks, Dist
<1>3. UnreadAreItems
  <2>1. Unread = 0
    BY DEF Unread, Dist
  <2> QED BY <2>1 DEF UnreadAreItems
<1> QED BY <1>1, <1>2, <1>3 DEF RingInv

\* A step of the producer keeps the invariant.
LEMMA RingProducer ==
  ASSUME TypeOK, RingInv,
         (\E i \in Items, f \in {0, 1} : PushBegin(i, f))
           \/ PushFull \/ PushStore \/ PushPublish
  PROVE  RingInv'
<1> USE DEF TypeOK, RingInv
<1>0. QSIZE \in Nat /\ QSIZE > 2
  BY SizeAssumption
<1>1. ASSUME NEW i \in Items, NEW f \in {0, 1}, PushBegin(i, f) PROVE RingInv'
  <2> USE <1>1 DEF PushBegin, consumerVars
  <2>1. RingOrder'
    BY DEF RingOrder, Dist, NextSlot
  <2>2. PublishesAtMarks(tail, shadow_tail, pop_pc)'
    BY DEF PublishesAtMarks, Dist, Ahead
  <2>3. PublishesAtMarks(head, shadow_head, push_pc)'
    BY DEF PublishesAtMarks, Dist, Ahead
  <2>4. UnreadAreItems'
    BY DEF UnreadAreItems, Dist, Unread
  <2> QED BY <2>1, <2>2, <2>3, <2>4
<1>2. CASE PushFull
  <2> USE <1>2 DEF PushFull, consumerVars
  <2>1. RingOrder'
    BY DEF RingOrder, Dist, NextSlot
  <2>2. PublishesAtMarks(tail, shadow_tail, pop_pc)' /\ PublishesAtMarks(head, shadow_head, push_pc)'
    BY DEF PublishesAtMarks, Dist, Ahead
  <2>3. UnreadAreItems'
    BY DEF UnreadAreItems, Dist, Unread
  <2> QED BY <2>1, <2>2, <2>3
<1>3. CASE PushStore
  <2> USE <1>3 DEF PushStore, consumerVars
  <2>1. /\ tail # NextSlot(shadow_head)
        /\ head # NextSlot(shadow_head)
        /\ shadow_tail # NextSlot(shadow_head)
        /\ shadow_tail # shadow_head
    BY <1>0 DEF RingOrder, Dist, NextSlot, Slot
  <2>2. RingOrder'
    <3>1. (Dist(tail, shadow_tail) < Dist(tail, head))'
      BY DEF RingOrder, Dist
    <3>2. (Dist(tail, head) <= Dist(tail, shadow_head))'
      BY <1>0, <2>1 DEF RingOrder, Dist, NextSlot, Slot
    <3>3. (pop_pc = "load" => NextSlot(shadow_tail) # head)'
      BY DEF RingOrder, NextSlot
    <3> QED BY <3>1, <3>2, <3>3 DEF RingOrder
  <2>3. PublishesAtMarks(tail, shadow_tail, pop_pc)'
    BY DEF PublishesAtMarks, Dist, Ahead
  <2>4. PublishesAtMarks(head, shadow_head, push_pc)'
    <3>1. PublishesAtMarks(head, NextSlot(shadow_head), push_pc')
      BY <2>1, AdvancePrivate
    <3> QED BY <3>1 DEF PublishesAtMarks, Dist, Ahead
  <2>5. UnreadAreItems'
    <3>1. Unread' = Unread + 1 /\ Unread \in Int /\ Dist(shadow_tail, shadow_head) = Unread + 1
      BY <1>0, <2>1 DEF Unread, Dist, NextSlot, Slot
    <3>2. ASSUME NEW s \in Slot, Dist(shadow_tail, s) \in 1..(Unread + 1)
          PROVE  items'[s] \in Items
      <4>1. CASE s = shadow_head
        BY <4>1 DEF UnreadAreItems
      <4>2. CASE s # shadow_head
        <5>1. Dist(shadow_tail, s) # Dist(shadow_tail, shadow_head)
          BY <1>0, <4>2 DEF Dist, Slot
        <5>2. Dist(shadow_tail, s) \in 1..Unread
          BY <3>1, <3>2, <5>1
        <5> QED BY <4>2, <5>2 DEF UnreadAreItems
      <4> QED BY <4>1, <4>2
    <3> QED BY <3>1, <3>2 DEF UnreadAreItems, Dist
  <2> QED BY <2>2, <2>3, <2>4, <2>5
<1>4. CASE PushPublish
  <2> USE <1>4 DEF PushPublish, consumerVars
  <2>1. RingOrder'
    BY <1>0 DEF RingOrder, Dist, NextSlot, Slot
  <2>2. PublishesAtMarks(tail, shadow_tail, pop_pc)'
    BY DEF PublishesAtMarks, Dist, Ahead
  <2>3. PublishesAtMarks(head, shadow_head, push_pc)'
    BY <1>0 DEF PublishesAtMarks, Dist, Slot
  <2>4. UnreadAreItems'
    BY DEF UnreadAreItems, Dist, Unread
  <2> QED BY <2>1, <2>2, <2>3, <2>4
<1> QED BY <1>1, <1>2, <1>3, <1>4

\* A step of the consumer keeps the invariant.
LEMMA RingConsumer ==
  ASSUME TypeOK, RingInv,
         PopBegin \/ PopEmpty \/ PopLoad \/ PopPublish
  PROVE  RingInv'
<1> USE DEF TypeOK, RingInv
<1>0. QSIZE \in Nat /\ QSIZE > 2
  BY SizeAssumption
<1>1. CASE PopBegin
  <2> USE <1>1 DEF PopBegin, producerVars
  <2>1. RingOrder'
    BY DEF RingOrder, Dist, NextSlot
  <2>2. PublishesAtMarks(tail, shadow_tail, pop_pc)' /\ PublishesAtMarks(head, shadow_head, push_pc)'
    BY DEF PublishesAtMarks, Dist, Ahead
  <2>3. UnreadAreItems'
    BY DEF UnreadAreItems, Dist, Unread
  <2> QED BY <2>1, <2>2, <2>3
<1>2. CASE PopEmpty
  <2> USE <1>2 DEF PopEmpty, producerVars
  <2>1. RingOrder'
    BY DEF RingOrder, Dist, NextSlot
  <2>2. PublishesAtMarks(tail, shadow_tail, pop_pc)' /\ PublishesAtMarks(head, shadow_head, push_pc)'
    BY DEF PublishesAtMarks, Dist, Ahead
  <2>3. UnreadAreItems'
    BY DEF UnreadAreItems, Dist, Unread
  <2> QED BY <2>1, <2>2, <2>3
<1>3. CASE PopLoad
  <2> USE <1>3 DEF PopLoad, producerVars
  <2>1. /\ NextSlot(shadow_tail) # head
        /\ tail # NextSlot(shadow_tail)
        /\ NextSlot(shadow_tail) # shadow_head
    BY <1>0 DEF RingOrder, Dist, NextSlot, Slot
  <2>2. RingOrder'
    <3>1. (Dist(tail, shadow_tail) < Dist(tail, head))'
      BY <1>0, <2>1 DEF RingOrder, Dist, NextSlot, Slot
    <3>2. (Dist(tail, head) <= Dist(tail, shadow_head))'
      BY DEF RingOrder, Dist
    <3>3. (push_pc = "store" => tail # NextSlot(shadow_head))'
      BY DEF RingOrder, NextSlot
    <3> QED BY <3>1, <3>2, <3>3 DEF RingOrder
  <2>3. PublishesAtMarks(tail, shadow_tail, pop_pc)'
    <3>1. PublishesAtMarks(tail, NextSlot(shadow_tail), pop_pc')
      BY <2>1, AdvancePrivate
    <3> QED BY <3>1 DEF PublishesAtMarks, Dist, Ahead
  <2>4. PublishesAtMarks(head, shadow_head, push_pc)'
    BY DEF PublishesAtMarks, Dist, Ahead
  <2>5. UnreadAreItems'
    <3>1. Unread' = Unread - 1 /\ Unread \in Int
      BY <1>0, <2>1 DEF Unread, Dist, NextSlot, Slot, RingOrder
    <3>2. ASSUME NEW s \in Slot, Dist(NextSlot(shadow_tail), s) \in 1..(Unread - 1)
          PROVE  Dist(shadow_tail, s) \in 1..Unread
      BY <1>0, <2>1, <3>2 DEF Unread, Dist, NextSlot, Slot
    <3> QED BY <3>1, <3>2 DEF UnreadAreItems, Dist
  <2> QED BY <2>2, <2>3, <2>4, <2>5
<1>4. CASE PopPublish
  <2> USE <1>4 DEF PopPublish, producerVars
  <2>1. RingOrder'
    BY <1>0 DEF RingOrder, Dist, NextSlot, Slot
  <2>2. PublishesAtMarks(tail, shadow_tail, pop_pc)'
    BY <1>0 DEF PublishesAtMarks, Dist, Slot
  <2>3. PublishesAtMarks(head, shadow_head, push_pc)'
    BY DEF PublishesAtMarks, Dist, Ahead
  <2>4. UnreadAreItems'
    BY DEF UnreadAreItems, Dist, Unread
  <2> QED BY <2>1, <2>2, <2>3, <2>4
<1> QED BY <1>1, <1>2, <1>3, <1>4

\* The ring is sound at every point of every push and pop.
THEOREM RingSound == Spec => []RingInv
<1>1. TypeOK /\ RingInv /\ [Next]_vars => RingInv'
  <2> SUFFICES ASSUME TypeOK, RingInv, [Next]_vars PROVE RingInv'
    OBVIOUS
  <2>1. CASE UNCHANGED vars
    BY <2>1 DEF vars, RingInv, RingOrder, PublishesAtMarks, UnreadAreItems,
                Unread, Dist, Ahead, NextSlot
  <2> QED BY <2>1, RingProducer, RingConsumer DEF Next
<1> QED BY <1>1, RingInit, TypeCorrect, PTL DEF Spec

\* Neither side ever withholds more than QUEUE_WATERMARK positions.
THEOREM LagBounded == Spec => []PublicationLag
<1>1. TypeOK /\ RingInv => PublicationLag
  BY LagBound DEF TypeOK, RingInv, PublicationLag
<1> QED BY <1>1, TypeCorrect, RingSound, PTL

\* Push and pop never touch one slot at the same time.
THEOREM SlotRaceFree == Spec => []NoSlotRace
<1>1. TypeOK /\ RingInv => NoSlotRace
  BY SizeAssumption
     DEF TypeOK, RingInv, RingOrder, NoSlotRace, Unread, Dist, NextSlot, Slot
<1> QED BY <1>1, TypeCorrect, RingSound, PTL

\* A drained ring accepts a push, however old the tail its producer sees.
THEOREM DrainedAccepts == Spec => []DrainedNotFull
<1>1. TypeOK /\ RingInv => DrainedNotFull
  <2> SUFFICES ASSUME TypeOK, RingInv PROVE DrainedNotFull
    OBVIOUS
  <2>1. Dist(tail, shadow_tail) <= QUEUE_WATERMARK
    BY LagBound DEF TypeOK, RingInv
  <2> QED BY <2>1, SizeAssumption
             DEF TypeOK, DrainedNotFull, Unread, Dist, NextSlot, Slot
<1> QED BY <1>1, TypeCorrect, RingSound, PTL

-----------------------------------------------------------------------------
(***************************************************************************)
(* Implementation of BoundedFifo: storing the item is Enqueue, loading it  *)
(* is Dequeue, the two failing checks are Refuse and ReportEmpty, and all  *)
(* other steps leave the abstract queue alone.                             *)
(***************************************************************************)

\* The abstract queue is a sequence of pushed items as long as Unread.
LEMMA ContentsSeq ==
  ASSUME TypeOK, RingInv
  PROVE  /\ Unread \in 0..(QSIZE - 2)
         /\ Contents \in Seq(Items)
         /\ Len(Contents) = Unread
<1>1. QSIZE \in Nat /\ QSIZE > 2
  BY SizeAssumption
<1>2. Unread \in 0..(QSIZE - 2)
  BY <1>1 DEF TypeOK, RingInv, RingOrder, Unread, Dist, Slot
<1>3. ASSUME NEW n \in 1..Unread PROVE items[Ahead(shadow_tail, n)] \in Items
  <2>1. Ahead(shadow_tail, n) \in Slot /\ Dist(shadow_tail, Ahead(shadow_tail, n)) = n
    BY <1>1, <1>2 DEF TypeOK, Ahead, Dist, Slot
  <2> QED BY <2>1 DEF RingInv, UnreadAreItems
<1> QED BY <1>2, <1>3 DEF Contents

\* PushStore appends the item to the abstract queue.
LEMMA StoreAppends ==
  ASSUME TypeOK, RingInv, PushStore
  PROVE  Fifo!Enqueue(item)
<1> USE DEF TypeOK
<1>1. QSIZE \in Nat /\ QSIZE > 2
  BY SizeAssumption
<1>2. item \in Items
  BY DEF RingInv, UnreadAreItems, PushStore
<1>3. Unread' = Unread + 1 /\ Unread \in Nat /\ Unread < QSIZE - 2
  BY <1>1 DEF PushStore, consumerVars, RingInv, RingOrder, Unread, Dist, NextSlot, Slot
<1>4. Len(Contents) = Unread /\ Contents \in Seq(Items)
  BY ContentsSeq
<1>5. ASSUME NEW n \in 1..(Unread + 1)
      PROVE  items'[Ahead(shadow_tail, n)] =
               IF n = Unread + 1 THEN item ELSE items[Ahead(shadow_tail, n)]
  <2>1. /\ Ahead(shadow_tail, n) \in Slot
        /\ Ahead(shadow_tail, n) = shadow_head <=> n = Unread + 1
    BY <1>1, <1>3 DEF RingInv, RingOrder, Unread, Dist, Ahead, Slot
  <2> QED BY <2>1 DEF PushStore
<1>6. Contents' = [n \in 1..(Unread + 1) |-> items'[Ahead(shadow_tail, n)]]
  BY <1>3 DEF Contents, PushStore, consumerVars, Ahead
<1>7. ASSUME NEW n \in 1..Unread
      PROVE  Contents[n] = items[Ahead(shadow_tail, n)] /\ Contents[n] \in Items
  <2>1. Contents[n] = items[Ahead(shadow_tail, n)]
    BY DEF Contents
  <2>2. Contents[n] \in Items
    BY <1>4, ElementOfSeq
  <2> QED BY <2>1, <2>2
<1>8. Contents' = Append(Contents, item)
  <2>1. /\ Append(Contents, item) \in Seq(Items)
        /\ Len(Append(Contents, item)) = Unread + 1
        /\ \A n \in 1..Unread : Append(Contents, item)[n] = Contents[n]
        /\ Append(Contents, item)[Unread + 1] = item
    BY <1>2, <1>4, AppendProperties
  <2>2. ASSUME NEW n \in 1..(Unread + 1)
        PROVE  Contents'[n] \in Items /\ Contents'[n] = Append(Contents, item)[n]
    <3>1. CASE n = Unread + 1
      BY <3>1, <1>2, <1>5, <1>6, <2>1
    <3>2. CASE n \in 1..Unread
      <4>1. n # Unread + 1
        BY <3>2, <1>3
      <4>2. Contents'[n] = items[Ahead(shadow_tail, n)]
        BY <4>1, <1>5, <1>6
      <4> QED BY <3>2, <4>2, <1>7, <2>1
    <3>3. n = Unread + 1 \/ n \in 1..Unread
      BY <1>3
    <3> QED BY <3>1, <3>2, <3>3
  <2>3. Contents' \in Seq(Items) /\ Len(Contents') = Unread + 1
    BY <1>3, <1>6, <2>2
  <2> QED BY <2>1, <2>2, <2>3, SeqEqual
<1> QED BY <1>3, <1>4, <1>8 DEF Fifo!Enqueue, PushStore, consumerVars

\* PopLoad takes the oldest item of the abstract queue.
LEMMA LoadTakesHead ==
  ASSUME TypeOK, RingInv, PopLoad
  PROVE  Fifo!Dequeue
<1> USE DEF TypeOK
<1>1. QSIZE \in Nat /\ QSIZE > 2
  BY SizeAssumption
<1>2. Unread' = Unread - 1 /\ Unread \in Nat /\ Unread >= 1
  BY <1>1 DEF PopLoad, producerVars, RingInv, RingOrder, Unread, Dist, NextSlot, Slot
<1>3. Len(Contents) = Unread /\ Contents \in Seq(Items)
  BY ContentsSeq
<1>4. Contents # <<>>
  BY <1>2, <1>3
<1>5. Head(Contents) = items[NextSlot(shadow_tail)]
  <2>1. Head(Contents) = Contents[1] /\ 1 \in 1..Unread
    BY <1>2, <1>3, <1>4
  <2>2. Ahead(shadow_tail, 1) = NextSlot(shadow_tail)
    BY <1>1 DEF Ahead, NextSlot, Slot
  <2> QED BY <2>1, <2>2 DEF Contents
<1>6. ASSUME NEW n \in 1..(Unread - 1)
      PROVE  Ahead(shadow_tail', n) = Ahead(shadow_tail, n + 1)
  BY <1>1, <1>2 DEF PopLoad, Ahead, NextSlot, Slot, Unread, Dist
<1>7. Contents' = [n \in 1..(Unread - 1) |-> items[Ahead(shadow_tail', n)]]
  BY <1>2 DEF Contents, PopLoad, producerVars, Ahead
<1>8. ASSUME NEW n \in 1..(Unread - 1)
      PROVE  /\ Contents[n + 1] = items[Ahead(shadow_tail, n + 1)]
             /\ Contents[n + 1] \in Items
  <2>1. n + 1 \in 1..Unread
    BY <1>2
  <2>2. Contents[n + 1] = items[Ahead(shadow_tail, n + 1)]
    BY <2>1 DEF Contents
  <2>3. Contents[n + 1] \in Items
    BY <2>1, <1>3, ElementOfSeq
  <2> QED BY <2>2, <2>3
<1>9. Contents' = Tail(Contents)
  <2>1. /\ Tail(Contents) \in Seq(Items)
        /\ Len(Tail(Contents)) = Unread - 1
        /\ \A n \in 1..(Unread - 1) : Tail(Contents)[n] = Contents[n + 1]
    BY <1>3, <1>4, HeadTailProperties
  <2>2. ASSUME NEW n \in 1..(Unread - 1)
        PROVE  Contents'[n] \in Items /\ Contents'[n] = Tail(Contents)[n]
    BY <1>6, <1>7, <1>8, <2>1
  <2>3. Contents' \in Seq(Items) /\ Len(Contents') = Unread - 1
    BY <1>2, <1>7, <2>2
  <2> QED BY <2>1, <2>2, <2>3, SeqEqual
<1> QED BY <1>4, <1>5, <1>9 DEF Fifo!Dequeue, PopLoad, producerVars

\* A refused push found at least QSIZE - 2 - QUEUE_WATERMARK items.
LEMMA FullRefuses ==
  ASSUME TypeOK, RingInv, PushFull
  PROVE  Fifo!Refuse
<1>1. Dist(tail, shadow_tail) <= QUEUE_WATERMARK
  BY LagBound DEF TypeOK, RingInv
<1>2. Unread >= QSIZE - 2 - QUEUE_WATERMARK
  BY <1>1, SizeAssumption
     DEF TypeOK, RingInv, RingOrder, PushFull, Unread, Dist, NextSlot, Slot
<1>3. Len(Contents) = Unread
  BY ContentsSeq
<1>4. Contents' = Contents
  BY DEF PushFull, consumerVars, Contents, Unread, Dist, Ahead
<1> QED BY <1>2, <1>3, <1>4 DEF Fifo!Refuse, PushFull, consumerVars

\* A pop reports "empty" with at most QUEUE_WATERMARK items unpublished.
LEMMA EmptyReports ==
  ASSUME TypeOK, RingInv, PopEmpty
  PROVE  Fifo!ReportEmpty
<1>1. Dist(head, shadow_head) <= QUEUE_WATERMARK
  BY LagBound DEF TypeOK, RingInv
<1>2. Unread <= QUEUE_WATERMARK
  BY <1>1, SizeAssumption
     DEF TypeOK, RingInv, RingOrder, PopEmpty, Unread, Dist, NextSlot, Slot
<1>3. Len(Contents) = Unread
  BY ContentsSeq
<1>4. Contents' = Contents
  BY DEF PopEmpty, producerVars, Contents, Unread, Dist, Ahead
<1> QED BY <1>2, <1>3, <1>4 DEF Fifo!ReportEmpty, PopEmpty, producerVars

\* spscq.h implements the bounded FIFO: items leave once and in order, and
\* the answers "full" and "empty" are off by at most one watermark block.
THEOREM RefinesFifo == Spec => ImplementsFifo
<1>1. Init => Fifo!FifoInit
  <2> SUFFICES ASSUME Init PROVE Fifo!FifoInit
    OBVIOUS
  <2>1. Unread = 0
    BY SizeAssumption DEF Init, Unread, Dist
  <2>2. Contents = <<>>
    BY <2>1 DEF Contents
  <2> QED BY <2>2 DEF Init, Fifo!FifoInit
<1>2. TypeOK /\ RingInv /\ [Next]_vars => [Fifo!FifoNext]_(Fifo!fifoVars)
  <2> SUFFICES ASSUME TypeOK, RingInv, [Next]_vars
               PROVE  Fifo!FifoNext \/ UNCHANGED Fifo!fifoVars
    OBVIOUS
  <2>1. ASSUME UNCHANGED <<items, shadow_head, shadow_tail, push_rc, pop_rc, popped>>
        PROVE  UNCHANGED Fifo!fifoVars
    BY <2>1 DEF Fifo!fifoVars, Contents, Unread, Dist, Ahead
  <2>2. ASSUME NEW i \in Items, NEW f \in {0, 1}, PushBegin(i, f)
        PROVE  UNCHANGED Fifo!fifoVars
    BY <2>1, <2>2 DEF PushBegin, consumerVars
  <2>3. CASE PushFull
    BY <2>3, FullRefuses DEF Fifo!FifoNext
  <2>4. CASE PushStore
    <3>1. item \in Items
      BY <2>4 DEF RingInv, UnreadAreItems, PushStore
    <3> QED BY <2>4, <3>1, StoreAppends DEF Fifo!FifoNext, Fifo!Enqueue
  <2>5. CASE PushPublish
    BY <2>1, <2>5 DEF PushPublish, consumerVars
  <2>6. CASE PopBegin
    BY <2>1, <2>6 DEF PopBegin, producerVars
  <2>7. CASE PopEmpty
    BY <2>7, EmptyReports DEF Fifo!FifoNext
  <2>8. CASE PopLoad
    BY <2>8, LoadTakesHead DEF Fifo!FifoNext
  <2>9. CASE PopPublish
    BY <2>1, <2>9 DEF PopPublish, producerVars
  <2>10. CASE UNCHANGED vars
    BY <2>1, <2>10 DEF vars
  <2> QED BY <2>2, <2>3, <2>4, <2>5, <2>6, <2>7, <2>8, <2>9, <2>10 DEF Next
<1> QED BY <1>1, <1>2, TypeCorrect, RingSound, PTL DEF Spec, ImplementsFifo, Fifo!FifoSpec
=============================================================================
