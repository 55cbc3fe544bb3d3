---------------------------- MODULE SpscQueueWeak ----------------------------
(***************************************************************************)
(* The ring of SpscQueue on a processor that may make a thread's stores    *)
(* visible out of order.  mb() of include/spscq.h is an empty asm          *)
(* statement: it orders what the compiler emits and nothing else, so on an *)
(* ARM build the store to items[] may reach the consumer after the store   *)
(* to head that publishes it.                                              *)
(***************************************************************************)
EXTENDS SpscQueue, SequencesExt

VARIABLE pending      \* item stores issued by the producer, not yet visible

weakVars == <<vars, pending>>

WeakInit == Init /\ pending = <<>>

\* PushStore, with the store to items[] left in the store buffer.
WeakPushStore ==
  /\ push_pc = "store"
  /\ pending' = Append(pending, <<shadow_head, item>>)
  /\ shadow_head' = NextSlot(shadow_head)
  /\ push_pc' = IF flush_item = 1 \/ Mark(NextSlot(shadow_head))
                  THEN "publish" ELSE "idle"
  /\ push_rc' = 0
  /\ UNCHANGED <<head, items, item, flush_item>>
  /\ UNCHANGED consumerVars

\* A buffered store becomes visible; stores to one slot stay in order.
Drain(k) ==
  /\ \A j \in 1..(k - 1) : pending[j][1] # pending[k][1]
  /\ items' = [items EXCEPT ![pending[k][1]] = pending[k][2]]
  /\ pending' = RemoveAt(pending, k)
  /\ UNCHANGED <<shadow_head, head, push_pc, item, flush_item, push_rc>>
  /\ UNCHANGED consumerVars

WeakNext ==
  \/ /\ \/ \E i \in Items, f \in {0, 1} : PushBegin(i, f)
        \/ PushFull
        \/ PushPublish
        \/ PopBegin
        \/ PopEmpty
        \/ PopLoad
        \/ PopPublish
     /\ UNCHANGED pending
  \/ WeakPushStore
  \/ \E k \in DOMAIN pending : Drain(k)

WeakSpec == WeakInit /\ [][WeakNext]_weakVars

\* A pop that returns 0 hands out an item that was pushed, never what malloc
\* left in the slot: what the "memory barrier" before the publication of head is
\* there for.
PopsPushedItem == pop_rc = 0 => popped # NoItem
=============================================================================
