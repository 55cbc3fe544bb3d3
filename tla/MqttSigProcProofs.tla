-------------------------- MODULE MqttSigProcProofs --------------------------
(***************************************************************************)
(* MqttSigProc for every capacity and every set of messages: no message is *)
(* left without a wakeup, none is lost, duplicated or reordered between    *)
(* the callback and the point where it is freed, and no connection is      *)
(* handed out while phase 0 takes it down.                                 *)
(***************************************************************************)
EXTENDS MqttSigProc, SequenceTheorems, TLAPS

\* The stages of main's teardown are used throughout.
USE DEF QueueFreed, ClientGone, ConnFreed

\* Taking the head off a queue and putting it in hand keeps the messages in
\* one line (the pop of mqtt_proc_thread).
LEMMA HeadThenTail ==
  ASSUME NEW q \in Seq(Msgs), q # <<>>
  PROVE  q = <<Head(q)>> \o Tail(q)
<1>1. /\ Head(q) \in Msgs /\ Tail(q) \in Seq(Msgs) /\ Len(Tail(q)) = Len(q) - 1
      /\ Len(q) \in Nat \ {0}
  BY HeadTailProperties, EmptySeq
<1>2. <<Head(q)>> \in Seq(Msgs) /\ Len(<<Head(q)>>) = 1
  BY <1>1
<1>3. <<Head(q)>> \o Tail(q) \in Seq(Msgs) /\ Len(<<Head(q)>> \o Tail(q)) = Len(q)
  BY <1>1, <1>2, ConcatProperties
<1>4. ASSUME NEW i \in 1..Len(q) PROVE (<<Head(q)>> \o Tail(q))[i] = q[i]
  BY <1>1, <1>2, ConcatProperties, HeadTailProperties
<1> QED BY <1>3, <1>4, SeqEqual

\* The type invariant and what the threads hold, at the start.
LEMMA MqttInitInv == MqttInit => MqttTypeOK /\ HeldAndJoined
<1> SUFFICES ASSUME MqttInit PROVE MqttTypeOK /\ HeldAndJoined
  OBVIOUS
<1>1. <<>> \in Seq(Msgs) /\ Len(<<>>) = 0
  BY EmptySeq
<1>2. terminating \in BOOLEAN
  BY Zenon DEF MqttInit
<1>3. HeldAndJoined
  BY DEF MqttInit, HeldAndJoined
<1> QED BY <1>1, <1>2, <1>3, MqttAssumption DEF MqttInit, FifoInit, MqttTypeOK

\* A step of the receive callback keeps them.
LEMMA RxKeeps ==
  ASSUME MqttTypeOK, HeldAndJoined, Rx
  PROVE  MqttTypeOK' /\ HeldAndJoined'
<1>1. CASE \E m \in Msgs : RxArrive(m)
  BY <1>1 DEF RxArrive, mainVars, fifoVars, MqttTypeOK, HeldAndJoined
<1>2. CASE RxPush
  BY <1>2, MqttAssumption DEF RxPush, Enqueue, mainVars, MqttTypeOK, HeldAndJoined
<1>3. CASE RxDrop
  BY <1>3 DEF RxDrop, Refuse, mainVars, MqttTypeOK, HeldAndJoined
<1>4. CASE RxPost
  BY <1>4 DEF RxPost, mainVars, fifoVars, MqttTypeOK, HeldAndJoined
<1> QED BY <1>1, <1>2, <1>3, <1>4 DEF Rx

\* A step of mqtt_proc_thread keeps them: what it pops was delivered.
LEMMA ProcKeeps ==
  ASSUME MqttTypeOK, HeldAndJoined, Proc
  PROVE  MqttTypeOK' /\ HeldAndJoined'
<1> USE DEF procElse, rxVars, mainVars
<1>1. CASE ProcCheck
  BY <1>1 DEF ProcCheck, fifoVars, MqttTypeOK, HeldAndJoined
<1>2. CASE ProcWake
  BY <1>2 DEF ProcWake, fifoVars, MqttTypeOK, HeldAndJoined
<1>3. CASE ProcTimeout
  BY <1>3 DEF ProcTimeout, fifoVars, MqttTypeOK, HeldAndJoined
<1>4. CASE ProcRecheck
  BY <1>4 DEF ProcRecheck, fifoVars, MqttTypeOK, HeldAndJoined
<1>5. ASSUME Dequeue
      PROVE  /\ queue' \in Seq(Msgs) /\ Len(queue') <= Cap
             /\ Head(queue) \in Msgs /\ popped' \in Msgs
  BY <1>5, HeadTailProperties, LenProperties, MqttAssumption DEF Dequeue, MqttTypeOK
<1>6. CASE ProcPop
  <2>1. CASE Dequeue /\ proc_pc' = "handle"
    BY <1>5, <1>6, <2>1 DEF ProcPop, MqttTypeOK, HeldAndJoined
  <2>2. CASE ReportEmpty /\ proc_pc' = "check"
    BY <1>6, <2>2 DEF ProcPop, ReportEmpty, MqttTypeOK, HeldAndJoined
  <2> QED BY <1>6, <2>1, <2>2 DEF ProcPop
<1>7. CASE HandlerPublish
  BY <1>7 DEF HandlerPublish, fifoVars, MqttTypeOK, HeldAndJoined
<1>8. CASE HandlerSend
  BY <1>8 DEF HandlerSend, fifoVars, MqttTypeOK, HeldAndJoined
<1>9. CASE ProcFree
  BY <1>9 DEF ProcFree, fifoVars, MqttTypeOK, HeldAndJoined
<1>10. CASE ProcFlush
  <2>1. CASE Dequeue /\ released' = Append(released, Head(queue)) /\ UNCHANGED proc_pc
    BY <1>5, <1>10, <2>1 DEF ProcFlush, MqttTypeOK, HeldAndJoined
  <2>2. CASE ReportEmpty /\ proc_pc' = "done" /\ UNCHANGED released
    BY <1>10, <2>2 DEF ProcFlush, ReportEmpty, MqttTypeOK, HeldAndJoined
  <2> QED BY <1>10, <2>1, <2>2 DEF ProcFlush
<1> QED BY <1>1, <1>2, <1>3, <1>4, <1>6, <1>7, <1>8, <1>9, <1>10 DEF Proc

\* A step of an environment keeps them: it is not done before main joins it.
LEMMA EnvKeeps ==
  ASSUME MqttTypeOK, HeldAndJoined, Env
  PROVE  MqttTypeOK' /\ HeldAndJoined'
BY DEF Env, EnvRound, EnvLookup, EnvSend, EnvExit, envElse, callerElse, fifoVars, rxVars,
       mainVars, MqttTypeOK, HeldAndJoined

\* So does a step of a command line client, at any time.
LEMMA CliKeeps ==
  ASSUME MqttTypeOK, HeldAndJoined, Cli
  PROVE  MqttTypeOK' /\ HeldAndJoined'
BY DEF Cli, CliLine, CliLookup, CliSend, CliExit, CliNext, cliElse, callerElse, fifoVars, rxVars,
       mainVars, MqttTypeOK, HeldAndJoined

\* A step of main, or SIGTERM, keeps them: every free comes after its join.
LEMMA MainKeeps ==
  ASSUME MqttTypeOK, HeldAndJoined, SigTerm \/ Main
  PROVE  MqttTypeOK' /\ HeldAndJoined'
<1> USE DEF mainElse, fifoVars, rxVars, mainVars
<1>1. CASE SigTerm
  <2>1. terminating' \in BOOLEAN
    BY <1>1, Zenon DEF SigTerm
  <2> QED BY <1>1, <2>1 DEF SigTerm, MqttTypeOK, HeldAndJoined
<1>2. CASE MainPhase0
  BY <1>2 DEF MainPhase0, MqttTypeOK, HeldAndJoined
<1>3. CASE MainJoin
  BY <1>3 DEF MainJoin, MqttTypeOK, HeldAndJoined
<1>4. CASE MainDestroy \/ MainFreeConn \/ MainUnlock
  BY <1>4 DEF MainDestroy, MainFreeConn, MainUnlock, MqttTypeOK, HeldAndJoined
<1>5. CASE MainJoinEnv \/ MainPhase1
  BY <1>5 DEF MainJoinEnv, MainPhase1, MqttTypeOK, HeldAndJoined
<1> QED BY <1>1, <1>2, <1>3, <1>4, <1>5 DEF Main

\* Types, and every free of main after the join it needs (mqtt_mngr_del_conn,
\* umlua_shutdown), in every reachable state.
THEOREM MqttTypeCorrect == MqttSpec => [](MqttTypeOK /\ HeldAndJoined)
<1>1. ASSUME MqttTypeOK, HeldAndJoined, [MqttNext]_mqttVars
      PROVE  MqttTypeOK' /\ HeldAndJoined'
  <2>1. CASE UNCHANGED mqttVars
    BY <1>1, <2>1 DEF mqttVars, MqttTypeOK, HeldAndJoined
  <2> QED BY <1>1, <2>1, RxKeeps, ProcKeeps, EnvKeeps, CliKeeps, MainKeeps
        DEF MqttNext
<1> QED BY <1>1, MqttInitInv, PTL DEF MqttSpec

\* mqtt_mngr_process_conns and mqtt_mngr_get_conn: from the moment phase 0 takes
\* the lock no environment is handed a connection, and no command line client
\* until the manager is freed.
THEOREM TeardownHidesConnection == MqttSpec => NoLookupDuringTeardown
<1> DEFINE Hidden == /\ env_pc # "use" /\ env_pc' = "use" => main_pc = "loop"
                     /\ cli_pc # "use" /\ cli_pc' = "use" => main_pc \in {"loop", "done"}
<1>1. ASSUME MqttTypeOK, HeldAndJoined, [MqttNext]_mqttVars
      PROVE  [Hidden]_mqttVars
  <2>1. CASE Rx
    BY <2>1 DEF Rx, RxArrive, RxPush, RxDrop, RxPost
  <2>2. CASE Proc
    BY <2>2 DEF Proc, ProcCheck, ProcWake, ProcTimeout, ProcRecheck, ProcPop, HandlerPublish,
         HandlerSend, ProcFree, ProcFlush, procElse
  <2>3. CASE Env
    BY <1>1, <2>3 DEF Env, EnvRound, EnvLookup, EnvSend, EnvExit, envElse, MqttTypeOK, HeldAndJoined
  <2>4. CASE Cli
    BY <1>1, <2>4 DEF Cli, CliLine, CliLookup, CliSend, CliExit, CliNext, cliElse, MqttTypeOK,
         HeldAndJoined
  <2>5. CASE SigTerm \/ Main
    BY <2>5 DEF SigTerm, Main, MainPhase0, MainJoin, MainDestroy, MainFreeConn, MainUnlock,
         MainJoinEnv, MainPhase1, mainElse
  <2> QED BY <1>1, <2>1, <2>2, <2>3, <2>4, <2>5 DEF MqttNext
<1> QED BY <1>1, MqttTypeCorrect, PTL DEF MqttSpec, NoLookupDuringTeardown

-----------------------------------------------------------------------------

\* A step of the callback posts a token for what it queues.
LEMMA RxWakes ==
  ASSUME MqttTypeOK, EveryMessageHasWakeup, Rx
  PROVE  EveryMessageHasWakeup'
<1>1. CASE \E m \in Msgs : RxArrive(m)
  BY <1>1 DEF RxArrive, fifoVars, EveryMessageHasWakeup
<1>2. CASE RxPush
  <2>1. Len(queue) \in Nat /\ Len(queue') = Len(queue) + 1
    BY <1>2, MqttAssumption DEF RxPush, Enqueue, MqttTypeOK
  <2> QED BY <1>2, <2>1 DEF RxPush, EveryMessageHasWakeup, MqttTypeOK
<1>3. CASE RxDrop
  BY <1>3 DEF RxDrop, Refuse, EveryMessageHasWakeup
<1>4. CASE RxPost
  BY <1>4 DEF RxPost, fifoVars, EveryMessageHasWakeup, MqttTypeOK
<1> QED BY <1>1, <1>2, <1>3, <1>4 DEF Rx

\* A step of mqtt_proc_thread uses up a token only on its way to the queue.
LEMMA ProcWakes ==
  ASSUME MqttTypeOK, EveryMessageHasWakeup, Proc
  PROVE  EveryMessageHasWakeup'
<1> USE DEF procElse, rxVars, EveryMessageHasWakeup
<1>0. Len(queue) \in Nat /\ sig_sem \in Nat
  BY LenProperties DEF MqttTypeOK
<1>1. CASE ProcCheck \/ ProcRecheck
  BY <1>0, <1>1 DEF ProcCheck, ProcRecheck, fifoVars
<1>2. CASE ProcWake \/ ProcTimeout
  BY <1>0, <1>2 DEF ProcWake, ProcTimeout, fifoVars
<1>3. CASE ProcPop
  <2>1. CASE Dequeue /\ proc_pc' = "handle"
    <3>1. Len(queue') = Len(queue) - 1
      BY <2>1, HeadTailProperties DEF Dequeue, MqttTypeOK
    <3> QED BY <1>0, <1>3, <2>1, <3>1 DEF ProcPop
  <2>2. CASE queue = <<>> /\ ReportEmpty /\ proc_pc' = "check"
    <3>1. Len(queue') = 0
      BY <2>2, EmptySeq DEF ReportEmpty
    <3> QED BY <1>0, <1>3, <2>2, <3>1 DEF ProcPop
  <2> QED BY <1>3, <2>1, <2>2 DEF ProcPop
<1>4. CASE HandlerPublish \/ HandlerSend \/ ProcFree
  BY <1>0, <1>4 DEF HandlerPublish, HandlerSend, ProcFree, fifoVars
<1>5. CASE ProcFlush
  BY <1>5 DEF ProcFlush
<1> QED BY <1>1, <1>2, <1>3, <1>4, <1>5 DEF Proc

\* No wakeup is lost in mqtt_on_rx and mqtt_proc_thread, for any capacity and
\* any number of messages, although timed out waits pop without a token.
THEOREM WakeupsSuffice == MqttSpec => []EveryMessageHasWakeup
<1>1. MqttInit => EveryMessageHasWakeup
  BY EmptySeq DEF MqttInit, FifoInit, EveryMessageHasWakeup
<1>2. ASSUME MqttTypeOK, HeldAndJoined, EveryMessageHasWakeup, [MqttNext]_mqttVars
      PROVE  EveryMessageHasWakeup'
  <2>1. CASE Env \/ Cli \/ SigTerm \/ Main
    <3>1. UNCHANGED <<queue, sig_sem, rx_pc, proc_pc>>
      BY <2>1 DEF Env, EnvRound, EnvLookup, EnvSend, EnvExit, envElse, Cli, CliLine, CliLookup,
           CliSend, CliExit, cliElse, callerElse, SigTerm, Main, MainPhase0, MainJoin, MainDestroy, MainFreeConn, MainUnlock, MainJoinEnv,
           MainPhase1, mainElse, fifoVars, rxVars
    <3> QED BY <1>2, <3>1 DEF EveryMessageHasWakeup
  <2>2. CASE UNCHANGED mqttVars
    BY <1>2, <2>2 DEF mqttVars, EveryMessageHasWakeup
  <2> QED BY <1>2, <2>1, <2>2, RxWakes, ProcWakes DEF MqttNext
<1> QED BY <1>1, <1>2, MqttTypeCorrect, PTL DEF MqttSpec

-----------------------------------------------------------------------------

\* ConcatAssociative for messages.
LEMMA Regroup ==
  ASSUME NEW a \in Seq(Msgs), NEW b \in Seq(Msgs), NEW c \in Seq(Msgs)
  PROVE  (a \o b) \o c = a \o (b \o c)
BY ConcatAssociative, SMTT(30)

\* InHand is a sequence of messages.
LEMMA InHandSeq ==
  ASSUME HeldAndJoined
  PROVE  InHand \in Seq(Msgs)
BY EmptySeq DEF InHand, HeldAndJoined

\* A message the callback queues goes to the end of the line.
LEMMA PushKeepsOrder ==
  ASSUME MqttTypeOK, HeldAndJoined, AcceptedOnceInOrder, RxPush
  PROVE  AcceptedOnceInOrder'
<1>1. rx_msg \in Msgs /\ InHand' = InHand
  BY DEF RxPush, Enqueue, HeldAndJoined, InHand
<1>2. /\ released \in Seq(Msgs) /\ InHand \in Seq(Msgs) /\ queue \in Seq(Msgs)
      /\ accepted \in Seq(Msgs) /\ <<rx_msg>> \in Seq(Msgs)
  BY <1>1, InHandSeq DEF MqttTypeOK
<1>3. accepted' = accepted \o <<rx_msg>> /\ queue' = queue \o <<rx_msg>>
  BY <1>2 DEF RxPush, Enqueue
<1>4. released \o InHand \in Seq(Msgs)
  BY <1>2, ConcatProperties
<1>5. ((released \o InHand) \o queue) \o <<rx_msg>> = (released \o InHand) \o (queue \o <<rx_msg>>)
  BY <1>2, <1>4, Regroup, ZenonT(30)
<1> QED BY <1>1, <1>3, <1>5 DEF AcceptedOnceInOrder, RxPush

\* A pop moves the head of the queue into the hands of sig_th.
LEMMA PopKeepsOrder ==
  ASSUME MqttTypeOK, HeldAndJoined, AcceptedOnceInOrder, Dequeue,
         InHand = <<>>, UNCHANGED accepted,
         \/ InHand' = <<popped'>> /\ UNCHANGED released
         \/ InHand' = <<>> /\ released' = Append(released, Head(queue))
  PROVE  AcceptedOnceInOrder'
<1>1. /\ released \in Seq(Msgs) /\ queue \in Seq(Msgs) /\ queue # <<>>
      /\ popped' = Head(queue) /\ queue' = Tail(queue)
  BY DEF MqttTypeOK, Dequeue
<1>2. Head(queue) \in Msgs /\ Tail(queue) \in Seq(Msgs) /\ <<Head(queue)>> \in Seq(Msgs)
  BY <1>1, HeadTailProperties
<1>3. accepted = released \o queue
  BY <1>1, ConcatEmptySeq DEF AcceptedOnceInOrder
<1>4. accepted = released \o (<<Head(queue)>> \o Tail(queue))
  BY <1>1, <1>3, HeadThenTail
<1>5. accepted = (released \o <<Head(queue)>>) \o Tail(queue)
  BY <1>1, <1>2, <1>4, Regroup, ZenonT(30)
<1>6. CASE InHand' = <<popped'>> /\ UNCHANGED released
  BY <1>1, <1>5, <1>6 DEF AcceptedOnceInOrder
<1>7. CASE InHand' = <<>> /\ released' = Append(released, Head(queue))
  <2>1. released' = released \o <<Head(queue)>>
    BY <1>1, <1>2, <1>7
  <2>2. released \o <<Head(queue)>> \in Seq(Msgs)
    BY <1>1, <1>2, ConcatProperties
  <2>3. (released \o <<Head(queue)>>) \o <<>> = released \o <<Head(queue)>>
    BY <2>2, ConcatEmptySeq
  <2> QED BY <1>1, <1>5, <1>7, <2>1, <2>3 DEF AcceptedOnceInOrder
<1> QED BY <1>6, <1>7

\* Freeing the message in hand moves it to the end of the freed ones.
LEMMA FreeKeepsOrder ==
  ASSUME MqttTypeOK, HeldAndJoined, AcceptedOnceInOrder, ProcFree
  PROVE  AcceptedOnceInOrder'
<1>1. /\ popped \in Msgs /\ InHand = <<popped>> /\ InHand' = <<>>
      /\ released \in Seq(Msgs) /\ <<popped>> \in Seq(Msgs)
      /\ UNCHANGED <<queue, accepted>>
  BY DEF ProcFree, HeldAndJoined, InHand, MqttTypeOK, procElse, rxVars, fifoVars
<1>2. released' = released \o <<popped>>
  BY <1>1 DEF ProcFree
<1>3. released \o <<popped>> \in Seq(Msgs)
  BY <1>1, ConcatProperties
<1>4. (released \o <<popped>>) \o <<>> = released \o <<popped>>
  BY <1>3, ConcatEmptySeq
<1> QED BY <1>1, <1>2, <1>4 DEF AcceptedOnceInOrder

\* Every message the queue took from mqtt_on_rx is queued, in hand or freed,
\* exactly one of these, in the order of arrival.
THEOREM MessagesKept == MqttSpec => []AcceptedOnceInOrder
<1>1. MqttInit => AcceptedOnceInOrder
  BY EmptySeq, ConcatEmptySeq DEF MqttInit, FifoInit, AcceptedOnceInOrder, InHand
<1>2. ASSUME MqttTypeOK, HeldAndJoined, AcceptedOnceInOrder, [MqttNext]_mqttVars
      PROVE  AcceptedOnceInOrder'
  <2>1. ASSUME UNCHANGED <<accepted, released, queue>>, InHand' = InHand
        PROVE  AcceptedOnceInOrder'
    BY <1>2, <2>1 DEF AcceptedOnceInOrder
  <2>2. CASE (\E m \in Msgs : RxArrive(m)) \/ RxDrop \/ RxPost
    BY <2>1, <2>2 DEF RxArrive, RxDrop, Refuse, RxPost, fifoVars, InHand
  <2>3. CASE ProcCheck \/ ProcWake \/ ProcTimeout \/ ProcRecheck \/ HandlerPublish
             \/ HandlerSend
    BY <2>1, <2>3 DEF ProcCheck, ProcWake, ProcTimeout, ProcRecheck, HandlerPublish,
         HandlerSend, procElse, rxVars, fifoVars, InHand
  <2>4. CASE ProcPop
    <3>1. CASE Dequeue /\ proc_pc' = "handle"
      BY <1>2, <2>4, <3>1, PopKeepsOrder DEF ProcPop, procElse, rxVars, InHand
    <3>2. CASE ReportEmpty /\ proc_pc' = "check"
      BY <2>1, <2>4, <3>2 DEF ProcPop, ReportEmpty, procElse, rxVars, InHand
    <3> QED BY <2>4, <3>1, <3>2 DEF ProcPop
  <2>5. CASE ProcFlush
    <3>1. CASE Dequeue /\ released' = Append(released, Head(queue)) /\ UNCHANGED proc_pc
      BY <1>2, <2>5, <3>1, PopKeepsOrder DEF ProcFlush, procElse, rxVars, InHand
    <3>2. CASE ReportEmpty /\ proc_pc' = "done" /\ UNCHANGED released
      BY <2>1, <2>5, <3>2 DEF ProcFlush, ReportEmpty, procElse, rxVars, InHand
    <3> QED BY <2>5, <3>1, <3>2 DEF ProcFlush
  <2>6. CASE Env \/ Cli \/ SigTerm \/ Main
    BY <2>1, <2>6 DEF Env, EnvRound, EnvLookup, EnvSend, EnvExit, envElse, Cli, CliLine,
         CliLookup, CliSend, CliExit, cliElse, callerElse, SigTerm, Main, MainPhase0, MainJoin, MainDestroy, MainFreeConn, MainUnlock, MainJoinEnv,
         MainPhase1, mainElse, fifoVars, rxVars, InHand
  <2>7. CASE UNCHANGED mqttVars
    BY <2>1, <2>7 DEF mqttVars, InHand
  <2> QED BY <1>2, <2>2, <2>3, <2>4, <2>5, <2>6, <2>7, PushKeepsOrder, FreeKeepsOrder
        DEF MqttNext, Rx, Proc
<1> QED BY <1>1, <1>2, MqttTypeCorrect, PTL DEF MqttSpec
=============================================================================
