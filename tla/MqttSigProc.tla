----------------------------- MODULE MqttSigProc -----------------------------
(***************************************************************************)
(* plugins/mqtt: the path of a received message from the network thread to *)
(* the Lua handler of "mqtt:RX", and the shutdown of a connection.         *)
(*                                                                         *)
(*   rx    the MQTT client library's thread, running mqtt_on_rx            *)
(*   proc  the connection's sig_th, running mqtt_proc_thread               *)
(*   env   a Lua environment thread that publishes (M.mqtt.publish)        *)
(*   cli   a command line client's thread, which publishes too; detached   *)
(*   main  umd_loop, then both termination phases of sysagentd's main      *)
(*                                                                         *)
(* The queue is the bounded FIFO that SpscQueue implements.  mqtt_on_rx    *)
(* pushes with flush_item = 1 and a push counts from the moment it         *)
(* publishes head, so a pop reports "empty" only on an empty queue: Lag is *)
(* 0 here, while Guaranteed stays below Cap.                               *)
(***************************************************************************)
EXTENDS BoundedFifo

CONSTANTS Msgs          \* messages a broker may deliver, each once

ASSUME MqttAssumption ==
  /\ Items = Msgs
  /\ Cap \in Nat /\ Guaranteed \in 0..Cap /\ Lag = 0

VARIABLES
  terminating,  \* UMD->is_terminated
  sig_sem,      \* value of conn->sig_sem
  rx_pc,        \* "idle", "push" or "post"
  rx_msg,       \* the message mqtt_on_rx is working on
  proc_pc,      \* where mqtt_proc_thread is
  env_pc,       \* "idle", "script", "use" or "done"
  cli_pc,       \* the same; at "idle" the client waits for a line of Lua
  main_pc,      \* where main is
  mngr_mtx,     \* owner of mqtt_mngr->mtx: "none" or "main"
  arrived,      \* messages delivered so far
  accepted,     \* messages the queue took, in order (history)
  released      \* messages whose data sig_th freed, in order (history)

rxVars == <<rx_pc, rx_msg, arrived, accepted>>
mainVars == <<main_pc, mngr_mtx>>
mqttVars == <<queue, push_rc, pop_rc, popped, terminating, sig_sem, rx_pc, rx_msg,
              proc_pc, env_pc, cli_pc, main_pc, mngr_mtx, arrived, accepted, released>>

\* What phase 0 has torn down when main is at pc.
QueueFreed(pc) == pc \in {"destroy", "free_conn", "unlock", "join_env", "phase1", "done"}
ClientGone(pc) == pc \in {"free_conn", "unlock", "join_env", "phase1", "done"}
ConnFreed(pc)  == pc \in {"unlock", "join_env", "phase1", "done"}

MqttInit ==
  /\ FifoInit
  /\ terminating = FALSE
  /\ sig_sem = 0
  /\ rx_pc = "idle" /\ rx_msg = NoItem /\ arrived = {} /\ accepted = <<>>
  /\ proc_pc = "check" /\ released = <<>>
  /\ env_pc = "idle" /\ cli_pc = "idle"
  /\ main_pc = "loop" /\ mngr_mtx = "none"

-----------------------------------------------------------------------------
\* mqtt_on_rx, called as long as the client exists

RxArrive(m) ==
  /\ rx_pc = "idle" /\ ~ClientGone(main_pc)
  /\ m \notin arrived
  /\ rx_pc' = "push" /\ rx_msg' = m /\ arrived' = arrived \cup {m}
  /\ UNCHANGED <<fifoVars, terminating, sig_sem, proc_pc, env_pc, cli_pc, mainVars, accepted, released>>

\* Fault: the semaphore is not posted for an accepted message.
RxPushSilent ==
  /\ rx_pc = "push"
  /\ Enqueue(rx_msg)
  /\ rx_pc' = "idle" /\ accepted' = Append(accepted, rx_msg)
  /\ UNCHANGED <<terminating, sig_sem, rx_msg, proc_pc, env_pc, cli_pc, mainVars, arrived, released>>

\* spscq_push succeeds
RxPush ==
  /\ rx_pc = "push"
  /\ Enqueue(rx_msg)
  /\ rx_pc' = "post" /\ accepted' = Append(accepted, rx_msg)
  /\ UNCHANGED <<terminating, sig_sem, rx_msg, proc_pc, env_pc, cli_pc, mainVars, arrived, released>>

\* spscq_push fails: the data is freed and the message dropped with a warning
RxDrop ==
  /\ rx_pc = "push"
  /\ Refuse
  /\ rx_pc' = "idle"
  /\ UNCHANGED <<terminating, sig_sem, rx_msg, proc_pc, env_pc, cli_pc, mainVars, arrived, accepted, released>>

\* sem_post
RxPost ==
  /\ rx_pc = "post"
  /\ sig_sem' = sig_sem + 1
  /\ rx_pc' = "idle"
  /\ UNCHANGED <<fifoVars, terminating, rx_msg, proc_pc, env_pc, cli_pc, mainVars, arrived, accepted, released>>

-----------------------------------------------------------------------------
\* mqtt_proc_thread

procElse == <<terminating, rxVars, env_pc, cli_pc, mainVars>>

\* while (!umd_is_terminating())
ProcCheck ==
  /\ proc_pc = "check"
  /\ proc_pc' = IF terminating THEN "flush" ELSE "wait"
  /\ UNCHANGED <<fifoVars, sig_sem, released, procElse>>

\* sem_timedwait takes a token
ProcWake ==
  /\ proc_pc = "wait"
  /\ sig_sem > 0
  /\ sig_sem' = sig_sem - 1
  /\ proc_pc' = "recheck"
  /\ UNCHANGED <<fifoVars, released, procElse>>

\* Fault: a timed out wait counts as a token taken.
ProcTimeoutTakes ==
  /\ proc_pc = "wait"
  /\ sig_sem = 0
  /\ sig_sem' = sig_sem - 1
  /\ proc_pc' = "recheck"
  /\ UNCHANGED <<fifoVars, released, procElse>>

\* Fault: sem_wait in place of sem_timedwait.
ProcTimeoutNever ==
  /\ proc_pc = "wait" /\ sig_sem = 0 /\ FALSE
  /\ proc_pc' = "recheck"
  /\ UNCHANGED <<fifoVars, sig_sem, released, procElse>>

\* sem_timedwait gives up after SIG_SEM_TIMEOUT, or is interrupted; its
\* result is not looked at
ProcTimeout ==
  /\ proc_pc = "wait"
  /\ sig_sem = 0
  /\ proc_pc' = "recheck"
  /\ UNCHANGED <<fifoVars, sig_sem, released, procElse>>

ProcRecheck ==
  /\ proc_pc = "recheck"
  /\ proc_pc' = IF terminating THEN "flush" ELSE "pop"
  /\ UNCHANGED <<fifoVars, sig_sem, released, procElse>>

\* one spscq_pop per round
ProcPop ==
  /\ proc_pc = "pop"
  /\ \/ Dequeue /\ proc_pc' = "handle"
     \/ queue = <<>> /\ ReportEmpty /\ proc_pc' = "check"
  /\ UNCHANGED <<sig_sem, released, procElse>>

\* The handler of mqtt:RX calls M.mqtt.publish and goes for the manager lock.
HandlerPublish ==
  /\ proc_pc = "handle"
  /\ proc_pc' = "lock"
  /\ UNCHANGED <<fifoVars, sig_sem, released, procElse>>

\* mqtt_mngr_get_conn takes and releases the lock, then the message is sent
HandlerSend ==
  /\ proc_pc = "lock"
  /\ mngr_mtx = "none"
  /\ proc_pc' = "handled"
  /\ UNCHANGED <<fifoVars, sig_sem, released, procElse>>

\* Fault: the data of a handled message is not freed.
ProcFreeForgotten ==
  /\ proc_pc \in {"handle", "handled"}
  /\ proc_pc' = "check"
  /\ UNCHANGED <<fifoVars, sig_sem, released, procElse>>

\* The signal has been processed and the data is freed.
ProcFree ==
  /\ proc_pc \in {"handle", "handled"}
  /\ released' = Append(released, popped)
  /\ proc_pc' = "check"
  /\ UNCHANGED <<fifoVars, sig_sem, procElse>>

\* Fault: the thread leaves without flushing the queue.
ProcFlushSkipped ==
  /\ proc_pc = "flush"
  /\ proc_pc' = "done"
  /\ UNCHANGED <<fifoVars, sig_sem, released, procElse>>

\* the flush loop after termination: pop and free until empty
ProcFlush ==
  /\ proc_pc = "flush"
  /\ \/ /\ Dequeue
        /\ released' = Append(released, Head(queue))
        /\ UNCHANGED proc_pc
     \/ /\ queue = <<>> /\ ReportEmpty
        /\ proc_pc' = "done"
        /\ UNCHANGED released
  /\ UNCHANGED <<sig_sem, procElse>>

-----------------------------------------------------------------------------
\* threads that call mink_lua_mqtt_pub: a Lua environment ...

callerElse == <<fifoVars, terminating, sig_sem, rxVars, proc_pc, mainVars, released>>
envElse == <<callerElse, cli_pc>>

\* Another round of the environment's script starts.
EnvRound ==
  /\ env_pc = "idle" /\ ~terminating
  /\ env_pc' = "script"
  /\ UNCHANGED envElse

\* mqtt_mngr_get_conn: finds the connection until phase 0 has removed it
EnvLookup ==
  /\ env_pc = "script"
  /\ mngr_mtx = "none"
  /\ env_pc' = IF QueueFreed(main_pc) THEN "idle" ELSE "use"
  /\ UNCHANGED envElse

\* mqtt_mngr_send through the pointer that was looked up
EnvSend ==
  /\ env_pc = "use"
  /\ env_pc' = "idle"
  /\ UNCHANGED envElse

EnvExit ==
  /\ env_pc = "idle" /\ terminating
  /\ env_pc' = "done"
  /\ UNCHANGED envElse

\* ... and a command line client

cliElse == <<callerElse, env_pc>>

\* A line arrives; the flag is looked at before poll, so one may still come
\* after SIGTERM.
CliLine ==
  /\ cli_pc = "idle"
  /\ cli_pc' = "script"
  /\ UNCHANGED cliElse

\* where th_cli_client goes after a line
CliNext == IF terminating THEN "done" ELSE "idle"

\* mqtt_mngr_get_conn; once phase 1 has freed the manager it may find anything
CliLookup ==
  /\ cli_pc = "script"
  /\ mngr_mtx = "none"
  /\ IF main_pc = "done" THEN cli_pc' \in {CliNext, "use"}
     ELSE cli_pc' = IF QueueFreed(main_pc) THEN CliNext ELSE "use"
  /\ UNCHANGED cliElse

CliSend ==
  /\ cli_pc = "use"
  /\ cli_pc' = CliNext
  /\ UNCHANGED cliElse

\* no line within a second, or the client hangs up
CliExit ==
  /\ cli_pc = "idle"
  /\ cli_pc' = "done"
  /\ UNCHANGED cliElse

-----------------------------------------------------------------------------
\* SIGTERM and the rest of main

mainElse == <<fifoVars, sig_sem, rxVars, proc_pc, env_pc, cli_pc, released>>

\* umd_signal_handler
SigTerm ==
  /\ ~terminating
  /\ terminating' = TRUE
  /\ UNCHANGED <<mainElse, mainVars>>

\* Fault: the connections are taken down without the manager lock.
MainPhase0Unlocked ==
  /\ main_pc = "loop" /\ terminating
  /\ main_pc' = "join"
  /\ UNCHANGED <<mainElse, terminating, mngr_mtx>>

\* umd_loop ends and mqtt_mngr_process_conns locks the manager
MainPhase0 ==
  /\ main_pc = "loop" /\ terminating
  /\ mngr_mtx = "none"
  /\ mngr_mtx' = "main" /\ main_pc' = "join"
  /\ UNCHANGED <<mainElse, terminating>>

\* pthread_join(sig_th), then sem_destroy, spscq_free and HASH_DEL
MainJoin ==
  /\ main_pc = "join" /\ proc_pc = "done"
  /\ main_pc' = "destroy"
  /\ UNCHANGED <<mainElse, terminating, mngr_mtx>>

\* MQTTAsync_destroy; waits for a callback that is running
MainDestroy ==
  /\ main_pc = "destroy" /\ rx_pc = "idle"
  /\ main_pc' = "free_conn"
  /\ UNCHANGED <<mainElse, terminating, mngr_mtx>>

\* free(conn)
MainFreeConn ==
  /\ main_pc = "free_conn"
  /\ main_pc' = "unlock"
  /\ UNCHANGED <<mainElse, terminating, mngr_mtx>>

MainUnlock ==
  /\ main_pc = "unlock"
  /\ mngr_mtx' = "none" /\ main_pc' = "join_env"
  /\ UNCHANGED <<mainElse, terminating>>

\* umlua_shutdown joins the environment threads; command line clients are
\* detached, nobody waits for them
MainJoinEnv ==
  /\ main_pc = "join_env" /\ env_pc = "done"
  /\ main_pc' = "phase1"
  /\ UNCHANGED <<mainElse, terminating, mngr_mtx>>

\* term_phase_1 frees the manager; main is about to return
MainPhase1 ==
  /\ main_pc = "phase1"
  /\ main_pc' = "done"
  /\ UNCHANGED <<mainElse, terminating, mngr_mtx>>

Rx == (\E m \in Msgs : RxArrive(m)) \/ RxPush \/ RxDrop \/ RxPost

Proc == ProcCheck \/ ProcWake \/ ProcTimeout \/ ProcRecheck \/ ProcPop
        \/ HandlerPublish \/ HandlerSend \/ ProcFree \/ ProcFlush

Env == EnvRound \/ EnvLookup \/ EnvSend \/ EnvExit

Cli == CliLine \/ CliLookup \/ CliSend \/ CliExit

Main == MainPhase0 \/ MainJoin \/ MainDestroy \/ MainFreeConn \/ MainUnlock
        \/ MainJoinEnv \/ MainPhase1

MqttNext == Rx \/ Proc \/ Env \/ Cli \/ SigTerm \/ Main

\* Threads are scheduled, sem_timedwait times out, Lua handlers return.  A
\* broker need not send anything, SIGTERM need not come, and nobody needs a
\* command line client to go on.
MqttSpec ==
  /\ MqttInit /\ [][MqttNext]_mqttVars
  /\ WF_mqttVars(RxPush \/ RxDrop \/ RxPost)
  /\ WF_mqttVars(Proc) /\ WF_mqttVars(Env) /\ WF_mqttVars(Main)

-----------------------------------------------------------------------------

InHand == IF proc_pc \in {"handle", "lock", "handled"} THEN <<popped>> ELSE <<>>

MqttTypeOK ==
  /\ queue \in Seq(Msgs) /\ Len(queue) <= Cap
  /\ popped \in Msgs \cup {NoItem} /\ rx_msg \in Msgs \cup {NoItem}
  /\ terminating \in BOOLEAN
  /\ sig_sem \in Nat
  /\ rx_pc \in {"idle", "push", "post"}
  /\ proc_pc \in {"check", "wait", "recheck", "pop", "handle", "lock", "handled", "flush", "done"}
  /\ env_pc \in {"idle", "script", "use", "done"} /\ cli_pc \in {"idle", "script", "use", "done"}
  /\ main_pc \in {"loop", "join"} \/ QueueFreed(main_pc)
  /\ mngr_mtx \in {"none", "main"}
  /\ arrived \subseteq Msgs /\ accepted \in Seq(Msgs) /\ released \in Seq(Msgs)

\* The threads that hold a message hold one that was delivered, main has taken
\* down nothing before the threads it joined were gone, and it holds the manager
\* lock from the start of phase 0 until the connection is gone.
HeldAndJoined ==
  /\ rx_pc = "push" => rx_msg \in Msgs
  /\ proc_pc \in {"handle", "lock", "handled"} => popped \in Msgs
  /\ QueueFreed(main_pc) => proc_pc = "done"
  /\ main_pc \in {"phase1", "done"} => env_pc = "done"
  /\ mngr_mtx = "none" => main_pc \in {"loop", "join_env", "phase1", "done"}

\* No lost wakeup: until the thread is told to stop, each queued message has
\* a token in the semaphore, one about to be posted, or a proc thread on its
\* way to the queue, although a wait that times out pops without a token.
EveryMessageHasWakeup ==
  proc_pc \notin {"flush", "done"} =>
    Len(queue) <= sig_sem + (IF rx_pc = "post" THEN 1 ELSE 0)
                          + (IF proc_pc \in {"recheck", "pop"} THEN 1 ELSE 0)

\* The data of an accepted message is queued, in the handler's hands or freed
\* by sig_th: never two of these, never none, and always in arrival order,
\* through timeouts, refused pushes and the final flush.
AcceptedOnceInOrder == accepted = released \o InHand \o queue

\* Once phase 0 has begun to take the connections down, neither an environment
\* nor a command line client is handed one any more: mqtt_mngr_get_conn waits
\* for the lock that mqtt_mngr_process_conns holds and then finds nothing.  Only
\* pointers looked up before are dangerous (NoUseAfterFree), and a detached
\* client that looks one up in the manager that phase 1 has freed.
NoLookupDuringTeardown ==
  [][/\ env_pc # "use" /\ env_pc' = "use" => main_pc = "loop"
     /\ cli_pc # "use" /\ cli_pc' = "use" => main_pc \in {"loop", "done"}]_mqttVars

\* No thread is inside mqtt_on_rx with the queue and the semaphore gone, about
\* to send through a connection that was freed, or about to lock a manager that
\* was freed: shutdown is graceful.
NoUseAfterFree ==
  /\ QueueFreed(main_pc) => rx_pc = "idle"
  /\ ConnFreed(main_pc) => env_pc # "use" /\ cli_pc # "use"
  /\ main_pc = "done" => env_pc # "script" /\ cli_pc # "script"

\* main joins sig_th while the handler sig_th runs needs the lock main holds.
JoinDeadlock == main_pc = "join" /\ proc_pc = "lock"

\* After SIGTERM main returns ...
ShutdownCompletes == terminating ~> (main_pc = "done")

\* ... in every run in which no handler of mqtt:RX is publishing while phase
\* 0 holds the manager lock: then the wait's timeout, the second look at the
\* termination flag and the flush loop are enough for every join to return.
ShutdownCompletesUnlessPublishing == []~JoinDeadlock => ShutdownCompletes

\* Every message the queue took is freed in the end, handled or flushed, even
\* when SIGTERM comes between its push and its post, provided no message is
\* pushed once sig_th has left.
AcceptedIsReleased ==
  [](~JoinDeadlock /\ (proc_pc = "done" => rx_pc # "push")) =>
    \A m \in Msgs : (\E k \in DOMAIN accepted : accepted[k] = m) ~>
                    (\E k \in DOMAIN released : released[k] = m)
=============================================================================
