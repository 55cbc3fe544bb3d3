--------------------------- MODULE LifecycleProofs ---------------------------
(***************************************************************************)
(* The safety invariants of Lifecycle, and with it of PluginMngr and       *)
(* LuaEnv, for any plugins, commands, configurations and clients.          *)
(***************************************************************************)
EXTENDS Lifecycle, SequenceTheorems, TLAPS

(* Stages of main.                                                         *)
Loading == main \in {"umlua_init", "load", "init", "reg"}
Finished == main \in {"return", "exit", "crash"}
Closing == main \in {"join_cli", "join_envs", "free_envs", "free_lua"}
InPhase(ph) == main \in {"term_signals", "term"} /\ phase = ph

\* Nothing is terminated yet ...
Untouched == Loading \/ main \in {"umlua_start", "umd_loop"} \/ (main = "term_signals" /\ phase = 0)

\* ... all plugins went through phase 0, the server and the environments are
\* joined as well.
Plugins0 == Closing \/ InPhase(1) \/ main \in {"free", "return"}
ServerJoined == main \in {"join_envs", "free_envs", "free_lua", "free", "return"} \/ InPhase(1)
EnvsJoined == main \in {"free_envs", "free_lua", "free", "return"} \/ InPhase(1)

Ended(step) == step \in {"none", "done"}
EnvEnded(e) == th_env[e] \in {"none", "failed", "done"}

\* Main is where its variables say.
Places ==
  /\ Loading \/ main \in {"umlua_start", "umd_loop"} \/ Closing => phase = 0
  /\ main = "free" => phase = 1
  /\ main = "umlua_init" => i = 1
  /\ main \in {"init", "reg"} => i <= Len(LoadOrder) /\ LoadOrder[i] \in Loaded
  /\ main = "reg" => LoadOrder[i] = Mqtt
  /\ DOMAIN mods = EnvNrs \cup Clients \cup {Mqtt, OpenWrt}

\* The array holds plugins of the directory, those before the current one, each once.
Array ==
  /\ Loading => \A k \in DOMAIN plgs : \E j \in DOMAIN LoadOrder :
       plgs[k] = LoadOrder[j] /\ (j < i \/ (j = i /\ main \in {"init", "reg"}))
  /\ \A j, k \in DOMAIN plgs : plgs[j] = plgs[k] => j = k

\* A thread belongs to something that main will stop.
Threads ==
  /\ Loading \/ main = "umlua_start" =>
       /\ \A e \in EnvNrs : th_env[e] = "none"
       /\ cli_server = "none" /\ \A c \in Clients : cli_client[c] = "none"
  /\ ~Finished /\ sig_th # "none" => Mqtt \in Loaded
  /\ ~Finished /\ uctx => OpenWrt \in Loaded
  /\ uctx <=> ubus_th # "none"
  /\ \A e \in EnvNrs : EnvEnded(e) \/ (e \in envs /\ Joined(e))

\* What main has waited for is over, and only then freed.
Stopped ==
  /\ InPhase(0) /\ main = "term" => \A k \in DOMAIN plgs : k < i =>
       /\ plgs[k] = Mqtt => Ended(sig_th)
       /\ plgs[k] = OpenWrt => Ended(ubus_th)
  /\ Plugins0 => Ended(sig_th) /\ Ended(ubus_th)
  /\ ServerJoined => cli_server = "done"
  /\ EnvsJoined => \A e \in EnvNrs : EnvEnded(e)
  /\ Untouched => freed = {}
  /\ ~Untouched /\ ~EnvsJoined /\ ~Finished => freed \subseteq {"connection"}
  /\ "connection" \in freed => Ended(sig_th)

\* The phases that each plugin and signal has been through, at each place.
Live == WithTerm \cup Loaded
Passed(x) == x \in WithTerm \/ \E k \in DOMAIN plgs : k < i /\ x = plgs[k]
Phases ==
  /\ Untouched => \A x \in Terminable : termed[x] = <<>>
  /\ main = "term" => \A x \in Terminable :
       /\ Passed(x) => termed[x] = IF phase = 0 THEN <<0>> ELSE <<0, 1>>
       /\ ~Passed(x) => termed[x] = IF x \in Live /\ phase = 1 THEN <<0>> ELSE <<>>
  /\ Closing \/ (main = "term_signals" /\ phase = 1) =>
       \A x \in Terminable : termed[x] = IF x \in Live THEN <<0>> ELSE <<>>
  /\ main = "free" =>
       \A x \in Terminable : termed[x] = IF x \in Live THEN <<0, 1>> ELSE <<>>
  /\ Finished => \A x \in Terminable : termed[x] \in {<<>>, <<0>>, <<0, 1>>}
  /\ main = "term" => \A x \in Terminable : Passed(x) => x \in terminated
  /\ Closing \/ InPhase(1) \/ main = "free" => Live \subseteq terminated

\* As long as the array did not grow it did not move, and a hook leads to the
\* plugin that asked for it.
Hooks ==
  /\ cap = 0 \/ cap >= ARRAY_MIN
  /\ Len(plgs) <= ARRAY_MIN => cap \in {0, ARRAY_MIN}
  /\ ~Finished /\ cap <= ARRAY_MIN => base = 0
  /\ Len(plgs) <= ARRAY_MIN =>
       /\ \A c \in Cmds : hooks[c] # NoHook =>
            /\ hooks[c].base = base /\ hooks[c].idx \in DOMAIN plgs
            /\ c \in cmd_lst[plgs[hooks[c].idx]]
       /\ \A k \in DOMAIN plgs : \A c \in cmd_lst[plgs[k]] : hooks[c] # NoHook /\ hooks[c].idx = k

\* plugins/mqtt is not loaded any more, if it is not there.
Settled == Loading => \A k \in DOMAIN LoadOrder : k >= i => LoadOrder[k] # Mqtt

\* M.mqtt is registered by the time a thread other than plugins/mqtt's makes
\* its Lua state.
Modules ==
  /\ Mqtt \in Loaded /\ ~(main \in {"init", "reg"} /\ LoadOrder[i] = Mqtt) =>
       signals[MqttSubMod] # NoOwner
  /\ ubus_th # "none" => Settled
  /\ \A t \in DOMAIN mods \ {Mqtt} : mods[t] # NoState =>
       Settled /\ (Mqtt \in Loaded => MqttSubMod \in mods[t])

IInv == TypeOK /\ Places /\ Array /\ Threads /\ Stopped /\ Phases /\ Hooks /\ Modules

-----------------------------------------------------------------------------
(* Steps of the threads.                                                   *)

\* What only main changes.
LEMMA MainQuiet ==
  ASSUME IInv, UNCHANGED <<pluginVars, mainVars>>, DOMAIN mods' = DOMAIN mods
  PROVE  /\ Places' /\ Array' /\ Phases' /\ Hooks' /\ PluginTypeOK'
         /\ Loading' = Loading /\ Finished' = Finished /\ Loaded' = Loaded /\ Settled' = Settled
<1> USE DEF pluginVars, mainVars
<1>1. Loading' = Loading /\ Finished' = Finished /\ Loaded' = Loaded /\ Settled' = Settled
  BY DEF Loading, Finished, Loaded, Settled
<1>2. Places' /\ Array'
  BY <1>1 DEF IInv, Places, Array, Closing, Loaded, Loading
<1>3. PluginTypeOK' /\ Hooks'
  BY <1>1 DEF IInv, TypeOK, PluginTypeOK, Hooks, Finished
<1>4. Phases'
  <2>1. /\ Untouched' = Untouched /\ Closing' = Closing /\ \A ph : InPhase(ph)' = InPhase(ph)
        /\ Live' = Live /\ WithTerm' = WithTerm /\ \A x : Passed(x)' = Passed(x)
    BY <1>1 DEF Untouched, Closing, InPhase, Live, WithTerm, Passed, Loading, Loaded
  <2> QED BY <1>1, <2>1 DEF IInv, Phases
<1> QED BY <1>1, <1>2, <1>3, <1>4

\* Main's stages as the threads see them.
LEMMA StagesQuiet ==
  ASSUME UNCHANGED <<pluginVars, mainVars>>
  PROVE  /\ Untouched' = Untouched /\ Plugins0' = Plugins0 /\ ServerJoined' = ServerJoined
         /\ EnvsJoined' = EnvsJoined /\ \A ph : InPhase(ph)' = InPhase(ph)
BY DEF pluginVars, mainVars, Untouched, Plugins0, ServerJoined, EnvsJoined, InPhase, Loading, Closing

\* A Lua state that is made once plugins/mqtt is settled has its module.
LEMMA StateMade ==
  ASSUME IInv, NEW t \in DOMAIN mods, NewState(t), UNCHANGED <<pluginVars, mainVars>>,
         t # Mqtt => Settled
  PROVE  /\ DOMAIN mods' = DOMAIN mods
         /\ \A u \in DOMAIN mods' : mods'[u] = NoState \/ mods'[u] \subseteq SubMods
         /\ \A u \in DOMAIN mods' \ {Mqtt} : mods'[u] # NoState =>
              Settled' /\ (Mqtt \in Loaded' => MqttSubMod \in mods'[u])
<1>1. DOMAIN mods' = DOMAIN mods /\ mods'[t] = umplg_match_signal
      /\ \A u \in DOMAIN mods : u # t => mods'[u] = mods[u]
  BY DEF NewState
<1>2. /\ \A u \in DOMAIN mods : mods[u] = NoState \/ mods[u] \subseteq SubMods
      /\ \A u \in DOMAIN mods \ {Mqtt} : mods[u] # NoState =>
           Settled /\ (Mqtt \in Loaded => MqttSubMod \in mods[u])
  BY DEF IInv, TypeOK, LuaTypeOK, Modules
<1>3. umplg_match_signal \subseteq SubMods
  BY DEF umplg_match_signal
<1>4. Settled' = Settled /\ Loaded' = Loaded
  BY <1>1, MainQuiet
<1>5. Settled /\ Mqtt \in Loaded => MqttSubMod \in umplg_match_signal
  <2> SUFFICES ASSUME Settled, Mqtt \in Loaded PROVE signals[MqttSubMod] # NoOwner
    BY LifecycleAssumption DEF umplg_match_signal
  <2>1. main \in {"init", "reg"} => LoadOrder[i] # Mqtt
    <3>1. i \in Nat \ {0} /\ LoadOrder \in Seq(Plugins)
      BY LifecycleAssumption DEF IInv, TypeOK
    <3>2. main \in {"init", "reg"} => i \in DOMAIN LoadOrder /\ i >= i /\ Loading
      BY <3>1 DEF IInv, Places, Loading
    <3> QED BY <3>2 DEF Settled
  <2> QED BY <2>1 DEF IInv, Modules
<1> QED BY <1>1, <1>2, <1>3, <1>4, <1>5

\* What a step of a Lua thread must not disturb.
LEMMA LuaQuiet ==
  ASSUME IInv, UNCHANGED others, UNCHANGED <<config, envs>>, LuaTypeOK',
         DOMAIN mods' = DOMAIN mods,
         \A u \in DOMAIN mods' \ {Mqtt} : mods'[u] # NoState =>
           Settled' /\ (Mqtt \in Loaded' => MqttSubMod \in mods'[u]),
         Loading \/ main = "umlua_start" =>
           UNCHANGED <<th_env, cli_server>> /\ UNCHANGED cli_client,
         \A e \in EnvNrs : EnvEnded(e) => EnvEnded(e)',
         cli_server = "done" => cli_server' = "done"
  PROVE  IInv'
<1>1. UNCHANGED <<pluginVars, mainVars, sig_th, ubus_th, uctx, freed>>
  BY DEF others
<1>2. /\ Places' /\ Array' /\ Phases' /\ Hooks' /\ PluginTypeOK'
      /\ Loading' = Loading /\ Finished' = Finished /\ Loaded' = Loaded /\ Settled' = Settled
  BY <1>1, MainQuiet
<1>3. /\ Untouched' = Untouched /\ Plugins0' = Plugins0 /\ ServerJoined' = ServerJoined
      /\ EnvsJoined' = EnvsJoined /\ \A ph : InPhase(ph)' = InPhase(ph)
  BY <1>1, StagesQuiet
<1>4. TypeOK'
  BY <1>1, <1>2 DEF IInv, TypeOK, mainVars
<1>5. Threads'
  <2>1. \A e \in EnvNrs : EnvEnded(e)' \/ (e \in envs' /\ Joined(e)')
    BY DEF IInv, Threads, Joined
  <2>2. Loading \/ main = "umlua_start" =>
          /\ \A e \in EnvNrs : th_env'[e] = "none"
          /\ cli_server' = "none" /\ \A c \in Clients : cli_client'[c] = "none"
    BY DEF IInv, Threads
  <2> QED BY <1>1, <1>2, <2>1, <2>2 DEF IInv, Threads, mainVars
<1>6. Stopped'
  BY <1>1, <1>2, <1>3 DEF IInv, Stopped, mainVars, pluginVars, Ended
<1>7. Modules'
  BY <1>1, <1>2 DEF IInv, Modules, mainVars, pluginVars
<1> QED BY <1>2, <1>4, <1>5, <1>6, <1>7 DEF IInv

\* th_lua_env: an environment's thread starts after the plugins are loaded.
LEMMA EnvThreadStep ==
  ASSUME IInv, NEW e \in EnvNrs, EnvThread(e)
  PROVE  IInv'
<1> USE DEF configVars
<1>1. TypeOK /\ LuaTypeOK /\ Threads /\ e \in DOMAIN mods
  BY DEF IInv, TypeOK, Places
<1>2. UNCHANGED others /\ EnvStep(e) /\ th_env[e] \in {"setup", "test", "run"}
  BY DEF EnvThread, EnvStep, EnvSetup, EnvTest, EnvRun
<1>3. ~Loading /\ main # "umlua_start" /\ Settled /\ ~EnvEnded(e)
  BY <1>1, <1>2 DEF Threads, Settled, EnvEnded
<1>4. PICK step \in {"done", "test", "run"} : EnvGoTo(e, step)
  BY <1>2 DEF EnvStep, EnvSetup, EnvTest, EnvRun, AfterRun
<1>5. /\ th_env' \in [EnvNrs -> {"none", "failed", "setup", "test", "run", "done"}]
      /\ \A f \in EnvNrs : f # e => th_env'[f] = th_env[f]
  BY <1>1, <1>4 DEF LuaTypeOK, EnvGoTo
<1>6. /\ DOMAIN mods' = DOMAIN mods
      /\ \A u \in DOMAIN mods' : mods'[u] = NoState \/ mods'[u] \subseteq SubMods
      /\ \A u \in DOMAIN mods' \ {Mqtt} : mods'[u] # NoState =>
           Settled' /\ (Mqtt \in Loaded' => MqttSubMod \in mods'[u])
  <2>1. CASE NewState(e)
    BY <1>1, <1>2, <1>3, <2>1, StateMade DEF others
  <2>2. CASE UNCHANGED mods
    <3>1. Settled' = Settled /\ Loaded' = Loaded
      BY <1>2, <2>2, MainQuiet DEF others
    <3> QED BY <1>1, <2>2, <3>1 DEF LuaTypeOK, IInv, Modules
  <2> QED BY <1>2, <2>1, <2>2 DEF EnvStep, EnvSetup, EnvTest, EnvRun
<1>7. UNCHANGED <<config, envs, conserve_mem, terminating, cli_server, cli_client>>
  BY <1>2 DEF EnvStep, EnvSetup, EnvTest, EnvRun
<1>8. LuaTypeOK'
  BY <1>1, <1>5, <1>6, <1>7 DEF LuaTypeOK
<1>9. \A f \in EnvNrs : EnvEnded(f) => EnvEnded(f)'
  BY <1>3, <1>5 DEF EnvEnded
<1> QED BY <1>2, <1>3, <1>6, <1>7, <1>8, <1>9, LuaQuiet

\* th_cli_server and its clients start after the plugins are loaded, too.
LEMMA CliStep ==
  ASSUME IInv, UNCHANGED others,
         \/ CliSetup \/ CliStop \/ CliError
         \/ \E c \in Clients : CliAccept(c) \/ ClientError(c) \/ ClientStep(c)
  PROVE  IInv'
<1> USE DEF configVars
<1>1. TypeOK /\ LuaTypeOK /\ Threads
  BY DEF IInv, TypeOK
<1>2. ~Loading /\ main # "umlua_start" /\ Settled
  BY <1>1 DEF Threads, Settled, CliSetup, CliStop, CliError, CliAccept, ClientError, ClientStep,
     ClientSetup, ClientStop
<1>3. /\ DOMAIN mods' = DOMAIN mods
      /\ \A u \in DOMAIN mods' : mods'[u] = NoState \/ mods'[u] \subseteq SubMods
      /\ \A u \in DOMAIN mods' \ {Mqtt} : mods'[u] # NoState =>
           Settled' /\ (Mqtt \in Loaded' => MqttSubMod \in mods'[u])
  <2>1. CASE \E c \in Clients : NewState(c)
    <3>1. PICK c \in Clients : NewState(c)
      BY <2>1
    <3>2. c \in DOMAIN mods
      BY DEF IInv, Places
    <3> QED BY <1>2, <3>1, <3>2, StateMade DEF others
  <2>2. CASE UNCHANGED mods
    <3>1. Settled' = Settled /\ Loaded' = Loaded
      BY <2>2, MainQuiet DEF others
    <3> QED BY <1>1, <2>2, <3>1 DEF LuaTypeOK, IInv, Modules
  <2> QED BY <2>1, <2>2 DEF CliSetup, CliStop, CliError, CliAccept, ClientError, ClientStep,
       ClientSetup, ClientStop
<1>4. /\ UNCHANGED <<config, envs, conserve_mem, terminating, th_env>>
      /\ cli_server' \in {"none", "setup", "poll", "done"}
      /\ cli_server = "done" => cli_server' = "done"
  BY <1>1 DEF LuaTypeOK, CliSetup, CliStop, CliError, CliAccept, ClientError, ClientStep,
     ClientSetup, ClientStop
<1>5. cli_client' \in [Clients -> {"none", "setup", "poll", "done"}]
  BY <1>1 DEF LuaTypeOK, CliSetup, CliStop, CliError, CliAccept, ClientError, ClientStep,
     ClientSetup, ClientStop, ClientGoTo
<1>6. LuaTypeOK'
  BY <1>1, <1>3, <1>4, <1>5 DEF LuaTypeOK
<1>7. \A f \in EnvNrs : EnvEnded(f) => EnvEnded(f)'
  BY <1>4 DEF EnvEnded
<1> QED BY <1>2, <1>3, <1>4, <1>6, <1>7, LuaQuiet

\* SIGTERM, and signals that the threads of the plugins raise.
LEMMA RaisedStep ==
  ASSUME IInv, SigTerm \/ SigRaise \/ UbusCall
  PROVE  IInv'
<1> USE DEF configVars
<1>1. TypeOK /\ LuaTypeOK /\ Mqtt \in DOMAIN mods /\ OpenWrt \in DOMAIN mods
  BY DEF IInv, TypeOK, Places
<1>2. /\ UNCHANGED others
      /\ UNCHANGED <<config, envs, conserve_mem, th_env, cli_server, cli_client>>
      /\ terminating' \in BOOLEAN
  BY <1>1 DEF SigTerm, SigRaise, UbusCall, others, LuaTypeOK
<1>3. /\ DOMAIN mods' = DOMAIN mods
      /\ \A u \in DOMAIN mods' : mods'[u] = NoState \/ mods'[u] \subseteq SubMods
      /\ \A u \in DOMAIN mods' \ {Mqtt} : mods'[u] # NoState =>
           Settled' /\ (Mqtt \in Loaded' => MqttSubMod \in mods'[u])
  <2>1. CASE NewState(Mqtt)
    BY <1>1, <1>2, <2>1, StateMade DEF others
  <2>2. CASE NewState(OpenWrt) /\ ubus_th = "on"
    <3>1. Settled
      BY <2>2 DEF IInv, Modules
    <3> QED BY <1>1, <1>2, <2>2, <3>1, StateMade DEF others
  <2>3. CASE UNCHANGED mods
    <3>1. Settled' = Settled /\ Loaded' = Loaded
      BY <1>2, <2>3, MainQuiet DEF others
    <3> QED BY <1>1, <2>3, <3>1 DEF LuaTypeOK, IInv, Modules
  <2> QED BY <2>1, <2>2, <2>3 DEF SigTerm, SigRaise, UbusCall, StateForSignal
<1>4. LuaTypeOK'
  BY <1>1, <1>2, <1>3 DEF LuaTypeOK
<1>5. \A f \in EnvNrs : EnvEnded(f) => EnvEnded(f)'
  BY <1>2 DEF EnvEnded
<1> QED BY <1>2, <1>3, <1>4, <1>5, LuaQuiet

\* The plugins' threads end.
LEMMA PluginThreadEnds ==
  ASSUME IInv, SigStop \/ UbusStop \/ UbusError
  PROVE  IInv'
<1>1. /\ UNCHANGED <<pluginVars, mainVars, luaVars, uctx, freed>>
      /\ sig_th' \in {sig_th, "done"} /\ ubus_th' \in {ubus_th, "done"}
      /\ sig_th' # sig_th => sig_th = "on"
      /\ ubus_th' # ubus_th => ubus_th = "on"
  BY DEF SigStop, UbusStop, UbusError
<1>2. /\ Places' /\ Array' /\ Phases' /\ Hooks' /\ PluginTypeOK'
      /\ Loading' = Loading /\ Finished' = Finished /\ Loaded' = Loaded /\ Settled' = Settled
  BY <1>1, MainQuiet DEF luaVars
<1>3. /\ Untouched' = Untouched /\ Plugins0' = Plugins0 /\ ServerJoined' = ServerJoined
      /\ EnvsJoined' = EnvsJoined /\ \A ph : InPhase(ph)' = InPhase(ph)
  BY <1>1, StagesQuiet
<1>4. TypeOK'
  BY <1>1, <1>2 DEF IInv, TypeOK, LuaTypeOK, luaVars, mainVars, PluginSteps
<1>5. Threads'
  BY <1>1, <1>2 DEF IInv, Threads, luaVars, mainVars, EnvEnded, Joined
<1>6. Stopped'
  BY <1>1, <1>2, <1>3 DEF IInv, Stopped, luaVars, mainVars, pluginVars, Ended, EnvEnded
<1>7. Modules'
  BY <1>1, <1>2 DEF IInv, Modules, luaVars, mainVars, pluginVars
<1> QED BY <1>2, <1>4, <1>5, <1>6, <1>7 DEF IInv

-----------------------------------------------------------------------------
(* Steps of main: start-up.                                                *)

LEMMA HooksQuiet ==
  ASSUME IInv, UNCHANGED <<plgs, base, cap, hooks>>, Finished => Finished'
  PROVE  Hooks'
BY DEF IInv, Hooks

LEMMA ArrayQuiet ==
  ASSUME IInv, UNCHANGED plgs
  PROVE  Loaded' = Loaded /\ (~Loading' => Array')
BY DEF IInv, Array, Loaded

\* What the invariant says of main's place, with the place written out.
LEMMA MainTypes ==
  ASSUME IInv
  PROVE  /\ TypeOK /\ PluginTypeOK /\ LuaTypeOK /\ i \in Nat \ {0} /\ phase \in {0, 1}
         /\ LoadOrder \in Seq(Plugins) /\ DOMAIN LoadOrder = 1..Len(LoadOrder)
         /\ Len(LoadOrder) \in Nat
         /\ plgs \in Seq(Plugins) /\ DOMAIN plgs = 1..Len(plgs) /\ Len(plgs) \in Nat
<1>1. TypeOK /\ PluginTypeOK /\ LuaTypeOK /\ i \in Nat \ {0} /\ phase \in {0, 1}
  BY DEF IInv, TypeOK
<1>2. plgs \in Seq(Plugins \ BadPlugins)
  BY <1>1 DEF PluginTypeOK
<1>3. Len(plgs) \in Nat /\ DOMAIN plgs = 1..Len(plgs)
  BY <1>2
<1>4. \A k \in 1..Len(plgs) : plgs[k] \in Plugins
  BY <1>2
<1>5. plgs \in Seq(Plugins)
  BY <1>2, <1>3, <1>4
<1> QED BY <1>1, <1>3, <1>5, LifecycleAssumption

LEMMA MainInitStep ==
  ASSUME IInv, MainInit
  PROVE  IInv'
<1> USE DEF MainInit, umlua_init, MainOrder
<1>1. /\ TypeOK /\ PluginTypeOK /\ LuaTypeOK /\ i \in Nat \ {0} /\ phase \in {0, 1}
      /\ main = "umlua_init" /\ main' = "load" /\ Loading /\ Loading' /\ i = 1
  BY MainTypes DEF IInv, Places, Loading
<1>2. plgs' = plgs /\ DOMAIN plgs = {} /\ Loaded = {} /\ Loaded' = {}
  <2>1. \A k \in DOMAIN plgs : FALSE
    BY <1>1, MainTypes DEF IInv, Array
  <2> QED BY <2>1 DEF Loaded
<1>3. envs' \subseteq EnvNrs
  BY <1>1 DEF Listed, Accepted, LuaTypeOK, EnvNrs
<1>4. signals' \in [Sigs \cup SubMods -> Owners \cup {NoOwner}]
  <2>1. signals \in [Sigs \cup SubMods -> Owners \cup {NoOwner}]
    BY <1>1 DEF PluginTypeOK
  <2>2. \A x \in Sigs : FirstWithEvent(x) # {} =>
          (CHOOSE e \in FirstWithEvent(x) : TRUE) \in Owners
    <3> SUFFICES ASSUME NEW x \in Sigs, FirstWithEvent(x) # {}
                 PROVE  (CHOOSE e \in FirstWithEvent(x) : TRUE) \in Owners
      OBVIOUS
    <3>1. (CHOOSE e \in FirstWithEvent(x) : TRUE) \in FirstWithEvent(x)
      OBVIOUS
    <3>2. FirstWithEvent(x) \subseteq EnvNrs
      BY <1>1 DEF FirstWithEvent, Accepted, LuaTypeOK, EnvNrs
    <3> QED BY <3>1, <3>2, OwnersAssumption
  <2> QED BY <2>1, <2>2
<1>5. TypeOK'
  <2>1. PluginTypeOK'
    BY <1>1, <1>4 DEF PluginTypeOK
  <2>2. LuaTypeOK'
    BY <1>1, <1>3 DEF LuaTypeOK
  <2> QED BY <1>1, <2>1, <2>2 DEF TypeOK
<1>6. Places'
  BY <1>1 DEF IInv, Places, Closing
<1>7. Array'
  BY <1>2 DEF Array
<1>8. Threads'
  <2>1. \A e \in EnvNrs : EnvEnded(e)'
    BY <1>1 DEF IInv, Threads, EnvEnded
  <2> QED BY <1>1, <1>2, <2>1 DEF IInv, Threads, Finished
<1>9. Stopped'
  BY <1>1 DEF IInv, Stopped, Untouched, Plugins0, ServerJoined, EnvsJoined, Closing, InPhase, Ended
<1>10. Phases'
  BY <1>1 DEF IInv, Phases, Untouched, Closing, InPhase, Finished
<1>11. Hooks'
  BY <1>1, HooksQuiet DEF Finished
<1>12. Modules'
  BY <1>1, <1>2 DEF IInv, Modules, Settled
<1> QED BY <1>5, <1>6, <1>7, <1>8, <1>9, <1>10, <1>11, <1>12 DEF IInv

\* A shared object is refused or a plugin has nothing to start: on to the next.
LEMMA NextPluginStep ==
  ASSUME IInv, MainRefuse \/ InitOther
  PROVE  IInv'
<1>1. /\ TypeOK /\ PluginTypeOK /\ LuaTypeOK /\ i \in Nat \ {0} /\ phase \in {0, 1}
      /\ i' = i + 1 /\ i' \in Nat \ {0} /\ main \in {"load", "init"} /\ main' = "load"
      /\ Loading /\ Loading' /\ DOMAIN LoadOrder = 1..Len(LoadOrder) /\ Len(LoadOrder) \in Nat
      /\ UNCHANGED <<pluginVars, luaVars, phase, sig_th, ubus_th, uctx, freed>>
  BY MainTypes DEF MainRefuse, InitOther, Loading
<1> USE DEF pluginVars, luaVars
<1>2. Loaded' = Loaded
  BY <1>1 DEF Loaded
<1>3. TypeOK'
  BY <1>1 DEF TypeOK, PluginTypeOK, LuaTypeOK
<1>4. Places'
  BY <1>1 DEF IInv, Places, Closing
<1>5. Array'
  <2>1. \A j \in DOMAIN LoadOrder : j <= i => j < i'
    BY <1>1
  <2>2. \A k \in DOMAIN plgs : \E j \in DOMAIN LoadOrder : plgs[k] = LoadOrder[j] /\ j <= i
    BY <1>1 DEF IInv, Array
  <2> QED BY <1>1, <2>1, <2>2 DEF IInv, Array
<1>6. Threads'
  BY <1>1, <1>2 DEF IInv, Threads, Finished, Loading, EnvEnded, Joined
<1>7. Stopped'
  BY <1>1 DEF IInv, Stopped, Untouched, Plugins0, ServerJoined, EnvsJoined, Closing, InPhase,
     Ended, EnvEnded, Finished, Loading
<1>8. Phases'
  BY <1>1 DEF IInv, Phases, Untouched, Closing, InPhase, Finished
<1>9. Hooks'
  BY <1>1, HooksQuiet DEF Finished
<1>10. Modules'
  <2>1. Settled => Settled'
    BY <1>1 DEF Settled
  <2>2. main = "init" => LoadOrder[i] # Mqtt
    BY DEF MainRefuse, InitOther
  <2>3. Mqtt \in Loaded => signals[MqttSubMod] # NoOwner
    BY <1>1, <2>2 DEF IInv, Modules
  <2> QED BY <1>1, <1>2, <2>1, <2>3 DEF IInv, Modules
<1> QED BY <1>3, <1>4, <1>5, <1>6, <1>7, <1>8, <1>9, <1>10 DEF IInv

\* utarray_push_back: the element is behind the others, and the array moves only
\* when it grows beyond ARRAY_MIN.
LEMMA Pushed ==
  ASSUME IInv, NEW p \in Plugins \ BadPlugins, PushBack(p)
  PROVE  /\ plgs' \in Seq(Plugins \ BadPlugins) /\ Len(plgs') = Len(plgs) + 1 /\ Len(plgs') <= cap'
         /\ plgs'[Len(plgs) + 1] = p /\ \A k \in 1..Len(plgs) : plgs'[k] = plgs[k]
         /\ base' \in Nat /\ cap' \in Nat
         /\ cap' >= ARRAY_MIN
         /\ Len(plgs') <= ARRAY_MIN => cap' = ARRAY_MIN
         /\ cap' <= ARRAY_MIN => cap \in {0, ARRAY_MIN} /\ base' = base
<1>1. /\ plgs \in Seq(Plugins \ BadPlugins) /\ Len(plgs) <= cap /\ cap \in Nat /\ base \in Nat
      /\ Len(plgs) \in Nat /\ ARRAY_MIN \in Nat \ {0}
      /\ cap = 0 \/ cap >= ARRAY_MIN
      /\ Len(plgs) <= ARRAY_MIN => cap \in {0, ARRAY_MIN}
  BY MainTypes, PluginAssumption DEF PluginTypeOK, IInv, Hooks
<1>2. plgs' = Append(plgs, p)
  BY DEF PushBack
<1>3. /\ plgs' \in Seq(Plugins \ BadPlugins) /\ Len(plgs') = Len(plgs) + 1
      /\ plgs'[Len(plgs) + 1] = p /\ \A k \in 1..Len(plgs) : plgs'[k] = plgs[k]
  BY <1>1, <1>2, AppendProperties
<1>4. CASE Len(plgs) < cap
  <2>1. base' = base /\ cap' = cap
    BY <1>4 DEF PushBack
  <2> QED BY <1>1, <1>3, <1>4, <2>1
<1>5. CASE ~(Len(plgs) < cap) /\ cap = 0
  <2>1. base' = base /\ cap' = ARRAY_MIN
    BY <1>5 DEF PushBack
  <2> QED BY <1>1, <1>3, <1>5, <2>1
<1>6. CASE ~(Len(plgs) < cap) /\ cap # 0
  <2>1. base' \in {base, base + 1} /\ cap' = 2 * cap
    BY <1>6 DEF PushBack
  <2>2. base' \in Nat
    BY <1>1, <2>1
  <2>3. Len(plgs) = cap /\ cap > 0 /\ cap >= ARRAY_MIN
    BY <1>1, <1>6
  <2>4. cap' \in Nat /\ cap' > ARRAY_MIN /\ Len(plgs') <= cap'
    BY <1>1, <1>3, <2>1, <2>3
  <2>5. ~(Len(plgs') <= ARRAY_MIN) /\ ~(cap' <= ARRAY_MIN) /\ cap' >= ARRAY_MIN
    BY <1>1, <1>3, <2>3, <2>4
  <2> QED BY <1>3, <2>2, <2>4, <2>5
<1> QED BY <1>4, <1>5, <1>6

LEMMA MainLoadStep ==
  ASSUME IInv, MainLoad
  PROVE  IInv'
<1> DEFINE n == Len(plgs)
<1>1. PICK p : p = LoadOrder[i]
  OBVIOUS
<1>2. /\ TypeOK /\ PluginTypeOK /\ LuaTypeOK /\ i \in Nat \ {0} /\ phase \in {0, 1}
      /\ main = "load" /\ main' = "init" /\ Loading /\ Loading'
      /\ DOMAIN LoadOrder = 1..Len(LoadOrder) /\ Len(LoadOrder) \in Nat
      /\ i \in DOMAIN LoadOrder /\ p \in Plugins /\ ~Refused(p) /\ PushBack(p)
      /\ DOMAIN plgs = 1..n /\ n \in Nat
      /\ UNCHANGED <<signals, terminated, termed, luaVars, i, phase, sig_th, ubus_th, uctx, freed>>
  BY <1>1, MainTypes DEF MainLoad, Loading, umplg_load
<1> USE DEF luaVars
<1>3. p \in Plugins \ BadPlugins /\ \A c \in cmd_lst[p] : hooks[c] = NoHook
  BY <1>2 DEF Refused, HookTaken
<1>4. /\ plgs' \in Seq(Plugins \ BadPlugins) /\ Len(plgs') = n + 1 /\ Len(plgs') <= cap'
      /\ plgs'[n + 1] = p /\ (\A k \in 1..n : plgs'[k] = plgs[k])
      /\ base' \in Nat /\ cap' \in Nat
      /\ cap' >= ARRAY_MIN
      /\ (Len(plgs') <= ARRAY_MIN => cap' = ARRAY_MIN)
      /\ (cap' <= ARRAY_MIN => cap \in {0, ARRAY_MIN} /\ base' = base)
  BY <1>2, <1>3, Pushed
<1>5. hooks' = [c \in Cmds |->
                 IF c \in cmd_lst[p] THEN [base |-> base', idx |-> n + 1] ELSE hooks[c]]
  BY <1>1, <1>4 DEF MainLoad, umplg_load
<1>6. /\ DOMAIN plgs' = 1..(n + 1) /\ n + 1 \in 1..(n + 1) /\ n + 1 \in Nat \ {0}
      /\ \A k \in 1..(n + 1) : k = n + 1 \/ k \in 1..n
      /\ \A k \in 1..n : k # n + 1 /\ k \in 1..(n + 1)
  BY <1>2, <1>4
<1>7. Loaded' = Loaded \cup {p}
  <2>1. Loaded' = {plgs'[k] : k \in 1..(n + 1)} /\ Loaded = {plgs[k] : k \in 1..n}
    BY <1>2, <1>6 DEF Loaded
  <2> QED BY <1>4, <1>6, <2>1
<1>8. p \notin Loaded
  <2> SUFFICES ASSUME NEW k \in DOMAIN plgs, plgs[k] = p PROVE FALSE
    BY DEF Loaded
  <2>1. PICK j \in DOMAIN LoadOrder : plgs[k] = LoadOrder[j] /\ j < i
    BY <1>2 DEF IInv, Array
  <2>2. j = i
    BY <1>1, <1>2, <2>1, LifecycleAssumption
  <2> QED BY <1>2, <2>1, <2>2
<1>9. TypeOK'
  <2>1. hooks' \in [Cmds -> Pointer \cup {NoHook}]
    <3>1. [base |-> base', idx |-> n + 1] \in Pointer
      BY <1>4, <1>6 DEF Pointer
    <3>2. hooks \in [Cmds -> Pointer \cup {NoHook}]
      BY <1>2 DEF PluginTypeOK
    <3> QED BY <1>5, <3>1, <3>2
  <2>2. PluginTypeOK'
    BY <1>2, <1>4, <2>1 DEF PluginTypeOK
  <2> QED BY <1>2, <2>2 DEF TypeOK, LuaTypeOK
<1>10. Places'
  BY <1>1, <1>2, <1>7 DEF IInv, Places, Closing, Loading
<1>11. Array'
  <2>1. ASSUME NEW k \in DOMAIN plgs'
        PROVE  \E j \in DOMAIN LoadOrder :
                 plgs'[k] = LoadOrder[j] /\ (j < i' \/ (j = i' /\ main' \in {"init", "reg"}))
    <3>1. CASE k = n + 1
      BY <1>1, <1>2, <1>4, <3>1
    <3>2. CASE k \in 1..n
      BY <1>2, <1>4, <3>2 DEF IInv, Array
    <3> QED BY <1>6, <3>1, <3>2
  <2>2. ASSUME NEW j \in DOMAIN plgs', NEW k \in DOMAIN plgs', plgs'[j] = plgs'[k]
        PROVE  j = k
    <3>1. \A l \in 1..n : plgs[l] # p
      BY <1>2, <1>8 DEF Loaded
    <3> QED BY <1>2, <1>4, <1>6, <2>2, <3>1 DEF IInv, Array
  <2> QED BY <2>1, <2>2 DEF Array
<1>12. Threads'
  BY <1>2, <1>7 DEF IInv, Threads, Finished, Loading, EnvEnded, Joined
<1>13. Stopped'
  BY <1>2 DEF IInv, Stopped, Untouched, Plugins0, ServerJoined, EnvsJoined, Closing, InPhase,
     Ended, EnvEnded, Finished, Loading
<1>14. Phases'
  BY <1>2 DEF IInv, Phases, Untouched, Closing, InPhase, Finished
<1>15. Hooks'
  <2>1. cap' <= ARRAY_MIN => base' = 0
    <3>1. cap <= ARRAY_MIN /\ ~Finished => base = 0
      BY DEF IInv, Hooks
    <3>2. cap \in {0, ARRAY_MIN} => cap <= ARRAY_MIN
      BY PluginAssumption
    <3> QED BY <1>2, <1>4, <3>1, <3>2 DEF Finished
  <2>2. ASSUME Len(plgs') <= ARRAY_MIN
        PROVE  /\ \A c \in Cmds : hooks'[c] # NoHook =>
                    /\ hooks'[c].base = base' /\ hooks'[c].idx \in DOMAIN plgs'
                    /\ c \in cmd_lst[plgs'[hooks'[c].idx]]
               /\ \A k \in DOMAIN plgs' : \A c \in cmd_lst[plgs'[k]] :
                    hooks'[c] # NoHook /\ hooks'[c].idx = k
    <3>1. n <= ARRAY_MIN /\ base' = base
      BY <1>2, <1>4, <2>2, PluginAssumption
    <3>2. /\ \A c \in Cmds : hooks[c] # NoHook =>
               /\ hooks[c].base = base /\ hooks[c].idx \in 1..n
               /\ c \in cmd_lst[plgs[hooks[c].idx]]
          /\ \A k \in 1..n : \A c \in cmd_lst[plgs[k]] : hooks[c] # NoHook /\ hooks[c].idx = k
      BY <1>2, <3>1 DEF IInv, Hooks
    <3>3. [base |-> base', idx |-> n + 1] # NoHook
      BY <1>4, <1>6, PluginAssumption
    <3>4. PICK h : h = [base |-> base', idx |-> n + 1]
      OBVIOUS
    <3>5. h # NoHook /\ h.base = base' /\ h.idx = n + 1
      BY <3>3, <3>4
    <3>6. \A c \in Cmds : hooks'[c] = IF c \in cmd_lst[p] THEN h ELSE hooks[c]
      BY <1>5, <3>4
    <3>7. \A q \in Plugins : cmd_lst[q] \subseteq Cmds
      BY PluginAssumption
    <3>8. ASSUME NEW c \in Cmds, hooks'[c] # NoHook
          PROVE  /\ hooks'[c].base = base' /\ hooks'[c].idx \in DOMAIN plgs'
                 /\ c \in cmd_lst[plgs'[hooks'[c].idx]]
      <4>1. CASE c \in cmd_lst[p]
        BY <1>4, <1>6, <3>5, <3>6, <4>1
      <4>2. CASE c \notin cmd_lst[p]
        BY <1>4, <1>6, <3>1, <3>2, <3>6, <3>8, <4>2
      <4> QED BY <4>1, <4>2
    <3>9. ASSUME NEW k \in DOMAIN plgs', NEW c \in cmd_lst[plgs'[k]]
          PROVE  hooks'[c] # NoHook /\ hooks'[c].idx = k
      <4>1. CASE k = n + 1
        <5>1. c \in cmd_lst[p] /\ c \in Cmds
          BY <1>2, <1>4, <3>7, <4>1
        <5> QED BY <3>5, <3>6, <4>1, <5>1
      <4>2. CASE k \in 1..n
        <5>1. c \in cmd_lst[plgs[k]] /\ plgs[k] \in Plugins
          BY <1>4, <4>2, MainTypes
        <5>2. c \in Cmds /\ hooks[c] # NoHook /\ hooks[c].idx = k
          BY <3>2, <3>7, <4>2, <5>1
        <5> QED BY <1>3, <3>6, <5>2
      <4> QED BY <1>6, <4>1, <4>2
    <3> QED BY <3>8, <3>9
  <2> QED BY <1>4, <2>1, <2>2 DEF Hooks
<1>16. Modules'
  <2>1. Settled' = Settled
    BY <1>2 DEF Settled
  <2>2. Settled => p # Mqtt
    <3>1. i >= i
      BY <1>2
    <3> QED BY <1>1, <1>2, <3>1 DEF Settled
  <2>3. Mqtt \in Loaded /\ p # Mqtt => signals[MqttSubMod] # NoOwner
    BY <1>2 DEF IInv, Modules
  <2> QED BY <1>1, <1>2, <1>7, <2>1, <2>2, <2>3 DEF IInv, Modules
<1> QED BY <1>9, <1>10, <1>11, <1>12, <1>13, <1>14, <1>15, <1>16 DEF IInv

\* The array is complete.
LEMMA MainLoadedStep ==
  ASSUME IInv, MainLoaded
  PROVE  IInv'
<1>1. /\ TypeOK /\ PluginTypeOK /\ LuaTypeOK /\ i \in Nat \ {0} /\ phase \in {0, 1}
      /\ main = "load" /\ main' = "umlua_start" /\ Loading /\ ~Loading'
      /\ UNCHANGED <<pluginVars, luaVars, i, phase, sig_th, ubus_th, uctx, freed>>
  BY MainTypes DEF MainLoaded, Loading, MainOrder
<1> USE DEF pluginVars, luaVars
<1>2. Loaded' = Loaded /\ Array'
  BY <1>1, ArrayQuiet
<1>3. TypeOK' /\ Places'
  BY <1>1 DEF IInv, TypeOK, PluginTypeOK, LuaTypeOK, Places, Closing
<1>4. Threads'
  BY <1>1, <1>2 DEF IInv, Threads, Finished, EnvEnded, Joined
<1>5. Stopped'
  BY <1>1 DEF IInv, Stopped, Untouched, Plugins0, ServerJoined, EnvsJoined, Closing, InPhase,
     Ended, EnvEnded, Finished
<1>6. Phases'
  BY <1>1 DEF IInv, Phases, Untouched, Closing, InPhase, Finished
<1>7. Hooks'
  BY <1>1, HooksQuiet DEF Finished
<1>8. Modules'
  BY <1>1, <1>2 DEF IInv, Modules, Settled
<1> QED BY <1>2, <1>3, <1>4, <1>5, <1>6, <1>7, <1>8 DEF IInv

\* init of plugins/mqtt: the thread of a connection belongs to a loaded plugin.
LEMMA InitMqttConnsStep ==
  ASSUME IInv, InitMqttConns
  PROVE  IInv'
<1>1. /\ TypeOK /\ PluginTypeOK /\ LuaTypeOK /\ i \in Nat \ {0} /\ phase \in {0, 1}
      /\ main = "init" /\ main' = "reg" /\ Loading /\ Loading' /\ LoadOrder[i] = Mqtt
      /\ Mqtt \in Loaded /\ sig_th' \in {"none", "on"}
      /\ UNCHANGED <<pluginVars, luaVars, i, phase, ubus_th, uctx, freed>>
  BY MainTypes DEF InitMqttConns, Loading, IInv, Places
<1> USE DEF pluginVars, luaVars
<1>2. Loaded' = Loaded
  BY <1>1 DEF Loaded
<1>3. TypeOK' /\ Places'
  BY <1>1, <1>2 DEF IInv, TypeOK, PluginTypeOK, LuaTypeOK, Places, Closing, PluginSteps
<1>4. Array'
  BY <1>1 DEF IInv, Array
<1>5. Threads'
  BY <1>1, <1>2 DEF IInv, Threads, Finished, Loading, EnvEnded, Joined
<1>6. Stopped'
  BY <1>1 DEF IInv, Stopped, Untouched, Plugins0, ServerJoined, EnvsJoined, Closing, InPhase,
     Ended, EnvEnded, Finished, Loading
<1>7. Phases'
  BY <1>1 DEF IInv, Phases, Untouched, Closing, InPhase, Finished
<1>8. Hooks'
  BY <1>1, HooksQuiet DEF Finished
<1>9. Modules'
  <2>1. Settled' = Settled
    BY <1>1 DEF Settled
  <2> QED BY <1>1, <1>2, <2>1 DEF IInv, Modules
<1> QED BY <1>3, <1>4, <1>5, <1>6, <1>7, <1>8, <1>9 DEF IInv

\* init of plugins/mqtt: the module is registered before the next plugin.
LEMMA InitMqttSignalStep ==
  ASSUME IInv, InitMqttSignal
  PROVE  IInv'
<1>1. /\ TypeOK /\ PluginTypeOK /\ LuaTypeOK /\ i \in Nat \ {0} /\ phase \in {0, 1}
      /\ main = "reg" /\ main' = "load" /\ Loading /\ Loading'
      /\ i' = i + 1 /\ i' \in Nat \ {0}
      /\ DOMAIN LoadOrder = 1..Len(LoadOrder) /\ Len(LoadOrder) \in Nat
      /\ signals' = umplg_reg_signal(signals, MqttSubMod, Mqtt)
      /\ UNCHANGED <<plgs, base, cap, hooks, terminated, termed, luaVars, phase, sig_th, ubus_th, uctx, freed>>
  BY MainTypes DEF InitMqttSignal, Loading
<1> USE DEF luaVars
<1>2. Loaded' = Loaded
  BY <1>1 DEF Loaded
<1>3. /\ signals' \in [Sigs \cup SubMods -> Owners \cup {NoOwner}]
      /\ signals'[MqttSubMod] # NoOwner
  BY <1>1, LifecycleAssumption, PluginAssumption DEF PluginTypeOK, umplg_reg_signal
<1>4. TypeOK' /\ Places'
  BY <1>1, <1>3 DEF IInv, TypeOK, PluginTypeOK, LuaTypeOK, Places, Closing
<1>5. Array'
  <2>1. \A j \in DOMAIN LoadOrder : j <= i => j < i'
    BY <1>1
  <2>2. \A k \in DOMAIN plgs : \E j \in DOMAIN LoadOrder : plgs[k] = LoadOrder[j] /\ j <= i
    BY <1>1 DEF IInv, Array
  <2> QED BY <1>1, <2>1, <2>2 DEF IInv, Array
<1>6. Threads'
  BY <1>1, <1>2 DEF IInv, Threads, Finished, Loading, EnvEnded, Joined
<1>7. Stopped'
  BY <1>1 DEF IInv, Stopped, Untouched, Plugins0, ServerJoined, EnvsJoined, Closing, InPhase,
     Ended, EnvEnded, Finished, Loading
<1>8. Phases'
  BY <1>1 DEF IInv, Phases, Untouched, Closing, InPhase, Finished
<1>9. Hooks'
  BY <1>1, HooksQuiet DEF Finished
<1>10. Modules'
  <2>1. Settled => Settled'
    BY <1>1 DEF Settled
  <2> QED BY <1>1, <1>2, <1>3, <2>1 DEF IInv, Modules
<1> QED BY <1>4, <1>5, <1>6, <1>7, <1>8, <1>9, <1>10 DEF IInv

\* init of plugins/openwrt: plugins/mqtt comes before it, or not at all.
LEMMA InitOpenWrtStep ==
  ASSUME IInv, InitOpenWrt
  PROVE  IInv'
<1>1. /\ TypeOK /\ PluginTypeOK /\ LuaTypeOK /\ i \in Nat \ {0} /\ phase \in {0, 1}
      /\ main = "init" /\ main' = "load" /\ Loading /\ Loading'
      /\ i' = i + 1 /\ i' \in Nat \ {0} /\ i \in DOMAIN LoadOrder /\ LoadOrder[i] = OpenWrt
      /\ OpenWrt \in Loaded
      /\ DOMAIN LoadOrder = 1..Len(LoadOrder) /\ Len(LoadOrder) \in Nat
      /\ uctx' \in BOOLEAN /\ ubus_th' = (IF uctx' THEN "on" ELSE "none")
      /\ UNCHANGED <<pluginVars, luaVars, phase, sig_th, freed>>
  BY MainTypes DEF InitOpenWrt, Loading, IInv, Places
<1> USE DEF pluginVars, luaVars
<1>2. Loaded' = Loaded
  BY <1>1 DEF Loaded
<1>3. TypeOK' /\ Places'
  BY <1>1 DEF IInv, TypeOK, PluginTypeOK, LuaTypeOK, Places, Closing, PluginSteps
<1>4. Array'
  <2>1. \A j \in DOMAIN LoadOrder : j <= i => j < i'
    BY <1>1
  <2>2. \A k \in DOMAIN plgs : \E j \in DOMAIN LoadOrder : plgs[k] = LoadOrder[j] /\ j <= i
    BY <1>1 DEF IInv, Array
  <2> QED BY <1>1, <2>1, <2>2 DEF IInv, Array
<1>5. Threads'
  BY <1>1, <1>2 DEF IInv, Threads, Finished, Loading, EnvEnded, Joined
<1>6. Stopped'
  BY <1>1 DEF IInv, Stopped, Untouched, Plugins0, ServerJoined, EnvsJoined, Closing, InPhase,
     Ended, EnvEnded, Finished, Loading
<1>7. Phases'
  BY <1>1 DEF IInv, Phases, Untouched, Closing, InPhase, Finished
<1>8. Hooks'
  BY <1>1, HooksQuiet DEF Finished
<1>9. Modules'
  <2>1. Settled'
    <3> SUFFICES ASSUME NEW k \in DOMAIN LoadOrder, k >= i' PROVE LoadOrder[k] # Mqtt
      BY DEF Settled
    <3>1. ~(k < i)
      BY <1>1
    <3> QED BY <1>1, <3>1, LifecycleAssumption
  <2>2. Mqtt \in Loaded => signals[MqttSubMod] # NoOwner
    BY <1>1, LifecycleAssumption DEF IInv, Modules
  <2> QED BY <1>1, <1>2, <2>1, <2>2 DEF IInv, Modules
<1> QED BY <1>3, <1>4, <1>5, <1>6, <1>7, <1>8, <1>9 DEF IInv

\* umlua_start: every thread it creates is one that shutdown joins.
LEMMA MainStartStep ==
  ASSUME IInv, MainStart
  PROVE  IInv'
<1>1. PICK failed \in SUBSET envs : umlua_start(failed)
  BY DEF MainStart
<1>2. /\ TypeOK /\ PluginTypeOK /\ LuaTypeOK /\ i \in Nat \ {0} /\ phase \in {0, 1}
      /\ main = "umlua_start" /\ main' = "umd_loop" /\ ~Loading /\ ~Loading'
      /\ cli_server' = "setup"
      /\ UNCHANGED <<pluginVars, configVars, terminating, cli_client, mods, i, phase, sig_th, ubus_th, uctx, freed>>
  BY <1>1, MainTypes DEF MainStart, Loading, MainOrder, umlua_start
<1> USE DEF pluginVars, configVars
<1>3. /\ th_env' \in [EnvNrs -> {"none", "failed", "setup", "test", "run", "done"}]
      /\ \A e \in EnvNrs : th_env'[e] \in {"none", "failed"} \/ (e \in envs /\ Joined(e))
  BY <1>1 DEF umlua_start, AutoStart, Joined
<1>4. Loaded' = Loaded /\ Array'
  BY <1>2, ArrayQuiet
<1>5. TypeOK' /\ Places'
  BY <1>2, <1>3 DEF IInv, TypeOK, PluginTypeOK, LuaTypeOK, Places, Closing
<1>6. Threads'
  <2>1. \A e \in EnvNrs : EnvEnded(e)' \/ (e \in envs' /\ Joined(e)')
    BY <1>2, <1>3 DEF EnvEnded, Joined
  <2> QED BY <1>2, <1>4, <2>1 DEF IInv, Threads, Finished
<1>7. Stopped'
  BY <1>2 DEF IInv, Stopped, Untouched, Plugins0, ServerJoined, EnvsJoined, Closing, InPhase,
     Ended, Finished
<1>8. Phases'
  BY <1>2 DEF IInv, Phases, Untouched, Closing, InPhase, Finished
<1>9. Hooks'
  BY <1>2, HooksQuiet DEF Finished
<1>10. Modules'
  BY <1>2, <1>4 DEF IInv, Modules, Settled
<1> QED BY <1>4, <1>5, <1>6, <1>7, <1>8, <1>9, <1>10 DEF IInv

-----------------------------------------------------------------------------
(* Steps of main: termination.                                             *)

\* Once loading is over the array and the hooks stay, until all is freed.
LEMMA Terminating ==
  ASSUME IInv, ~Loading, ~Loading', UNCHANGED <<plgs, base, cap, hooks, signals, mods, ubus_th>>,
         Finished => Finished'
  PROVE  /\ Array' /\ Hooks' /\ Modules'
         /\ Loaded' = Loaded /\ WithTerm' = WithTerm /\ Live' = Live
<1>1. Loaded' = Loaded /\ Array' /\ WithTerm' = WithTerm /\ Live' = Live
  BY ArrayQuiet DEF WithTerm, Live
<1>2. Hooks'
  BY HooksQuiet
<1>3. Modules'
  BY <1>1 DEF IInv, Modules, Settled, Loading
<1> QED BY <1>1, <1>2, <1>3

LEMMA MainLoopStep ==
  ASSUME IInv, MainLoop
  PROVE  IInv'
<1>1. /\ TypeOK /\ PluginTypeOK /\ LuaTypeOK /\ i \in Nat \ {0}
      /\ main = "umd_loop" /\ main' = "term_signals" /\ phase' = 0 /\ ~Loading /\ ~Loading'
      /\ UNCHANGED <<pluginVars, luaVars, i, sig_th, ubus_th, uctx, freed>>
  BY MainTypes DEF MainLoop, Loading
<1> USE DEF pluginVars, luaVars
<1>2. Array' /\ Hooks' /\ Modules' /\ Loaded' = Loaded
  BY <1>1, Terminating DEF Finished
<1>3. TypeOK' /\ Places'
  BY <1>1 DEF IInv, TypeOK, PluginTypeOK, LuaTypeOK, Places, Closing
<1>4. Threads'
  BY <1>1, <1>2 DEF IInv, Threads, Finished, EnvEnded, Joined
<1>5. Stopped'
  BY <1>1 DEF IInv, Stopped, Untouched, Plugins0, ServerJoined, EnvsJoined, Closing, InPhase,
     Ended, EnvEnded, Finished
<1>6. Phases'
  BY <1>1 DEF IInv, Phases, Untouched, Closing, InPhase, Finished
<1> QED BY <1>2, <1>3, <1>4, <1>5, <1>6 DEF IInv

\* One call of a term handler, on what was not called or once with phase 0.
LEMMA TermCalled ==
  ASSUME NEW X \in SUBSET Terminable, NEW ph \in {0, 1}, TermCalls(X, <<ph>>),
         termed \in [Terminable -> Seq({0, 1})]
  PROVE  /\ termed' \in [Terminable -> Seq({0, 1})]
         /\ \A x \in Terminable \ X : termed'[x] = termed[x]
         /\ \A x \in X : termed[x] = <<>> => termed'[x] = <<ph>>
         /\ \A x \in X : termed[x] = <<0>> /\ ph = 1 => termed'[x] = <<0, 1>>
<1>1. <<ph>> \in Seq({0, 1})
  OBVIOUS
<1>2. \A x \in Terminable : termed[x] \o <<ph>> \in Seq({0, 1})
  BY <1>1, ConcatProperties
<1>3. <<>> \o <<ph>> = <<ph>>
  BY <1>1, ConcatEmptySeq
<1>4. <<0>> \o <<1>> = <<0, 1>>
  <2> DEFINE a == <<0>>
             b == <<1>>
             d == <<0, 1>>
  <2>1. /\ a \in Seq({0, 1}) /\ b \in Seq({0, 1}) /\ Len(a) = 1 /\ Len(b) = 1
        /\ a[1] = 0 /\ b[1] = 1
    OBVIOUS
  <2>2. d \in Seq({0, 1}) /\ Len(d) = 2 /\ d[1] = 0 /\ d[2] = 1
    OBVIOUS
  <2> HIDE DEF a, b, d
  <2>3. /\ a \o b \in Seq({0, 1}) /\ Len(a \o b) = Len(a) + Len(b)
        /\ \A k \in 1..Len(a) + Len(b) : (a \o b)[k] = IF k <= Len(a) THEN a[k] ELSE b[k - Len(a)]
    BY <2>1, ConcatProperties
  <2>4. Len(a \o b) = 2 /\ (a \o b)[1] = 0 /\ (a \o b)[2] = 1
    BY <2>1, <2>3
  <2>5. \A k \in 1..2 : (a \o b)[k] = d[k]
    BY <2>2, <2>4
  <2>6. a \o b = d
    BY <2>2, <2>3, <2>4, <2>5, SeqEqual
  <2> QED BY <2>6 DEF a, b, d
<1>5. \A x \in Terminable : termed'[x] = IF x \in X THEN termed[x] \o <<ph>> ELSE termed[x]
  BY DEF TermCalls
<1>6. termed' \in [Terminable -> Seq({0, 1})]
  BY <1>2 DEF TermCalls
<1>7. \A x \in X : termed[x] = <<0>> /\ ph = 1 => termed'[x] = <<0, 1>>
  BY <1>4, <1>5
<1> QED BY <1>3, <1>5, <1>6, <1>7

LEMMA MainTermSignalsStep ==
  ASSUME IInv, MainTermSignals
  PROVE  IInv'
<1>1. /\ TypeOK /\ PluginTypeOK /\ LuaTypeOK /\ phase \in {0, 1}
      /\ main = "term_signals" /\ main' = "term" /\ i' = 1 /\ ~Loading /\ ~Loading'
      /\ TermCalls(WithTerm, <<phase>>) /\ terminated' = terminated \cup WithTerm
      /\ freed' = (IF phase = 1 THEN freed \cup {"mutexes"} ELSE freed)
      /\ UNCHANGED <<plgs, base, cap, hooks, signals, luaVars, phase, sig_th, ubus_th, uctx>>
  BY MainTypes DEF MainTermSignals, Loading, Terminate
<1> USE DEF luaVars
<1>2. Array' /\ Hooks' /\ Modules' /\ Loaded' = Loaded /\ WithTerm' = WithTerm /\ Live' = Live
  BY <1>1, Terminating DEF Finished
<1>3. WithTerm \subseteq Terminable /\ Loaded \subseteq Terminable
  BY MainTypes DEF WithTerm, Terminable, Loaded
<1>4. /\ termed' \in [Terminable -> Seq({0, 1})]
      /\ \A x \in Terminable \ WithTerm : termed'[x] = termed[x]
      /\ \A x \in WithTerm : termed[x] = <<>> => termed'[x] = <<phase>>
      /\ \A x \in WithTerm : termed[x] = <<0>> /\ phase = 1 => termed'[x] = <<0, 1>>
  BY <1>1, <1>3, TermCalled DEF PluginTypeOK
<1>5. TypeOK'
  <2>1. PluginTypeOK'
    BY <1>1, <1>3, <1>4 DEF PluginTypeOK
  <2> QED BY <1>1, <2>1 DEF TypeOK, LuaTypeOK
<1>6. Places'
  BY <1>1 DEF IInv, Places, Closing
<1>7. Threads'
  BY <1>1, <1>2 DEF IInv, Threads, Finished, EnvEnded, Joined
<1>8. Stopped'
  <2>1. \A k \in DOMAIN plgs' : ~(k < i')
    BY <1>1, MainTypes
  <2> QED BY <1>1, <2>1 DEF IInv, Stopped, Untouched, Plugins0, ServerJoined, EnvsJoined,
       Closing, InPhase, Ended, EnvEnded, Finished
<1>9. Phases'
  <2>1. \A x : Passed(x)' <=> x \in WithTerm
    <3>1. \A k \in DOMAIN plgs' : ~(k < i')
      BY <1>1, MainTypes
    <3> QED BY <1>2, <3>1 DEF Passed
  <2>2. CASE phase = 0
    <3>1. \A x \in Terminable : termed[x] = <<>>
      BY <1>1, <2>2 DEF IInv, Phases, Untouched
    <3>2. \A x \in Terminable : termed'[x] = IF x \in WithTerm THEN <<0>> ELSE <<>>
      BY <1>3, <1>4, <2>2, <3>1
    <3> QED BY <1>1, <2>1, <2>2, <3>2 DEF Phases, Untouched, Closing, InPhase, Finished
  <2>3. CASE phase = 1
    <3>1. /\ \A x \in Terminable : termed[x] = IF x \in Live THEN <<0>> ELSE <<>>
          /\ Live \subseteq terminated
      BY <1>1, <2>3 DEF IInv, Phases, InPhase
    <3>2. \A x \in Terminable : termed'[x] = IF x \in WithTerm THEN <<0, 1>>
                                             ELSE IF x \in Live THEN <<0>> ELSE <<>>
      BY <1>3, <1>4, <2>3, <3>1 DEF Live
    <3> QED BY <1>1, <1>2, <2>1, <2>3, <3>1, <3>2 DEF Phases, Untouched, Closing, InPhase, Finished
  <2> QED BY <1>1, <2>2, <2>3
<1> QED BY <1>2, <1>5, <1>6, <1>7, <1>8, <1>9 DEF IInv

LEMMA MainTermPluginStep ==
  ASSUME IInv, MainTermPlugin
  PROVE  IInv'
<1>1. PICK p : p = plgs[i]
  OBVIOUS
<1>2. /\ TypeOK /\ PluginTypeOK /\ LuaTypeOK /\ phase \in {0, 1} /\ i \in Nat \ {0}
      /\ main = "term" /\ main' = "term" /\ i' = i + 1 /\ ~Loading /\ ~Loading'
      /\ i \in DOMAIN plgs /\ DOMAIN plgs = 1..Len(plgs) /\ p \in Plugins /\ p \in Loaded
      /\ phase = 0 => PluginStopped(p)
      /\ TermCalls({p}, <<phase>>) /\ terminated' = terminated \cup {p}
      /\ freed' = freed \cup PluginFrees(p, phase)
      /\ UNCHANGED <<plgs, base, cap, hooks, signals, luaVars, phase, sig_th, ubus_th, uctx>>
  BY <1>1, MainTypes DEF MainTermPlugin, Loading, Terminate, Loaded
<1> USE DEF luaVars
<1>3. Array' /\ Hooks' /\ Modules' /\ Loaded' = Loaded /\ WithTerm' = WithTerm /\ Live' = Live
  BY <1>2, Terminating DEF Finished
<1>4. {p} \subseteq Terminable /\ p \notin WithTerm /\ Live \subseteq Terminable
  BY <1>2, MainTypes, PluginAssumption DEF WithTerm, Terminable, Loaded, Live
<1>5. /\ termed' \in [Terminable -> Seq({0, 1})]
      /\ \A x \in Terminable \ {p} : termed'[x] = termed[x]
      /\ termed[p] = <<>> => termed'[p] = <<phase>>
      /\ termed[p] = <<0>> /\ phase = 1 => termed'[p] = <<0, 1>>
  <2>1. /\ termed' \in [Terminable -> Seq({0, 1})]
        /\ \A x \in Terminable \ {p} : termed'[x] = termed[x]
        /\ \A x \in {p} : termed[x] = <<>> => termed'[x] = <<phase>>
        /\ \A x \in {p} : termed[x] = <<0>> /\ phase = 1 => termed'[x] = <<0, 1>>
    BY <1>2, <1>4, TermCalled DEF PluginTypeOK
  <2> QED BY <2>1
<1>6. /\ PluginFrees(p, phase) \subseteq {"connection", "mqtt_mngr", "uctx"}
      /\ phase = 0 => PluginFrees(p, phase) \subseteq {"connection"}
      /\ "connection" \in PluginFrees(p, phase) => phase = 0 /\ p = Mqtt
  <2>1. CASE p = Mqtt /\ phase = 0
    BY <2>1, LifecycleAssumption DEF PluginFrees
  <2>2. CASE p = Mqtt /\ phase = 1
    BY <2>2, LifecycleAssumption DEF PluginFrees
  <2>3. CASE p = OpenWrt
    BY <1>2, <2>3, LifecycleAssumption DEF PluginFrees
  <2>4. CASE p \notin {Mqtt, OpenWrt}
    BY <2>4 DEF PluginFrees
  <2> QED BY <1>2, <2>1, <2>2, <2>3, <2>4
<1>7. phase = 0 => /\ p = Mqtt => Ended(sig_th)
                   /\ p = OpenWrt => Ended(ubus_th)
  <2>1. ubus_th # "none" <=> uctx
    BY DEF IInv, Threads
  <2> QED BY <1>2, <2>1, LifecycleAssumption DEF PluginStopped, UbusJoined, Ended
<1>8. TypeOK'
  <2>1. PluginTypeOK'
    BY <1>2, <1>4, <1>5 DEF PluginTypeOK
  <2>2. i' \in Nat \ {0}
    BY <1>2
  <2> QED BY <1>2, <1>6, <2>1, <2>2 DEF TypeOK, LuaTypeOK
<1>9. Places'
  BY <1>2 DEF IInv, Places, Closing, Loading
<1>10. Threads'
  BY <1>2, <1>3 DEF IInv, Threads, Finished, EnvEnded, Joined, Loading
<1>11. \A k \in DOMAIN plgs : k < i' <=> k < i \/ k = i
  BY <1>2
<1>12. Stopped'
  <2>1. phase = 0 => \A k \in DOMAIN plgs' : k < i' =>
          /\ plgs'[k] = Mqtt => Ended(sig_th')
          /\ plgs'[k] = OpenWrt => Ended(ubus_th')
    BY <1>1, <1>2, <1>7, <1>11 DEF IInv, Stopped, InPhase
  <2>2. phase = 0 => freed' \subseteq {"connection"}
    BY <1>2, <1>6 DEF IInv, Stopped, Untouched, EnvsJoined, InPhase, Finished, Loading
  <2>3. "connection" \in freed' => Ended(sig_th')
    BY <1>2, <1>6, <1>7 DEF IInv, Stopped
  <2>4. phase = 1 => /\ Ended(sig_th') /\ Ended(ubus_th') /\ cli_server' = "done"
                     /\ \A e \in EnvNrs : EnvEnded(e)'
    BY <1>2 DEF IInv, Stopped, Plugins0, ServerJoined, EnvsJoined, InPhase, EnvEnded
  <2> QED BY <1>2, <2>1, <2>2, <2>3, <2>4 DEF Stopped, Untouched, Plugins0, ServerJoined,
       EnvsJoined, Closing, InPhase, Finished, Loading
<1>13. Phases'
  <2>1. \A x : Passed(x)' <=> Passed(x) \/ x = p
    BY <1>1, <1>2, <1>3, <1>11 DEF Passed
  <2>2. ~Passed(p)
    <3>1. \A k \in DOMAIN plgs : plgs[k] = p => k = i
      BY <1>1, <1>2 DEF IInv, Array
    <3>2. ~(i < i)
      BY <1>2
    <3> QED BY <1>4, <3>1, <3>2 DEF Passed
  <2>3. \A x \in Terminable :
          /\ Passed(x) => termed[x] = (IF phase = 0 THEN <<0>> ELSE <<0, 1>>)
          /\ ~Passed(x) => termed[x] = (IF x \in Live /\ phase = 1 THEN <<0>> ELSE <<>>)
          /\ Passed(x) => x \in terminated
    BY <1>2 DEF IInv, Phases
  <2>4. termed'[p] = IF phase = 0 THEN <<0>> ELSE <<0, 1>>
    BY <1>2, <1>4, <1>5, <2>2, <2>3 DEF Live
  <2>5. ASSUME NEW x \in Terminable
        PROVE  /\ Passed(x)' => termed'[x] = IF phase' = 0 THEN <<0>> ELSE <<0, 1>>
               /\ ~Passed(x)' => termed'[x] = IF x \in Live' /\ phase' = 1 THEN <<0>> ELSE <<>>
               /\ Passed(x)' => x \in terminated'
    <3>1. CASE x = p
      BY <1>2, <2>1, <2>4, <3>1
    <3>2. CASE x # p
      BY <1>2, <1>3, <1>5, <2>1, <2>3, <3>2
    <3> QED BY <3>1, <3>2
  <2>6. phase = 1 => Live \subseteq terminated
    BY <1>2 DEF IInv, Phases, InPhase
  <2> QED BY <1>2, <1>3, <2>5, <2>6 DEF Phases, Untouched, Closing, InPhase, Finished, Loading
<1> QED BY <1>3, <1>8, <1>9, <1>10, <1>12, <1>13 DEF IInv

\* At the end of a phase all plugins and signals have passed it.
LEMMA MainTermDoneStep ==
  ASSUME IInv, MainTermDone
  PROVE  IInv'
<1>1. /\ TypeOK /\ PluginTypeOK /\ LuaTypeOK /\ phase \in {0, 1} /\ i \in Nat \ {0}
      /\ main = "term" /\ main' = (IF phase = 0 THEN "join_cli" ELSE "free")
      /\ i > Len(plgs) /\ DOMAIN plgs = 1..Len(plgs) /\ Len(plgs) \in Nat /\ ~Loading /\ ~Loading'
      /\ UNCHANGED <<pluginVars, luaVars, i, phase, sig_th, ubus_th, uctx, freed>>
  BY MainTypes DEF MainTermDone, Loading
<1> USE DEF pluginVars, luaVars
<1>2. Array' /\ Hooks' /\ Modules' /\ Loaded' = Loaded /\ WithTerm' = WithTerm /\ Live' = Live
  BY <1>1, Terminating DEF Finished
<1>3. TypeOK' /\ Places'
  BY <1>1 DEF IInv, TypeOK, PluginTypeOK, LuaTypeOK, Places, Closing
<1>4. Threads'
  BY <1>1, <1>2 DEF IInv, Threads, Finished, EnvEnded, Joined
<1>5. \A k \in DOMAIN plgs : k < i
  BY <1>1
<1>6. Stopped'
  <2>1. phase = 0 => Ended(sig_th) /\ Ended(ubus_th)
    <3> SUFFICES ASSUME phase = 0 PROVE Ended(sig_th) /\ Ended(ubus_th)
      OBVIOUS
    <3>1. \A k \in DOMAIN plgs : /\ plgs[k] = Mqtt => Ended(sig_th)
                                 /\ plgs[k] = OpenWrt => Ended(ubus_th)
      BY <1>1, <1>5 DEF IInv, Stopped, InPhase
    <3>2. /\ sig_th # "none" => Mqtt \in Loaded
          /\ ubus_th # "none" => OpenWrt \in Loaded
      BY <1>1 DEF IInv, Threads, Finished
    <3> QED BY <3>1, <3>2 DEF Loaded, Ended
  <2> QED BY <1>1, <2>1 DEF IInv, Stopped, Untouched, Plugins0, ServerJoined, EnvsJoined,
       Closing, InPhase, Ended, EnvEnded, Finished, Loading
<1>7. Phases'
  <2>1. \A x : Passed(x) <=> x \in Live
    BY <1>5 DEF Passed, Live, Loaded
  <2>2. \A x \in Terminable :
          /\ x \in Live => termed[x] = (IF phase = 0 THEN <<0>> ELSE <<0, 1>>)
          /\ x \notin Live => termed[x] = <<>>
          /\ x \in Live => x \in terminated
    BY <1>1, <2>1 DEF IInv, Phases
  <2>3. Live \subseteq Terminable
    BY MainTypes DEF WithTerm, Terminable, Loaded, Live
  <2> QED BY <1>1, <1>2, <2>2, <2>3 DEF Phases, Untouched, Closing, InPhase, Finished
<1> QED BY <1>2, <1>3, <1>4, <1>6, <1>7 DEF IInv

\* umlua_shutdown joins the server and every environment's thread that exists.
LEMMA JoinStep ==
  ASSUME IInv, JoinCli \/ JoinEnvs \/ JoinUndefined
  PROVE  IInv'
<1>1. /\ TypeOK /\ PluginTypeOK /\ LuaTypeOK /\ phase \in {0, 1} /\ i \in Nat \ {0}
      /\ main \in {"join_cli", "join_envs"} /\ main' \in {"join_envs", "free_envs", "crash"}
      /\ main = "join_cli" => main' = "join_envs" /\ cli_server = "done"
      /\ main = "join_envs" => main' \in {"free_envs", "crash"}
      /\ ~Loading /\ ~Loading'
      /\ UNCHANGED <<pluginVars, luaVars, i, phase, sig_th, ubus_th, uctx, freed>>
  BY MainTypes DEF JoinCli, JoinEnvs, JoinUndefined, Loading
<1>2. main' = "free_envs" => \A e \in EnvNrs : EnvEnded(e)
  <2> SUFFICES ASSUME main' = "free_envs", NEW e \in EnvNrs PROVE EnvEnded(e)
    OBVIOUS
  <2>1. \A f \in envs : Joined(f) => th_env[f] \in {"none", "failed", "done"}
    BY DEF JoinCli, JoinEnvs, JoinUndefined, NeverCreated
  <2> QED BY <2>1 DEF IInv, Threads, EnvEnded
<1> USE DEF pluginVars, luaVars
<1>3. Array' /\ Hooks' /\ Modules' /\ Loaded' = Loaded /\ WithTerm' = WithTerm /\ Live' = Live
  BY <1>1, Terminating DEF Finished
<1>4. TypeOK' /\ Places'
  BY <1>1 DEF IInv, TypeOK, PluginTypeOK, LuaTypeOK, Places, Closing, Loading
<1>5. Threads'
  BY <1>1, <1>3 DEF IInv, Threads, Finished, EnvEnded, Joined
<1>6. Stopped'
  <2>1. Closing /\ ~Untouched /\ ~EnvsJoined /\ ~Finished
    BY <1>1 DEF Closing, Untouched, EnvsJoined, Finished, InPhase, Loading
  <2>2. /\ Ended(sig_th) /\ Ended(ubus_th) /\ freed \subseteq {"connection"}
        /\ cli_server = "done" \/ main = "join_cli"
    BY <1>1, <2>1 DEF IInv, Stopped, Plugins0, ServerJoined
  <2>3. /\ ~InPhase(0)' /\ ~Untouched'
        /\ EnvsJoined' => main' = "free_envs"
        /\ main = "join_cli" => cli_server' = "done"
    BY <1>1, <2>2 DEF Untouched, EnvsJoined, InPhase, Loading
  <2>4. EnvsJoined' => \A e \in EnvNrs : EnvEnded(e)'
    BY <1>1, <1>2, <2>3 DEF EnvEnded
  <2>5. Ended(sig_th)' /\ Ended(ubus_th)' /\ cli_server' = "done" /\ freed' \subseteq {"connection"}
    BY <1>1, <2>2, <2>3 DEF Ended
  <2> QED BY <2>3, <2>4, <2>5 DEF Stopped
<1>7. Phases'
  BY <1>1, <1>3 DEF IInv, Phases, Untouched, Closing, InPhase, Finished
<1> QED BY <1>3, <1>4, <1>5, <1>6, <1>7 DEF IInv

LEMMA FreeLuaStep ==
  ASSUME IInv, MainFreeEnvs \/ MainFreeLua
  PROVE  IInv'
<1>1. /\ TypeOK /\ PluginTypeOK /\ LuaTypeOK /\ phase = 0 /\ i \in Nat \ {0}
      /\ \/ main = "free_envs" /\ main' = "free_lua" /\ phase' = 0
         \/ main = "free_lua" /\ main' = "term_signals" /\ phase' = 1
      /\ freed' \subseteq freed \cup {"envs", "dbm", "lenv_mngr"}
      /\ envs' \subseteq envs /\ ~Loading /\ ~Loading'
      /\ UNCHANGED <<pluginVars, config, conserve_mem, terminating, th_env, cli_server, cli_client>>
      /\ UNCHANGED <<mods, i, sig_th, ubus_th, uctx>>
  BY MainTypes DEF MainFreeEnvs, MainFreeLua, FreeEnvs, Loading, luaVars, IInv, Places, Closing
<1> USE DEF pluginVars
<1>2. Array' /\ Hooks' /\ Modules' /\ Loaded' = Loaded /\ WithTerm' = WithTerm /\ Live' = Live
  BY <1>1, Terminating DEF Finished
<1>3. TypeOK' /\ Places'
  BY <1>1 DEF IInv, TypeOK, PluginTypeOK, LuaTypeOK, Places, Closing
<1>4. EnvsJoined /\ ServerJoined /\ Plugins0
  BY <1>1 DEF EnvsJoined, ServerJoined, Plugins0, Closing
<1>5. \A e \in EnvNrs : EnvEnded(e) /\ EnvEnded(e)'
  BY <1>1, <1>4 DEF IInv, Stopped, EnvEnded
<1>6. Threads'
  BY <1>1, <1>2, <1>5 DEF IInv, Threads, Finished
<1>7. Stopped'
  BY <1>1, <1>4, <1>5 DEF IInv, Stopped, Untouched, EnvsJoined, InPhase, Ended
<1>8. Phases'
  BY <1>1, <1>2 DEF IInv, Phases, Untouched, Closing, InPhase, Finished
<1> QED BY <1>2, <1>3, <1>6, <1>7, <1>8 DEF IInv

\* umplg_free_mngr finds nothing that was not terminated.
LEMMA MainFreeStep ==
  ASSUME IInv, MainFree
  PROVE  IInv'
<1>1. /\ TypeOK /\ PluginTypeOK /\ LuaTypeOK /\ phase = 1 /\ i \in Nat \ {0}
      /\ main = "free" /\ main' = "return" /\ ~Loading /\ ~Loading'
      /\ TermCalls(Live \ terminated, <<0, 1>>)
      /\ plgs' = <<>> /\ cap' = 0 /\ hooks' = [c \in Cmds |-> NoHook]
      /\ signals' = [s \in DOMAIN signals |-> NoOwner]
      /\ freed' = freed \cup {"perf", "pm", "umd"}
      /\ UNCHANGED <<base, terminated, luaVars, i, phase, sig_th, ubus_th, uctx>>
  BY MainTypes DEF MainFree, umplg_free_mngr, Loading, IInv, Places, Live
<1> USE DEF luaVars
<1>2. termed' = termed
  <2>1. Live \subseteq terminated
    BY <1>1 DEF IInv, Phases
  <2>2. termed' = [x \in Terminable |-> termed[x]]
    BY <1>1, <2>1 DEF TermCalls
  <2> QED BY <1>1, <2>2 DEF PluginTypeOK
<1>3. DOMAIN plgs' = {} /\ Loaded' = {} /\ Len(plgs') = 0
  BY <1>1 DEF Loaded
<1>4. TypeOK'
  <2>1. plgs' \in Seq(Plugins \ BadPlugins)
    BY <1>1
  <2>2. PluginTypeOK'
    BY <1>1, <1>2, <1>3, <2>1 DEF PluginTypeOK
  <2> QED BY <1>1, <2>2 DEF TypeOK, LuaTypeOK
<1>5. Places'
  BY <1>1 DEF IInv, Places, Closing
<1>6. Array'
  BY <1>1, <1>3 DEF Array
<1>7. Threads'
  BY <1>1 DEF IInv, Threads, Finished, EnvEnded, Joined
<1>8. Stopped'
  BY <1>1 DEF IInv, Stopped, Untouched, Plugins0, ServerJoined, EnvsJoined, Closing, InPhase,
     Ended, EnvEnded, Finished
<1>9. Phases'
  <2>1. \A x \in Terminable : termed[x] \in {<<>>, <<0>>, <<0, 1>>}
    BY <1>1 DEF IInv, Phases
  <2> QED BY <1>1, <1>2, <2>1 DEF Phases, Untouched, Closing, InPhase, Finished
<1>10. Hooks'
  <2>1. Finished' /\ \A c \in Cmds : hooks'[c] = NoHook
    BY <1>1 DEF Finished
  <2> QED BY <1>1, <1>3, <2>1 DEF Hooks
<1>11. Modules'
  BY <1>1, <1>3 DEF IInv, Modules, Settled
<1> QED BY <1>4, <1>5, <1>6, <1>7, <1>8, <1>9, <1>10, <1>11 DEF IInv

LEMMA MainReturnStep ==
  ASSUME IInv, MainReturn
  PROVE  IInv'
<1>1. /\ TypeOK /\ PluginTypeOK /\ LuaTypeOK /\ i \in Nat \ {0}
      /\ main = "return" /\ main' = "exit" /\ ~Loading /\ ~Loading'
      /\ UNCHANGED <<pluginVars, luaVars, i, phase, sig_th, ubus_th, uctx, freed>>
  BY MainTypes DEF MainReturn, Loading
<1> USE DEF pluginVars, luaVars
<1>2. Array' /\ Hooks' /\ Modules' /\ Loaded' = Loaded
  BY <1>1, Terminating DEF Finished
<1>3. TypeOK' /\ Places'
  BY <1>1 DEF IInv, TypeOK, PluginTypeOK, LuaTypeOK, Places, Closing
<1>4. Threads'
  BY <1>1 DEF IInv, Threads, Finished, EnvEnded, Joined
<1>5. Stopped'
  BY <1>1 DEF IInv, Stopped, Untouched, Plugins0, ServerJoined, EnvsJoined, Closing, InPhase,
     Ended, EnvEnded, Finished
<1>6. Phases'
  BY <1>1 DEF IInv, Phases, Untouched, Closing, InPhase, Finished
<1> QED BY <1>2, <1>3, <1>4, <1>5, <1>6 DEF IInv

-----------------------------------------------------------------------------
LEMMA LifecycleInitOK == LifecycleInit => IInv
<1> SUFFICES ASSUME LifecycleInit PROVE IInv
  OBVIOUS
<1> USE DEF LifecycleInit, PluginInit, LuaInit
<1>1. DOMAIN plgs = {} /\ Loaded = {} /\ Len(plgs) = 0
  BY DEF Loaded
<1>2. PluginTypeOK
  <2>1. plgs \in Seq(Plugins \ BadPlugins)
    OBVIOUS
  <2>2. termed \in [Terminable -> Seq({0, 1})]
    OBVIOUS
  <2> QED BY <1>1, <2>1, <2>2 DEF PluginTypeOK
<1>3. TypeOK
  <2>1. LuaTypeOK
    BY DEF LuaTypeOK
  <2>2. i \in Nat \ {0} /\ phase \in {0, 1} /\ freed = {}
    OBVIOUS
  <2> QED BY <1>2, <2>1, <2>2 DEF TypeOK, PluginSteps
<1>4. Places /\ Array /\ Threads
  BY <1>1 DEF Places, Array, Threads, Loading, Closing, Finished, EnvEnded
<1>5. Stopped
  BY DEF Stopped, Untouched, Plugins0, ServerJoined, EnvsJoined, Closing, InPhase, Loading
<1>6. Phases
  BY DEF Phases, Untouched, Closing, InPhase, Finished, Loading
<1>7. Hooks
  BY <1>1, PluginAssumption DEF Hooks
<1>8. Modules
  BY <1>1 DEF Modules
<1> QED BY <1>3, <1>4, <1>5, <1>6, <1>7, <1>8 DEF IInv

LEMMA LifecycleStep == IInv /\ [Next]_vars => IInv'
<1> SUFFICES ASSUME IInv, [Next]_vars PROVE IInv'
  OBVIOUS
<1>1. CASE MainStep
  BY <1>1, MainInitStep, NextPluginStep, MainLoadStep, MainLoadedStep, InitMqttConnsStep,
     InitMqttSignalStep, InitOpenWrtStep, MainStartStep, MainLoopStep, MainTermSignalsStep,
     MainTermPluginStep, MainTermDoneStep, JoinStep, FreeLuaStep, MainFreeStep, MainReturnStep
  DEF MainStep
<1>2. CASE Outside
  BY <1>2, RaisedStep, PluginThreadEnds, CliStep DEF Outside
<1>3. CASE SigStop \/ UbusStop
  BY <1>3, PluginThreadEnds
<1>4. CASE CliThread \/ \E c \in Clients : ClientThread(c)
  BY <1>4, CliStep DEF CliThread, ClientThread
<1>5. CASE \E e \in EnvNrs : EnvThread(e)
  BY <1>5, EnvThreadStep
<1>6. CASE UNCHANGED vars
  <2> USE <1>6 DEF vars
  <2>1. LuaTypeOK'
    BY DEF luaVars, IInv, TypeOK, LuaTypeOK
  <2>2. Settled' = Settled /\ Loaded' = Loaded
    BY MainQuiet DEF luaVars
  <2>3. \A u \in DOMAIN mods' \ {Mqtt} : mods'[u] # NoState =>
          Settled' /\ (Mqtt \in Loaded' => MqttSubMod \in mods'[u])
    BY <2>2 DEF luaVars, IInv, Modules
  <2>4. \A e \in EnvNrs : EnvEnded(e) => EnvEnded(e)'
    BY DEF EnvEnded, luaVars
  <2> QED BY <2>1, <2>3, <2>4, LuaQuiet DEF luaVars, others
<1> QED BY <1>1, <1>2, <1>3, <1>4, <1>5, <1>6 DEF Next

LEMMA LifecycleInvariant == Spec => []IInv
BY LifecycleInitOK, LifecycleStep, PTL DEF Spec

\* The state of main, of the plugin manager and of all threads keeps its type
\* from start-up to the end of the process.
THEOREM LifecycleTypeCorrect == Spec => []TypeOK
<1>1. IInv => TypeOK
  BY DEF IInv
<1> QED BY <1>1, LifecycleInvariant, PTL

\* Shutdown: main frees what environments, the server and the plugins' threads
\* use only after it has waited for them, in whatever order they end, but for the
\* MQTT connection, which the ubus thread and environments may use until they are
\* joined.
THEOREM NothingElseFreedInUse == Spec => []OnlyConnectionFreedInUse
<1>1. IInv => OnlyConnectionFreedInUse
  <2> SUFFICES ASSUME IInv, ~Gone PROVE OnlyConnectionFreedInUse
    BY DEF OnlyConnectionFreedInUse
  <2>1. CASE Untouched
    <3>1. freed = {}
      BY <2>1 DEF IInv, Stopped
    <3> QED BY <3>1 DEF OnlyConnectionFreedInUse
  <2>2. CASE EnvsJoined
    <3>1. /\ Ended(sig_th) /\ Ended(ubus_th) /\ cli_server = "done"
          /\ \A e \in EnvNrs : EnvEnded(e)
      BY <2>2 DEF IInv, Stopped, EnvsJoined, ServerJoined, Plugins0, Closing, InPhase
    <3>2. /\ SigUses = {} /\ UbusUses = {} /\ CliUses = {}
          /\ \A e \in EnvNrs : EnvUses(e) = {}
      BY <3>1 DEF EnvUses, SigUses, UbusUses, CliUses, Ended, EnvEnded
    <3>3. InUse = {}
      BY <3>2 DEF InUse
    <3> QED BY <3>2, <3>3 DEF OnlyConnectionFreedInUse
  <2>3. CASE ~Untouched /\ ~EnvsJoined
    <3>1. ~Finished
      BY <2>3 DEF Gone, Finished, EnvsJoined
    <3>2. freed \subseteq {"connection"} /\ ("connection" \in freed => SigUses = {})
      BY <2>3, <3>1 DEF IInv, Stopped, Ended, SigUses
    <3>3. main \in {"term", "join_cli", "join_envs"} /\ phase = 0
      BY <2>3, <3>1 DEF IInv, TypeOK, Places, Untouched, EnvsJoined, Finished, Loading, Closing,
         InPhase
    <3>4. main # "term" => UbusUses = {}
      BY <3>3 DEF IInv, Stopped, Plugins0, Closing, Ended, UbusUses
    <3> QED BY <3>2, <3>3, <3>4 DEF OnlyConnectionFreedInUse
  <2> QED BY <2>1, <2>2, <2>3
<1> QED BY <1>1, LifecycleInvariant, PTL

\* umplg_terminate_all and umplg_free_mngr: each loaded plugin and each Lua
\* signal is terminated once, phase 0 before phase 1.
THEOREM EachTerminatedOnce == Spec => []TerminatedOnce
<1>1. IInv => TerminatedOnce
  <2> SUFFICES ASSUME IInv PROVE TerminatedOnce
    OBVIOUS
  <2>1. Live \subseteq Terminable /\ phase \in {0, 1}
    BY MainTypes DEF WithTerm, Terminable, Loaded, Live
  <2>2. ASSUME NEW x \in Terminable PROVE termed[x] \in {<<>>, <<0>>, <<0, 1>>}
    <3>1. \/ Untouched \/ main = "term" \/ Closing \/ (main = "term_signals" /\ phase = 1)
          \/ main = "free" \/ Finished
      BY <2>1 DEF IInv, TypeOK, Untouched, Loading, Closing, Finished
    <3> QED BY <3>1 DEF IInv, Phases
  <2>3. main = "free" => \A x \in Live : termed[x] = <<0, 1>>
    BY <2>1 DEF IInv, Phases
  <2> QED BY <2>2, <2>3 DEF TerminatedOnce, Live
<1> QED BY <1>1, LifecycleInvariant, PTL

\* umplg_load and umplg_run: hooks lead to the plugin that asked for the
\* command, for every directory of plugins that fits into the first allocation.
THEOREM CommandsReachPlugins == Spec => []HooksResolve
<1>1. IInv => HooksResolve
  <2> SUFFICES ASSUME IInv, Len(plgs) <= ARRAY_MIN
               PROVE  /\ \A c \in Cmds : \A p \in umplg_run(c) : c \in cmd_lst[p]
                      /\ \A k \in DOMAIN plgs : \A c \in cmd_lst[plgs[k]] : umplg_run(c) = {plgs[k]}
    BY DEF HooksResolve
  <2>1. /\ \A c \in Cmds : hooks[c] # NoHook =>
             /\ hooks[c].base = base /\ hooks[c].idx \in DOMAIN plgs
             /\ c \in cmd_lst[plgs[hooks[c].idx]]
        /\ \A k \in DOMAIN plgs : \A c \in cmd_lst[plgs[k]] : hooks[c] # NoHook /\ hooks[c].idx = k
    BY DEF IInv, Hooks
  <2>2. \A k \in DOMAIN plgs : cmd_lst[plgs[k]] \subseteq Cmds
    BY MainTypes, PluginAssumption
  <2> QED BY <2>1, <2>2 DEF umplg_run
<1> QED BY <1>1, LifecycleInvariant, PTL

\* Every Lua state but that of the MQTT connection's own thread has M.mqtt if
\* plugins/mqtt is loaded: whoever makes a state does so after the registration.
THEOREM StatesHaveModules == Spec => []SubModulesComplete
<1>1. IInv => SubModulesComplete
  BY DEF IInv, Modules, SubModulesComplete
<1> QED BY <1>1, LifecycleInvariant, PTL
=============================================================================
