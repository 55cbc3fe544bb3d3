------------------------------ MODULE Lifecycle ------------------------------
(***************************************************************************)
(* The daemon's life (sysagentd.c, umdaemon.c): main sets up Lua from the  *)
(* configuration, loads the plugins, starts the environments, waits for    *)
(* SIGTERM and takes everything down again in two phases, while the        *)
(* threads it started on the way run: one per environment, the command     *)
(* line server and its detached clients, the signal thread of an MQTT      *)
(* connection (plugins/mqtt) and the ubus thread (plugins/openwrt).        *)
(*                                                                         *)
(* Composes PluginMngr and LuaEnv.  What a thread does inside a signal is  *)
(* in LuaSignal, the messages of the MQTT connection in MqttSigProc; here  *)
(* a thread is what it may still use.                                      *)
(***************************************************************************)
EXTENDS LuaEnv

CONSTANTS
  LoadOrder,       \* the plugins as scandir sorts them
  Mqtt, OpenWrt,   \* the plugins of this repository
  MqttSubMod       \* "@init_lua_sub_module:mqtt"

ASSUME LifecycleAssumption ==
  /\ LoadOrder \in Seq(Plugins)
  /\ \A j, k \in DOMAIN LoadOrder :
       /\ LoadOrder[j] = LoadOrder[k] => j = k                     \* files of a directory,
       /\ LoadOrder[j] = Mqtt /\ LoadOrder[k] = OpenWrt => j < k   \* in the order of alphasort
  /\ {Mqtt, OpenWrt} \subseteq Plugins \cap Owners /\ Mqtt # OpenWrt
  /\ MqttSubMod \in SubMods

VARIABLES
  main, i, phase,  \* where main is, the plugin it is at, the phase of termination
  sig_th,          \* the MQTT connection's signal thread
  ubus_th, uctx,   \* the ubus thread; whether there is an ubus context
  freed            \* what main has freed

mainVars == <<main, i, phase>>
vars == <<pluginVars, luaVars, mainVars, sig_th, ubus_th, uctx, freed>>
others == <<pluginVars, mainVars, sig_th, ubus_th, uctx, freed>>   \* all but luaVars

\* A plugin's thread is not there, waiting or in a handler, or at its end.
PluginSteps == {"none", "on", "done"}

LifecycleInit ==
  /\ PluginInit /\ LuaInit({Mqtt, OpenWrt})
  /\ main = "umlua_init" /\ i = 1 /\ phase = 0
  /\ sig_th = "none" /\ ubus_th = "none" /\ uctx = FALSE
  /\ freed = {}

\* The process is gone, by return from main or by a failed join.
Gone == main \in {"exit", "crash"}

-----------------------------------------------------------------------------
(* Start-up.                                                               *)

\* Fault: the environments are started before the plugins are loaded.
StartsBeforeLoad ==
  [umlua_init |-> "umlua_start", umlua_start |-> "load", init_plugins |-> "umd_loop"]

\* what main calls next
MainOrder ==
  [umlua_init |-> "load", init_plugins |-> "umlua_start", umlua_start |-> "umd_loop"]

MainInit ==
  /\ main = "umlua_init"
  /\ umlua_init
  /\ main' = MainOrder.umlua_init
  /\ UNCHANGED <<plgs, base, cap, hooks, terminated, termed, i, phase, sig_th, ubus_th, uctx, freed>>

\* init_plugins: the next shared object is refused, which is only logged
MainRefuse ==
  /\ main = "load" /\ i <= Len(LoadOrder) /\ Refused(LoadOrder[i])
  /\ i' = i + 1
  /\ UNCHANGED <<pluginVars, luaVars, main, phase, sig_th, ubus_th, uctx, freed>>

\* init_plugins: the next shared object is loaded; its init handler follows
MainLoad ==
  /\ main = "load" /\ i <= Len(LoadOrder)
  /\ umplg_load(LoadOrder[i])
  /\ main' = "init"
  /\ UNCHANGED <<luaVars, i, phase, sig_th, ubus_th, uctx, freed>>

MainLoaded ==
  /\ main = "load" /\ i > Len(LoadOrder)
  /\ main' = MainOrder.init_plugins
  /\ UNCHANGED <<pluginVars, luaVars, i, phase, sig_th, ubus_th, uctx, freed>>

\* init of a plugin that has neither threads nor signals
InitOther ==
  /\ main = "init" /\ LoadOrder[i] \notin {Mqtt, OpenWrt}
  /\ main' = "load" /\ i' = i + 1
  /\ UNCHANGED <<pluginVars, luaVars, phase, sig_th, ubus_th, uctx, freed>>

\* init of plugins/mqtt, first part: a connection of the configuration gets its
\* thread and connects; a configuration without one is only logged
InitMqttConns ==
  /\ main = "init" /\ LoadOrder[i] = Mqtt
  /\ sig_th' \in {"none", "on"}
  /\ main' = "reg"
  /\ UNCHANGED <<pluginVars, luaVars, i, phase, ubus_th, uctx, freed>>

\* init of plugins/mqtt, second part: the signal that adds M.mqtt to a state
InitMqttSignal ==
  /\ main = "reg"
  /\ signals' = umplg_reg_signal(signals, MqttSubMod, Mqtt)
  /\ main' = "load" /\ i' = i + 1
  /\ UNCHANGED <<plgs, base, cap, hooks, terminated, termed, luaVars, phase, sig_th, ubus_th, uctx, freed>>

\* init of plugins/openwrt; connecting or adding the object may fail, and the
\* result of init is ignored
InitOpenWrt ==
  /\ main = "init" /\ LoadOrder[i] = OpenWrt
  /\ uctx' \in BOOLEAN
  /\ ubus_th' = IF uctx' THEN "on" ELSE "none"
  /\ main' = "load" /\ i' = i + 1
  /\ UNCHANGED <<pluginVars, luaVars, phase, sig_th, freed>>

MainStart ==
  /\ main = "umlua_start"
  /\ \E failed \in SUBSET envs : umlua_start(failed)
  /\ main' = MainOrder.umlua_start
  /\ UNCHANGED <<pluginVars, i, phase, sig_th, ubus_th, uctx, freed>>

\* umd_signal_handler, at any time
SigTerm ==
  /\ ~Gone /\ ~terminating
  /\ terminating' = TRUE
  /\ UNCHANGED <<pluginVars, configVars, th_env, cli_server, cli_client, mods>>
  /\ UNCHANGED <<mainVars, sig_th, ubus_th, uctx, freed>>

-----------------------------------------------------------------------------
(* The threads of the plugins.                                             *)

\* the thread's first signal makes its Lua state (lua_sig_setup), later ones
\* find it in thread local storage
StateForSignal(t) == IF mods[t] = NoState THEN NewState(t) ELSE UNCHANGED mods

\* mqtt_proc_thread: a message raises a signal; the flag is looked at before the
\* wait, so one more may be handled once the daemon is terminating
SigRaise ==
  /\ ~Gone /\ sig_th = "on"
  /\ StateForSignal(Mqtt)
  /\ UNCHANGED <<configVars, terminating, th_env, cli_server, cli_client>>
  /\ UNCHANGED others

\* the handler is done or the wait timed out, and the daemon is terminating
SigStop ==
  /\ ~Gone /\ sig_th = "on" /\ terminating
  /\ sig_th' = "done"
  /\ UNCHANGED <<pluginVars, luaVars, mainVars, ubus_th, uctx, freed>>

\* thread_ubus, run_signal: a method call raises a signal; list_signals only
\* reads the signal table and the environment of each entry.  The flag is looked
\* at before poll, so one more call may be served after SIGTERM.
UbusCall ==
  /\ ~Gone /\ ubus_th = "on"
  /\ StateForSignal(OpenWrt)
  /\ UNCHANGED <<configVars, terminating, th_env, cli_server, cli_client>>
  /\ UNCHANGED others

\* the reply is sent or poll returned after a second at most, and the daemon
\* is terminating
UbusStop ==
  /\ ~Gone /\ ubus_th = "on" /\ terminating
  /\ ubus_th' = "done"
  /\ UNCHANGED <<pluginVars, luaVars, mainVars, sig_th, uctx, freed>>

\* the ubus socket breaks
UbusError ==
  /\ ~Gone /\ ubus_th = "on"
  /\ ubus_th' = "done"
  /\ UNCHANGED <<pluginVars, luaVars, mainVars, sig_th, uctx, freed>>

-----------------------------------------------------------------------------
(* Termination.                                                            *)

\* umd_loop sees the flag
MainLoop ==
  /\ main = "umd_loop" /\ terminating
  /\ main' = "term_signals" /\ phase' = 0
  /\ UNCHANGED <<pluginVars, luaVars, i, sig_th, ubus_th, uctx, freed>>

\* umplg_terminate_all, first the signals; phase 1 destroys their mutexes
MainTermSignals ==
  /\ main = "term_signals"
  /\ Terminate(WithTerm, phase)
  /\ main' = "term" /\ i' = 1
  /\ freed' = IF phase = 1 THEN freed \cup {"mutexes"} ELSE freed
  /\ UNCHANGED <<luaVars, phase, sig_th, ubus_th, uctx>>

\* Fault: phase 0 of plugins/openwrt leaves the thread alone.
UbusJoinedNot == TRUE

\* term_phase_0 of plugins/openwrt: pthread_join if there is a context
UbusJoined == uctx => ubus_th = "done"

\* what term_phase_0 of a plugin waits for
PluginStopped(p) ==
  CASE p = Mqtt -> sig_th \in {"none", "done"}   \* mqtt_mngr_del_conn of each connection
    [] p = OpenWrt -> UbusJoined
    [] OTHER -> TRUE

\* what a plugin frees in each phase
PluginFrees(p, ph) ==
  CASE p = Mqtt /\ ph = 0 -> {"connection"}
    [] p = Mqtt /\ ph = 1 -> {"mqtt_mngr"}
    [] p = OpenWrt /\ ph = 1 /\ uctx -> {"uctx"}
    [] OTHER -> {}

\* umplg_terminate_all, then the plugins in the order of the array
MainTermPlugin ==
  /\ main = "term" /\ i <= Len(plgs)
  /\ phase = 0 => PluginStopped(plgs[i])
  /\ Terminate({plgs[i]}, phase)
  /\ freed' = freed \cup PluginFrees(plgs[i], phase)
  /\ i' = i + 1
  /\ UNCHANGED <<luaVars, main, phase, sig_th, ubus_th, uctx>>

\* between the phases main stops Lua, after them it frees the rest
MainTermDone ==
  /\ main = "term" /\ i > Len(plgs)
  /\ main' = IF phase = 0 THEN "join_cli" ELSE "free"
  /\ UNCHANGED <<pluginVars, luaVars, i, phase, sig_th, ubus_th, uctx, freed>>

\* umlua_shutdown: the command line server is joined, its clients are not
JoinCli ==
  /\ main = "join_cli" /\ cli_server = "done"
  /\ main' = "join_envs"
  /\ UNCHANGED <<pluginVars, luaVars, i, phase, sig_th, ubus_th, uctx, freed>>

\* umlua_shutdown: the environments' threads are joined
JoinEnvs ==
  /\ main = "join_envs"
  /\ \A e \in envs : Joined(e) => th_env[e] = "done"
  /\ main' = "free_envs"
  /\ UNCHANGED <<pluginVars, luaVars, i, phase, sig_th, ubus_th, uctx, freed>>

\* Joining a thread that was never created is undefined: the process crashes
\* or the call fails and main goes on.
JoinUndefined ==
  /\ main = "join_envs"
  /\ \E e \in envs : NeverCreated(e)
  /\ \A e \in envs : Joined(e) => NeverCreated(e) \/ th_env[e] = "done"
  /\ main' \in {"crash", "free_envs"}
  /\ UNCHANGED <<pluginVars, luaVars, i, phase, sig_th, ubus_th, uctx, freed>>

\* umlua_shutdown: the environments, the data bases, the manager
MainFreeEnvs ==
  /\ main = "free_envs"
  /\ FreeEnvs
  /\ freed' = freed \cup {"envs"}
  /\ main' = "free_lua"
  /\ UNCHANGED <<pluginVars, i, phase, sig_th, ubus_th, uctx>>

MainFreeLua ==
  /\ main = "free_lua"
  /\ freed' = freed \cup {"dbm", "lenv_mngr"}
  /\ main' = "term_signals" /\ phase' = 1
  /\ UNCHANGED <<pluginVars, luaVars, i, sig_th, ubus_th, uctx>>

\* json_object_put, umc_free_ctx, umplg_free_mngr, umd_destroy and return
MainFree ==
  /\ main = "free"
  /\ umplg_free_mngr
  /\ freed' = freed \cup {"perf", "pm", "umd"}
  /\ main' = "return"
  /\ UNCHANGED <<luaVars, i, phase, sig_th, ubus_th, uctx>>

MainReturn ==
  /\ main = "return"
  /\ main' = "exit"
  /\ UNCHANGED <<pluginVars, luaVars, i, phase, sig_th, ubus_th, uctx, freed>>

MainStep ==
  \/ MainInit \/ MainRefuse \/ MainLoad \/ MainLoaded
  \/ InitOther \/ InitMqttConns \/ InitMqttSignal \/ InitOpenWrt
  \/ MainStart \/ MainLoop
  \/ MainTermSignals \/ MainTermPlugin \/ MainTermDone
  \/ JoinCli \/ JoinEnvs \/ JoinUndefined \/ MainFreeEnvs \/ MainFreeLua
  \/ MainFree \/ MainReturn

EnvThread(e) == ~Gone /\ EnvStep(e) /\ UNCHANGED others
CliThread == ~Gone /\ (CliSetup \/ CliStop) /\ UNCHANGED others
ClientThread(c) == ~Gone /\ ClientStep(c) /\ UNCHANGED others

\* What happens from outside, without any promise.
Outside ==
  \/ SigTerm \/ SigRaise \/ UbusCall \/ UbusError
  \/ /\ ~Gone /\ UNCHANGED others
     /\ CliError \/ \E c \in Clients : CliAccept(c) \/ ClientError(c)

Next ==
  \/ MainStep \/ Outside
  \/ SigStop \/ UbusStop \/ CliThread
  \/ \E e \in EnvNrs : EnvThread(e)
  \/ \E c \in Clients : ClientThread(c)

\* Every thread that can go on does so: scripts and handlers end, polls and
\* sleeps return.
Fairness ==
  /\ WF_vars(MainStep) /\ WF_vars(SigStop) /\ WF_vars(UbusStop) /\ WF_vars(CliThread)
  /\ \A e \in EnvNrs : WF_vars(EnvThread(e))
  /\ \A c \in Clients : WF_vars(ClientThread(c))

Spec == LifecycleInit /\ [][Next]_vars /\ Fairness

-----------------------------------------------------------------------------
(* Properties.                                                             *)

TypeOK ==
  /\ PluginTypeOK /\ LuaTypeOK
  /\ main \in {"umlua_init", "load", "init", "reg", "umlua_start", "umd_loop", "term_signals",
               "term", "join_cli", "join_envs", "free_envs", "free_lua", "free", "return",
               "exit", "crash"}
  /\ i \in Nat \ {0} /\ phase \in {0, 1}
  /\ sig_th \in PluginSteps /\ ubus_th \in PluginSteps /\ uctx \in BOOLEAN
  /\ freed \subseteq {"connection", "mqtt_mngr", "uctx", "mutexes", "envs", "dbm", "lenv_mngr",
                      "perf", "pm", "umd"}

\* What every thread that runs scripts may reach: handlers and their mutexes,
\* environments, data bases, counters, the MQTT manager and the connection that
\* M.mqtt.publish looks up in it, the daemon's flag.
Scripts == {"mutexes", "envs", "dbm", "perf", "mqtt_mngr", "connection", "pm", "umd"}

\* What each thread may still use; detached clients are left out.
EnvUses(e) == IF th_env[e] \in {"none", "failed", "done"} THEN {} ELSE Scripts
SigUses == IF sig_th \in {"none", "done"} THEN {} ELSE Scripts
UbusUses == IF ubus_th \in {"none", "done"} THEN {} ELSE Scripts \cup {"uctx"}
CliUses == IF cli_server \in {"none", "done"} THEN {} ELSE {"pm", "umd"}
InUse == (UNION {EnvUses(e) : e \in EnvNrs}) \cup SigUses \cup UbusUses \cup CliUses

\* Of all that main frees, only the MQTT connection is freed while a thread that
\* main waits for may still use it: phase 0 of plugins/mqtt frees it before the
\* ubus thread and the environments are joined, and it ends the connection's own
\* thread first.  That exposure (run mqtt_free) is over for the ubus thread when
\* phase 0 is through, for the environments when they are joined; nothing else
\* follows the connection early.  Command line clients run detached and may use
\* anything after it is freed.  What the MQTT library's thread does within the
\* step that frees the connection is in MqttSigProc.
OnlyConnectionFreedInUse ==
  ~Gone =>
    /\ freed \cap InUse \subseteq {"connection"}
    /\ "connection" \in freed =>
         /\ SigUses = {}
         /\ UbusUses # {} => main = "term" /\ phase = 0
         /\ \A e \in EnvNrs : EnvUses(e) # {} =>
              main \in {"term", "join_cli", "join_envs"} /\ phase = 0

\* Before the manager is freed each loaded plugin and each Lua signal was
\* terminated once, phase 0 before phase 1, and freeing does not do it again.
TerminatedOnce ==
  /\ \A x \in Terminable : termed[x] \in {<<>>, <<0>>, <<0, 1>>}
  /\ main = "free" => \A x \in WithTerm \cup Loaded : termed[x] = <<0, 1>>

\* A command reaches the one plugin that lists it, and each loaded plugin gets
\* all of its commands, as long as the array of plugins never had to grow.
HooksResolve ==
  Len(plgs) <= ARRAY_MIN =>
    /\ \A c \in Cmds : \A p \in umplg_run(c) : c \in cmd_lst[p]
    /\ \A k \in DOMAIN plgs : \A c \in cmd_lst[plgs[k]] : umplg_run(c) = {plgs[k]}

\* Environments, command line clients and the ubus thread find the modules of
\* all plugins in M.  Only the MQTT connection's own thread can miss M.mqtt:
\* messages arrive before the module is registered.
SubModulesComplete ==
  \A t \in DOMAIN mods \ {Mqtt} :
    mods[t] # NoState /\ Mqtt \in Loaded => MqttSubMod \in mods[t]

\* An environment with interval 0 runs its script once and its thread ends,
\* unless the script does not load and memory is conserved: then it is tried
\* for ever, without a pause.
OneShotEnds ==
  \A e \in EnvNrs :
    (th_env[e] = "setup" /\ config[e].interval = 0 /\ (config[e].loads \/ ~conserve_mem))
      ~> (th_env[e] = "done" \/ Gone)

\* Main only joins threads that exist, unless an environment is configured to
\* start with a negative interval or its thread could not be created.
JoinsUnstarted ==
  \E e \in DOMAIN config : NeverCreated(e) /\ (config[e].interval < 0 \/ th_env[e] = "failed")

\* After SIGTERM, whenever it comes, main gets through both phases and returns;
\* it can only crash by joining a thread that was never started.
ShutdownEnds == terminating ~> (main = "exit" \/ (main = "crash" /\ JoinsUnstarted))
=============================================================================
