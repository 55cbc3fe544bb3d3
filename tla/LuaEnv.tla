------------------------------- MODULE LuaEnv -------------------------------
(***************************************************************************)
(* Lua environments and the command line server (services/sysagent/        *)
(* umlua.c).  An environment is a script with a thread that runs it once   *)
(* (interval 0) or again and again; a negative interval or auto_start      *)
(* false makes it a mere owner of signal handlers.  The command line       *)
(* server accepts clients on a socket and gives each a detached thread.    *)
(* Scripts are left open: they end, and what they call is a use of what    *)
(* Scripts (module Lifecycle) names.                                       *)
(***************************************************************************)
EXTENDS PluginMngr

CONSTANTS
  Configs,      \* "envs" arrays of the configuration file
  Clients       \* connections the command line server may accept (bound)

EnvNrs == UNION {DOMAIN cf : cf \in Configs}

ASSUME EnvAssumption ==
  \A cf \in Configs : \A k \in DOMAIN cf :
    /\ cf[k].ok \in BOOLEAN         \* all values there, of the right type, script readable
    /\ cf[k].interval \in Int /\ cf[k].auto_start \in BOOLEAN
    /\ cf[k].loads \in BOOLEAN      \* luaL_loadfile accepts the script
    /\ cf[k].events \subseteq Sigs
    /\ "name" \in DOMAIN cf[k]

ASSUME OwnersAssumption == EnvNrs \subseteq Owners

VARIABLES
  config, conserve_mem,  \* the configuration of this run
  terminating,           \* UMD->is_terminated
  envs,                  \* lem->envs: numbers of environments
  th_env,                \* step of each environment's thread, "none" or "failed" if there is none
  cli_server, cli_client,  \* steps of the server and of each client
  mods                   \* sub modules in the first Lua state of each thread

luaVars == <<config, conserve_mem, terminating, envs, th_env, cli_server, cli_client, mods>>
configVars == <<config, conserve_mem, envs>>

\* The Lua states: of an environment's thread, a client, another thread.
NoState == {"no state"}

LuaInit(others) ==
  /\ config \in Configs /\ conserve_mem \in BOOLEAN
  /\ terminating = FALSE
  /\ envs = {}
  /\ th_env = [e \in EnvNrs |-> "none"]
  /\ cli_server = "none" /\ cli_client = [c \in Clients |-> "none"]
  /\ mods = [t \in EnvNrs \cup Clients \cup others |-> NoState]

-----------------------------------------------------------------------------
(* umlua_init, umlua_start, umlua_shutdown: steps of main.                 *)

\* process_cfg stops at the first malformed environment; the ones before it
\* stay.
Accepted == {e \in DOMAIN config : \A d \in 1..e : config[d].ok}

\* lenvm_new_envd: of two environments with one name the first is kept.
Listed == {e \in Accepted : \A d \in 1..(e - 1) : config[d].name # config[e].name}

\* umplg_reg_signal for each event of each environment, in their order
FirstWithEvent(s) == {e \in Accepted :
                        s \in config[e].events /\ \A d \in 1..(e - 1) : s \notin config[d].events}

\* umlua_init: the handlers and the environments of the configuration
umlua_init ==
  /\ signals' = [s \in DOMAIN signals |->
       IF s \in Sigs /\ FirstWithEvent(s) # {} THEN CHOOSE e \in FirstWithEvent(s) : TRUE
       ELSE signals[s]]
  /\ envs' = Listed
  /\ UNCHANGED <<config, conserve_mem, terminating, th_env, cli_server, cli_client, mods>>

\* Fault: only environments with a positive interval are started.
AutoStartPositive(e) == config[e].interval > 0 /\ config[e].auto_start

\* process_lua_envs starts the environment
AutoStart(e) == config[e].interval >= 0 /\ config[e].auto_start

\* umlua_start; pthread_create may fail for the threads in failed, which is
\* only logged
umlua_start(failed) ==
  /\ th_env' = [e \in EnvNrs |->
       IF e \notin envs \/ ~AutoStart(e) THEN "none"
       ELSE IF e \in failed THEN "failed" ELSE "setup"]
  /\ cli_server' = "setup"
  /\ UNCHANGED <<configVars, terminating, cli_client, mods>>

\* Fault: environments that run once are not joined.
JoinedRepeating(e) == config[e].auto_start /\ config[e].interval # 0

\* stop_lua_envs joins the environment's thread
Joined(e) == config[e].auto_start

\* A thread that main joins and that was not created.
NeverCreated(e) == Joined(e) /\ th_env[e] \in {"none", "failed"}

\* shutdown_lua_envs
FreeEnvs ==
  /\ envs' = {}
  /\ UNCHANGED <<config, conserve_mem, terminating, th_env, cli_server, cli_client, mods>>

-----------------------------------------------------------------------------
(* th_lua_env.                                                             *)

EnvGoTo(e, step) == th_env' = [th_env EXCEPT ![e] = step]

\* lua_env_setup, up to the sub modules: "@init_lua_sub_modules" runs every
\* handler that plugins registered for it (create_m_sub_modules)
NewState(t) == mods' = [mods EXCEPT ![t] = umplg_match_signal]

\* The Lua state is made and, unless memory is to be conserved, the script
\* loaded; a script that does not load ends the thread.
EnvSetup(e) ==
  /\ th_env[e] = "setup"
  /\ NewState(e)
  /\ EnvGoTo(e, IF ~conserve_mem /\ ~config[e].loads THEN "done" ELSE "test")
  /\ UNCHANGED <<configVars, terminating, cli_server, cli_client>>

\* Fault: a script that does not load is retried without looking at the flag.
EnvTestRetries(e) ==
  /\ th_env[e] = "test"
  /\ EnvGoTo(e, IF conserve_mem /\ ~config[e].loads THEN "test"
                ELSE IF terminating THEN "done" ELSE "run")
  /\ UNCHANGED <<configVars, terminating, cli_server, cli_client, mods>>

\* The loop's condition and, with conserve_memory, loading the script: if it
\* does not load it is tried again after the interval.
EnvTest(e) ==
  /\ th_env[e] = "test"
  /\ EnvGoTo(e, IF terminating THEN "done"
                ELSE IF conserve_mem /\ ~config[e].loads THEN "test" ELSE "run")
  /\ UNCHANGED <<configVars, terminating, cli_server, cli_client, mods>>

\* Fault: an environment with interval 0 goes on.
AfterRunSleep(e) == "test"

\* one-time only, or nanosleep and the next iteration
AfterRun(e) == IF config[e].interval = 0 THEN "done" ELSE "test"

\* lua_pcall returns, with or without an error; either is only counted
EnvRun(e) ==
  /\ th_env[e] = "run"
  /\ EnvGoTo(e, AfterRun(e))
  /\ UNCHANGED <<configVars, terminating, cli_server, cli_client, mods>>

EnvStep(e) == EnvSetup(e) \/ EnvTest(e) \/ EnvRun(e)

-----------------------------------------------------------------------------
(* th_cli_server and th_cli_client.                                        *)

\* socket, bind and listen; each of them may fail
CliSetup ==
  /\ cli_server = "setup"
  /\ cli_server' \in {"poll", "done"}
  /\ UNCHANGED <<configVars, terminating, th_env, cli_client, mods>>

\* A client connects and gets its thread, which nobody joins; after SIGTERM the
\* poll under way may still accept one.
CliAccept(c) ==
  /\ cli_server = "poll"
  /\ cli_client[c] = "none"
  /\ cli_client' = [cli_client EXCEPT ![c] = "setup"]
  /\ cli_server' = IF terminating THEN "done" ELSE "poll"
  /\ UNCHANGED <<configVars, terminating, th_env, mods>>

\* poll, accept or getpeername fails
CliError ==
  /\ cli_server = "poll"
  /\ cli_server' = "done"
  /\ UNCHANGED <<configVars, terminating, th_env, cli_client, mods>>

\* poll returns after a second at most, and the loop's condition is false
CliStop ==
  /\ cli_server = "poll" /\ terminating
  /\ cli_server' = "done"
  /\ UNCHANGED <<configVars, terminating, th_env, cli_client, mods>>

ClientGoTo(c, step) == cli_client' = [cli_client EXCEPT ![c] = step]

\* The client takes the data base handles from lenv_mngr and makes its state.
ClientSetup(c) ==
  /\ cli_client[c] = "setup"
  /\ NewState(c)
  /\ ClientGoTo(c, "poll")
  /\ UNCHANGED <<configVars, terminating, th_env, cli_server>>

\* The client stays at "poll" while it reads lines of Lua and runs them; the
\* loop's condition is looked at after each line and after a second.
ClientStop(c) ==
  /\ cli_client[c] = "poll" /\ terminating
  /\ ClientGoTo(c, "done")
  /\ UNCHANGED <<configVars, terminating, th_env, cli_server, mods>>

\* poll or recv fails, the peer hangs up, the line does not compile
ClientError(c) ==
  /\ cli_client[c] = "poll"
  /\ ClientGoTo(c, "done")
  /\ UNCHANGED <<configVars, terminating, th_env, cli_server, mods>>

ClientStep(c) == ClientSetup(c) \/ ClientStop(c)

-----------------------------------------------------------------------------

LuaTypeOK ==
  /\ config \in Configs /\ conserve_mem \in BOOLEAN /\ terminating \in BOOLEAN
  /\ envs \subseteq EnvNrs
  /\ th_env \in [EnvNrs -> {"none", "failed", "setup", "test", "run", "done"}]
  /\ cli_server \in {"none", "setup", "poll", "done"}
  /\ cli_client \in [Clients -> {"none", "setup", "poll", "done"}]
  /\ \A t \in DOMAIN mods : mods[t] = NoState \/ mods[t] \subseteq SubMods
=============================================================================
