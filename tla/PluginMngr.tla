----------------------------- MODULE PluginMngr -----------------------------
(***************************************************************************)
(* The plugin manager (utils/umink_plugin.c): the array of loaded plugins, *)
(* the hooks that lead from a command to its plugin, the table of signals, *)
(* and termination in two phases.  The operators are actions on this state *)
(* that main and the plugins' init handlers take (module Lifecycle).       *)
(*                                                                         *)
(* A hook holds a pointer into the array, here the array's allocation and  *)
(* an index.  Growing the array may move it; the hooks keep the old        *)
(* pointer.  What a plugin exports (handlers, cmd_lst) is a constant.      *)
(***************************************************************************)
EXTENDS Integers, Sequences, FiniteSets

CONSTANTS
  Plugins,      \* shared objects in the plugin directory
  BadPlugins,   \* the ones dlopen refuses or that lack a handler
  Cmds,         \* command ids
  cmd_lst,      \* cmd_lst[p]: the commands plugin p handles
  Sigs,         \* signals of the Lua configuration
  SubMods,      \* signals "@init_lua_sub_module:..." of the plugins
  Owners,       \* what can handle a signal: an environment, a plugin
  NoOwner, NoHook,
  ARRAY_MIN     \* 8: elements utarray reserves first

ASSUME PluginAssumption ==
  /\ BadPlugins \subseteq Plugins
  /\ cmd_lst \in [Plugins -> SUBSET Cmds]
  /\ NoOwner \notin Owners /\ NoHook \notin [base : Nat, idx : Nat \ {0}]
  /\ Plugins \cap Sigs = {}     \* of different kinds
  /\ ARRAY_MIN \in Nat \ {0}

VARIABLES
  plgs,         \* pm->plgs
  base, cap,    \* its allocation (a number) and how many plugins fit
  hooks,        \* pm->hooks: pointer to the plugin of each command
  signals,      \* pm->signals: what handles each signal
  terminated,   \* plugins and signals whose flag "terminated" is set
  termed        \* history: the phases each plugin and signal was called with

pluginVars == <<plgs, base, cap, hooks, signals, terminated, termed>>

Terminable == Plugins \cup Sigs

Pointer == [base : Nat, idx : Nat \ {0}]

\* the plugins in the array
Loaded == {plgs[k] : k \in DOMAIN plgs}

PluginInit ==
  /\ plgs = <<>> /\ base = 0 /\ cap = 0
  /\ hooks = [c \in Cmds |-> NoHook]
  /\ signals = [s \in Sigs \cup SubMods |-> NoOwner]
  /\ terminated = {}
  /\ termed = [x \in Terminable |-> <<>>]

-----------------------------------------------------------------------------

\* Fault: hooks that exist are not looked for.
HookTakenNever(p) == FALSE

\* one of the hooks that p asks for exists
HookTaken(p) == \E c \in cmd_lst[p] : hooks[c] # NoHook

\* Fault: the handlers of a shared object are not looked for.
RefusedHooksOnly(p) == HookTaken(p)

\* umplg_load returns NULL; the shared object is closed
Refused(p) == p \in BadPlugins \/ HookTaken(p)

\* utarray_push_back: a full array is reallocated with twice the size, at the
\* same place or at another
PushBack(p) ==
  /\ plgs' = Append(plgs, p)
  /\ IF Len(plgs) < cap
       THEN UNCHANGED <<base, cap>>
       ELSE /\ cap' = IF cap = 0 THEN ARRAY_MIN ELSE 2 * cap
            /\ base' \in IF cap = 0 THEN {base} ELSE {base, base + 1}

\* umplg_load, up to the call of p's init handler
umplg_load(p) ==
  /\ ~Refused(p)
  /\ PushBack(p)
  /\ hooks' = [c \in Cmds |->
                 IF c \in cmd_lst[p] THEN [base |-> base', idx |-> Len(plgs')] ELSE hooks[c]]
  /\ UNCHANGED <<signals, terminated, termed>>

\* umplg_run: the plugins whose handler a command may reach; a pointer into an
\* allocation that was given up leads anywhere
umplg_run(c) ==
  IF hooks[c] = NoHook THEN {}
  ELSE IF hooks[c].base = base THEN {plgs[hooks[c].idx]} ELSE Plugins

\* umplg_reg_signal on a table: a signal that is there keeps its handler
umplg_reg_signal(table, s, o) == IF table[s] = NoOwner THEN [table EXCEPT ![s] = o] ELSE table

\* umplg_match_signal with "@init_lua_sub_module:*"
umplg_match_signal == {s \in SubMods : signals[s] # NoOwner}

\* The Lua signals in the table: the ones with a term handler.
WithTerm == {s \in Sigs : signals[s] # NoOwner}

\* x was called with the phases of seq
TermCalls(X, seq) == termed' = [x \in Terminable |-> IF x \in X THEN termed[x] \o seq ELSE termed[x]]

\* Fault: the flag "terminated" is not set.
TerminateUnmarked(X, phase) ==
  /\ TermCalls(X, <<phase>>)
  /\ UNCHANGED <<plgs, base, cap, hooks, signals, terminated>>

\* umplg_terminate_all for the signals or plugins in X
Terminate(X, phase) ==
  /\ TermCalls(X, <<phase>>)
  /\ terminated' = terminated \cup X
  /\ UNCHANGED <<plgs, base, cap, hooks, signals>>

\* umplg_free_mngr: what was not terminated goes through both phases; all
\* tables are emptied and the plugins unloaded
umplg_free_mngr ==
  /\ TermCalls((WithTerm \cup Loaded) \ terminated, <<0, 1>>)
  /\ plgs' = <<>> /\ cap' = 0
  /\ hooks' = [c \in Cmds |-> NoHook]
  /\ signals' = [s \in DOMAIN signals |-> NoOwner]
  /\ UNCHANGED <<base, terminated>>

-----------------------------------------------------------------------------

PluginTypeOK ==
  /\ plgs \in Seq(Plugins \ BadPlugins) /\ Len(plgs) <= cap
  /\ base \in Nat /\ cap \in Nat
  /\ hooks \in [Cmds -> Pointer \cup {NoHook}]
  /\ signals \in [Sigs \cup SubMods -> Owners \cup {NoOwner}]
  /\ terminated \subseteq Terminable
  /\ termed \in [Terminable -> Seq({0, 1})]
=============================================================================
