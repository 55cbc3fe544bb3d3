---------------------------- MODULE MCLifecycle ----------------------------
(***************************************************************************)
(* Lifecycle with five shared objects in the plugin directory: one that    *)
(* is no plugin, plugins/mqtt, one that asks for a command of plugins/mqtt,*)
(* plugins/openwrt, and one more, which makes the array grow.  The first   *)
(* configuration has a repeating environment, a second one of the same     *)
(* name, and a malformed entry; the other one a script that does not load, *)
(* run once, and a negative interval.                                      *)
(***************************************************************************)
EXTENDS Lifecycle

CONSTANTS bad, mqtt, dup, openwrt, zz, publish, upload, call, s1, s2, sub, c1

MCPlugins == {bad, mqtt, dup, openwrt, zz}
MCLoadOrder == <<bad, mqtt, dup, openwrt, zz>>
MCcmd_lst == [p \in MCPlugins |-> CASE p = mqtt -> {publish, upload}
                                    [] p = dup -> {upload}
                                    [] p = zz -> {call}
                                    [] OTHER -> {}]
MCOwners == 1..3 \cup {mqtt, openwrt}

Env(n, t, start, ld, ev) ==
  [ok |-> TRUE, name |-> n, interval |-> t, auto_start |-> start, loads |-> ld, events |-> ev]

MCConfigs == {
  <<Env("a", 1, TRUE, TRUE, {s1}), Env("a", 0, TRUE, TRUE, {s1, s2}),
    [Env("b", 0, TRUE, TRUE, {}) EXCEPT !.ok = FALSE]>>,
  <<Env("a", 0, TRUE, FALSE, {s1}), Env("b", -1, TRUE, TRUE, {s2})>>,
  <<Env("a", 0, TRUE, TRUE, {}), Env("b", -1, FALSE, TRUE, {s1})>>}
=============================================================================
