CONSTANTS
  bad = bad
  mqtt = mqtt
  dup = dup
  openwrt = openwrt
  zz = zz
  publish = publish
  upload = upload
  call = call
  s1 = s1
  s2 = s2
  sub = sub
  c1 = c1
  NoOwner = NoOwner
  NoHook = NoHook
  Plugins <- MCPlugins
  BadPlugins = {bad}
  Cmds = {publish, upload, call}
  cmd_lst <- MCcmd_lst
  Sigs = {s1, s2}
  SubMods = {sub}
  Owners <- MCOwners
  ARRAY_MIN = 2
  Configs <- MCConfigs
  Clients = {c1}
  LoadOrder <- MCLoadOrder
  Mqtt = mqtt
  OpenWrt = openwrt
  MqttSubMod = sub
SPECIFICATION Spec
CHECK_DEADLOCK FALSE
INVARIANTS
  TypeOK
  OnlyConnectionFreedInUse
  TerminatedOnce
  HooksResolve
  SubModulesComplete
PROPERTIES
  OneShotEnds
  ShutdownEnds
