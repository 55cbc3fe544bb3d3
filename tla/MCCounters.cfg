CONSTANTS
  short = short
  long = long
  cut = cut
  NoThread = NoThread
  NoObj = NoObj
  NoId = NoId
  Threads = {t1, t2}
  Ids <- MCIds
  Trunc <- MCTrunc
  Objs = {1, 2}
  Mod = 4
  Ints <- MCInts
  MaxTime = 2
  MaxCalls = 3
SPECIFICATION Spec
CHECK_DEADLOCK FALSE
INVARIANTS
  TypeOK
  IncrementsAdd
  OneCounterPerId
PROPERTY
  CallsReturn
