CONSTANTS
  t1 = t1
  t2 = t2
  tbl = tbl
  Nil = Nil
  NoTable = NoTable
  Threads = {t1, t2}
  Tables = {tbl}
  Keys = {"1", "01", "name"}
  Values = {"007", "7", ""}
  Numeric <- MCNumeric
  Empty = ""
  MaxSets = 2
SPECIFICATION Spec
INVARIANTS
  TypeOK
PROPERTIES
  ReadsLastSet
