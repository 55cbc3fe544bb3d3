CONSTANTS
  Uuids = {u1, u2}
  Sizes <- MCSizes
  Payloads <- MCPayloads
  CHUNK <- MCChunk
  SIG_SEM_TIMEOUT <- MCTimeout
  MaxTime <- MCMaxTime
SPECIFICATION Spec
INVARIANTS
  TypeOK
  NeverOverflows
  FinalIsComplete
  NoOrphanTmp
  StaleAreDropped
PROPERTY
  DroppedOnlyIfStaleOrDone
