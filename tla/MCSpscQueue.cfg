CONSTANTS
  i1 = i1
  i2 = i2
  NoItem = NoItem
  Items <- MCItems
  QSIZE <- MCSlots
  QUEUE_WATERMARK <- MCWatermark
SPECIFICATION Spec
INVARIANTS
  TypeOK
  RingInv
  PublicationLag
  NoSlotRace
  DrainedNotFull
PROPERTY
  ImplementsFifo
