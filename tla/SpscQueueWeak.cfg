CONSTANTS
  Items = {i1, i2}
  NoItem = NoItem
  QSIZE = 6
  QUEUE_WATERMARK = 2
SPECIFICATION WeakSpec
INVARIANT PopsPushedItem
