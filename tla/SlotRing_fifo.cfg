\* One writer, one reader: the ring as a FIFO channel, with liveness.
SPECIFICATION FairSpec
CONSTANTS
  Writers = {w1}
  Readers = {r1}
  Size = 3
  MaxItems = 5
PROPERTIES IsFifo RefusedOnlyWhenFull RefusedOnlyWhenEmpty EverythingDelivered
