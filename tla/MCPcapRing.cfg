CONSTANTS
  Byte <- SmallBytes
  ringbuf_size = 5
  Records <- SmallRecords
  MaxReadLen = 3
  MaxDropped = 1
  Zero = 0
SPECIFICATION RingSpec
PROPERTY ImplementsFifo
