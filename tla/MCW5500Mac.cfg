\* One buffer, three frames, and a power glitch, a pulled cable or a console reset.
CONSTANTS
  Buffers <- OneBuffer
  MaxFrames = 3
  RxRoom = 2
  Debounce = 1
  MaxFaults = 1
SPECIFICATION FairSpec
INVARIANT SendsSerialized
INVARIANT BuffersKept
PROPERTY InOrder
CHECK_DEADLOCK FALSE
PROPERTY QueueMoves
