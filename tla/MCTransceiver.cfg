CONSTANTS
  TX_BITS = 5
  PARSED_BITS = 2
  FRAME_BITS = 3
  RX_STREAM_SIZE = 4
  MAX_PASS = 3
  MaxTxFrames = 2
  MaxRxFrames = 3
SPECIFICATION Spec
INVARIANTS TypeOK FrameWithRoomArrives
PROPERTY ImplementsLines
