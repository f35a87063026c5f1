CONSTANTS
  FrameIds <- Ids
  DataFields <- Fields
  MaxFrames = 2
  MaxFlips = 1
SPECIFICATION Spec
INVARIANT ReturnsWhatWasSent
CHECK_DEADLOCK FALSE
