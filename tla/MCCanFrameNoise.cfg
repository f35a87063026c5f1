CONSTANTS
  FrameIds <- FirstCell
  DataFields <- MixedFields
  MaxFrames = 1
  MaxFlips = 1
SPECIFICATION Spec
INVARIANT DataFitsBuffer
CHECK_DEADLOCK FALSE
