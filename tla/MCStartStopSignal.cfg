SPECIFICATION Spec
CONSTANTS
  TPDO_PERIOD = 3
  FRAME_MAX = 4
  RESTART_DELAY = 12
INVARIANTS TypeOK CommandReachesLine StoppedUnlessLost
PROPERTIES NoStartAfterStop StopIsServed
