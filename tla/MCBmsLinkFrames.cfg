SPECIFICATION Spec
CONSTANTS
  Pdos = 1
  Commands = {}
  Values = {"charge", "stop"}
  Requests = {"read", "unknown"}
  WATCHDOG_PERIOD = 1
  MAX_PASS = 0
  MaxTime = 1
INVARIANTS NewestInForce
PROPERTIES FramesInTurn FramesAnswered RequestIsAnswered
