SPECIFICATION Spec
CONSTANTS
  Pdos = 1
  Commands = {1}
  Values = {"charge"}
  Requests = {"RESET FAULTS", "STARTUP"}
  WATCHDOG_PERIOD = 3
  MAX_PASS = 1
  MaxTime = 5
INVARIANTS TypeOK SilenceIsKnown
PROPERTIES AlarmHasReason
