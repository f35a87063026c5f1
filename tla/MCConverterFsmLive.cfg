SPECIFICATION Spec
CONSTANTS
  FcErrors = {"FUELCELL_UV"}
  ProtectionErrors = {"OVP_OUT"}
  POWERUP_TO_STANDBY_DELAY = 0
  ERROR_ENABLING_DELAY = 0
  FUELCELL_STARTUP_MAX_DURATION = 1
  STARTUP_TO_READY_DELAY = 0
  DELAY_BEFORE_SHUTDOWN = 0
  DELAY_AFTER_SHUTDOWN = 0
  RELAUNCH_DELAY = 0
  MAX_FAILURE_COUNT = 1
  RefMin = 1
  RefMax = 2
  MaxElapsed = 2
PROPERTIES ImplementsCycle ErrorIsolates LinkEndsPowerup
