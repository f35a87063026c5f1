SPECIFICATION Spec
CONSTANTS
  FcErrors = {"FUELCELL_UV"}
  ProtectionErrors = {"OVP_OUT", "OCP_IN"}
  POWERUP_TO_STANDBY_DELAY = 1
  ERROR_ENABLING_DELAY = 1
  FUELCELL_STARTUP_MAX_DURATION = 2
  STARTUP_TO_READY_DELAY = 1
  DELAY_BEFORE_SHUTDOWN = 1
  DELAY_AFTER_SHUTDOWN = 1
  RELAUNCH_DELAY = 2
  MAX_FAILURE_COUNT = 2
  RefMin = 1
  RefMax = 3
  MaxElapsed = 3
INVARIANTS TypeOK EnergyFlow RelayFollowsCycle NoChargeIntoFullBattery CellSupervision Lockout RampStartsLow
PROPERTIES NoCellErrorAfterStop CycleSafety
