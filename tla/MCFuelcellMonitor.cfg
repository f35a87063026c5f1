SPECIFICATION Spec
CONSTANTS
  Cells = {"c0", "c1"}
  Master = "c0"
  MasterFaults = {"FUELCELL_ERROR"}
  CellFaults = {"FUELCELL_UV"}
  UnderVoltage = "FUELCELL_UV"
  CONNECTION_WAIT = 2
  ERROR_PROPAGATION_DELAY = 2
  CHECK_PERIOD = 2
  TIME_MODULUS = 32
  MaxTime = 8
INVARIANTS TypeOK LossHasReason SilenceIsNoticed FaultIsNoticed RaisedIsLasting
CHECK_DEADLOCK FALSE
