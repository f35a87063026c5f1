CONSTANTS
  Capacity = 3
  BOOT_MESSAGES = 1
  Cpu2Messages = {"c1", "c2"}
SPECIFICATION Spec
INVARIANT TypeOK
PROPERTIES ImplementsLog
