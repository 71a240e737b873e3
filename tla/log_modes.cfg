SPECIFICATION Spec
CONSTANTS
  NPages = 3
  PageSlots = 2
  QueueMax = 2
  InitModes = {"STOP", "CIRCULAR"}
  NewModes = {"STOP", "CIRCULAR"}
  Faults = {"write_erase", "program", "torn", "header", "clear_erase", "cut_write", "cut_clear", "cut_header"}
  MaxSerial = 8
  MaxBoots = 1
CHECK_DEADLOCK FALSE
INVARIANTS TypeOK
PROPERTIES NoWriteWhileConnected
