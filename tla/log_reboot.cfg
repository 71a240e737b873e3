SPECIFICATION Spec
CONSTANTS
  NPages = 3
  PageSlots = 2
  QueueMax = 2
  InitModes = {"STOP", "CIRCULAR"}
  NewModes = {}
  Faults = {"write_erase", "program", "cut_write"}
  MaxSerial = 11
  MaxBoots = 2
CHECK_DEADLOCK FALSE
INVARIANTS WriterReady RetainsLast
PROPERTIES RebootRecovers StopKeepsRecords
