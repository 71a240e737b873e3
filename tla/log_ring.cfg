SPECIFICATION Spec
CONSTANTS
  NPages = 3
  PageSlots = 2
  QueueMax = 2
  InitModes = {"CIRCULAR"}
  NewModes = {"CIRCULAR"}
  Faults = {"write_erase", "program"}
  MaxSerial = 16
  MaxBoots = 0
CHECK_DEADLOCK FALSE
INVARIANTS DownloadIsLog RingInOrder
PROPERTIES RefinesRingLog
