SPECIFICATION Spec
CONSTANTS
  NPages = 3
  PageSlots = 2
  QueueMax = 2
  InitModes = {"CIRCULAR"}
  NewModes = {}
  Faults = {}
  MaxSerial = 10
  MaxBoots = 1
CHECK_DEADLOCK FALSE
INVARIANTS ReadOldestFirst
