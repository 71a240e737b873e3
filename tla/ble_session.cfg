SPECIFICATION FairSpec
CONSTANTS
  OpModes <- AllModes
  Faults = {"not_ready", "discoverable", "adv_data", "no_shutdown"}
  QueueMax = 2
  MaxResets = 1
INVARIANTS TypeOK 
PROPERTIES WindowEnds  ScheduleReopens
