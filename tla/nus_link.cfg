SPECIFICATION Spec
CONSTANTS
  r1 = r1
  r2 = r2
  r3 = r3
  Req <- ThreeReq
  Long <- TwoLong
  Clients = {"app", "gui"}
  Faults = {"drop", "write", "stall", "disconnect"}
INVARIANTS TypeOK OwnAnswer OkWasExecuted LockKeepsApart
CHECK_DEADLOCK FALSE
