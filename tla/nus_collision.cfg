SPECIFICATION Spec
CONSTANTS
  r1 = r1
  r2 = r2
  r3 = r3
  Req <- ThreeReq
  Long <- TwoLong
  Clients = {"app"}
  Faults = {}
INVARIANT ExecutedAsSent
CHECK_DEADLOCK FALSE
