CONSTANTS
  Clients = {c1, c2, c3}
  NoClient = none
  KeyInt = 3
  Interval = 1
  SockCap = 1
SPECIFICATION FairSpec
INVARIANTS TypeOK NeverGarbled
PROPERTIES StreamStarts CaptureComesBack
CHECK_DEADLOCK FALSE
