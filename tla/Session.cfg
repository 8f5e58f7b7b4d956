CONSTANTS
  Clients = {c1}
  ReqCap = 1
  InputCap = 1
  UpCap = 1
  DownCap = 1
  MaxEvents = 2
  MaxFormat = 1
  Password = TRUE
SPECIFICATION FairSpec
INVARIANTS TypeOK FormatRespected OnlyProvedViewers
PROPERTIES EventsInOrder InputIsFifo InputFlows SessionEnds
CHECK_DEADLOCK FALSE
