CONSTANTS
  Clients = {c1}
  Interval = 1
  FastGap = 3
  IdleLimit = 15
  OnDemandWait = 3
  Slack = 0
  CaptureMax = 0
  CanFail = FALSE
SPECIFICATION FairSpec
PROPERTIES ShutdownCompletes
