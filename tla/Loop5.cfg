CONSTANTS
  Clients = {c1}
  Interval = 2
  FastGap = 1
  IdleLimit = 5
  OnDemandWait = 1
  Slack = 0
  CaptureMax = 0
  CanFail = FALSE
SPECIFICATION FairSpec
PROPERTIES RequestAnswered
