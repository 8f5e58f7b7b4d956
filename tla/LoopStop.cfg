CONSTANTS
  Clients = {c1, c2}
  Interval = 1
  FastGap = 1
  IdleLimit = 5
  OnDemandWait = 1
  Slack = 1
  CaptureMax = 0
  CanFail = TRUE
  MaxCards = 2
  MaxFbs = 1
SPECIFICATION FairMain
PROPERTIES PollingStops QuietShutdown ErrorsEndTheProgram
