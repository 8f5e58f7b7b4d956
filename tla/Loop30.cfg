CONSTANTS
  Clients = {c1, c2}
  Interval = 1
  FastGap = 3
  IdleLimit = 15
  OnDemandWait = 3
  Slack = 1
  CaptureMax = 1
  CanFail = FALSE
SPECIFICATION Spec
SYMMETRY Symmetry
INVARIANTS TypeOK AnsweredInTime NobodyForgotten
PROPERTIES NoDoubleCapture
