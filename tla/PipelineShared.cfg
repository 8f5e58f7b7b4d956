CONSTANTS
  Clients = {c1}
  Tiles = {t1, t2}
  Buffers = {b1, b2, b3}
  NoBuffer = none
  Keys = {k1, k2}
  Backend = "direct"
  Env = {"fast", "fail", "reconnect"}
  ReqCap = 1
  MaxPaint = 3
SPECIFICATION Spec
SYMMETRY Interchangeable
VIEW View
INVARIANTS FramesNotShared
PROPERTIES PictureNeverGoesBack ImplementsRemoteScreen
CHECK_DEADLOCK FALSE
