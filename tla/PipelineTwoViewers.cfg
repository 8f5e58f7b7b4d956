CONSTANTS
  Clients = {c1, c2}
  Tiles = {t1}
  Buffers = {b1, b2, b3, b4}
  NoBuffer = none
  Keys = {k1, k2}
  Backend = "direct"
  Env = {}
  ReqCap = 1
  MaxPaint = 2
SPECIFICATION Spec
SYMMETRY Symmetry
PROPERTIES EmptyReplyIsTrue
CHECK_DEADLOCK FALSE
