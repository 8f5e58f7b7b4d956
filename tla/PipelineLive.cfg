CONSTANTS
  Clients = {c1}
  Tiles = {t1, t2}
  Buffers = {b1, b2, b3}
  NoBuffer = none
  Keys = {k1, k2}
  Backend = "direct"
  Env = {}
  ReqCap = 2
  MaxPaint = 3
SPECIFICATION FairSpec
INVARIANTS TypeOK NoLostTile
PROPERTIES EmptyReplyIsTrue ViewerCatchesUp RequestAnswered
CHECK_DEADLOCK FALSE
