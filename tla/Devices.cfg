CONSTANTS
  Clients = {c1, c2}
  Syms = {"a", "A", "ae"}
  MaxFlow = 1
  CanFail = TRUE
SPECIFICATION FairSpec
INVARIANTS TypeOK NoStuckButton 
PROPERTIES ButtonComesUp
CHECK_DEADLOCK FALSE
