CONSTANTS
  Objects = {o1, o2, o3}
  NoObject = none
  Fbs = {f1, f2}
  NoFb = nofb
  Handles = {h1, h2, h3, h4}
  CacheSize = 1
  Prime = {o1}
  Dumb = {o1, o2}
  Tiled = {}
  HasFb2 = TRUE
  AllowVaapi = TRUE
SPECIFICATION Spec
SYMMETRY Symmetry
VIEW View
INVARIANTS TypeOK HandlesPinned NoStaleMap
CHECK_DEADLOCK FALSE
