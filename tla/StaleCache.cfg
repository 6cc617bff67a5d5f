SPECIFICATION Spec
CONSTANTS
  p1 = p1
  p2 = p2
  NONE = NONE
  TORN = TORN
  Procs = {p1, p2}
  LastPage = 2
  MaxCursor = 2
  PageBounds = {1}
  TTL = 1
  Horizon = 3
INVARIANT CacheExpires
