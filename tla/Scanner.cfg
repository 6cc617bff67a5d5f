SPECIFICATION Spec
CONSTANTS
  ok = ok
  bad = bad
  odd = odd
  boom = boom
  inv = inv
  NONE = NONE
  Items <- MCItems
  Kind <- MCKind
  SafeTools = {ok, odd}
  OddSchemas = {odd}
  Pages <- MCPages
  LastSurface = 3
  CapabilityOf <- MCCapabilityOf
  Servers <- MCServers
  MaxCursor = 2
  MaxPages = 3
  MaxProbes = 1
  Prober = TRUE
CHECK_DEADLOCK FALSE
INVARIANTS TypeOK CompleteMeansAll NothingMissedSilently
PROPERTIES OneSession Ends
