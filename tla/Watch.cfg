SPECIFICATION Spec
CONSTANTS
  i1 = i1
  i2 = i2
  i3 = i3
  v1 = v1
  v2 = v2
  NONE = NONE
  FAILED = FAILED
  Watcher = Watcher
  Ids = {i1, i2, i3}
  Versions = {v1, v2}
  LastSurface = 2
  LastChannel = 2
  Audited = TRUE
INVARIANTS TypeOK ReceiverKeepsUp AlertsNameSaved
PROPERTIES AuditReadsRight EveryChangeTried Converges
