SPECIFICATION Spec
CONSTANTS
  p1 = p1
  p2 = p2
  i1 = i1
  i2 = i2
  i3 = i3
  t1 = t1
  t2 = t2
  row = row
  NONE = NONE
  Procs = {p1, p2}
  Ids = {i1, i2, i3}
  LowIds = {i1}
  Targets = {t1, t2}
  Rows = {row}
  Keeps = {1}
  LastTable = 3
  Contents <- MCContents
INVARIANTS TypeOK SnapshotIntegrity LoadIsPrefix KeepFloor
PROPERTIES ImplementsTable
SYMMETRY Symmetry
