SPECIFICATION Spec
CONSTANTS
  r1 = r1
  r2 = r2
  db = db
  Self = db
  Readers <- OneReader
  Tables = {1}
  Founded = 1
  Droppable = {}
  Timestamps = {1, 2}
  L1Window = 2
  L2Window = 4
  Takeover = FALSE
  IoErrors = FALSE
  MaxBatch = 1
  MaxRecords = 3
  MaxCrashes = 0
INVARIANT SnapshotsIntact
CHECK_DEADLOCK FALSE
