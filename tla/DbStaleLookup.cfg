SPECIFICATION Spec
CONSTANTS
  r1 = r1
  r2 = r2
  db = db
  Self = db
  Readers = {}
  Tables = {1, 2}
  Founded = 2
  Droppable = {}
  Timestamps = {1, 2, 3}
  L1Window = 2
  L2Window = 4
  Takeover = FALSE
  IoErrors = FALSE
  MaxBatch = 1
  MaxRecords = 5
  MaxCrashes = 0
INVARIANT LookupsTruthful
CHECK_DEADLOCK FALSE
