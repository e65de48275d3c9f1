SPECIFICATION Spec
CONSTANTS
  r1 = r1
  r2 = r2
  db = db
  Self = db
  Readers = {}
  Tables = {1}
  Founded = 0
  Droppable = {}
  Timestamps = {1, 2}
  L1Window = 2
  L2Window = 4
  Takeover = TRUE
  IoErrors = TRUE
  MaxBatch = 2
  MaxRecords = 3
  MaxCrashes = 2
INVARIANT FilesPresent
INVARIANT AlwaysOpens
INVARIANT VisibleFresh
PROPERTY ImplementsMemberLogs
CHECK_DEADLOCK FALSE
