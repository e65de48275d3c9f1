SPECIFICATION Spec
CONSTANTS
  r1 = r1
  r2 = r2
  db = db
  Self = db
  Readers = {}
  Tables = {1, 2}
  Founded = 2
  Droppable = {1}
  Timestamps = {1, 2, 3}
  L1Window = 2
  L2Window = 4
  Takeover = FALSE
  IoErrors = FALSE
  MaxBatch = 0
  MaxRecords = 6
  MaxCrashes = 0
INVARIANT LookupsExact
INVARIANT ScansExact
INVARIANT MaintenancePossible
CHECK_DEADLOCK FALSE
