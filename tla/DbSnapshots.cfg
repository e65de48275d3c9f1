SPECIFICATION Spec
CONSTANTS
  r1 = r1
  r2 = r2
  db = db
  Self = db
  Readers <- OneReader
  Tables = {1, 2}
  Founded = 2
  Droppable = {1}
  Timestamps = {1, 2}
  L1Window = 4
  L2Window = 8
  Takeover = FALSE
  IoErrors = FALSE
  MaxBatch = 2
  MaxRecords = 5
  MaxCrashes = 1
INVARIANT FactsAreTheLog
INVARIANT HeadsKept
INVARIANT ClocksExact
INVARIANT SnapshotSurvivesOneReplacement
INVARIANT NothingLeftBehind
CHECK_DEADLOCK FALSE
