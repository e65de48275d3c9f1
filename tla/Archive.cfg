SPECIFICATION Spec
CONSTANTS
  b1 = b1
  Bases = {b1}
  MaxPins = 1
  Lengths = {1}
  MaxBytes = 2
  ScratchEntries = 1
  IoErrors = TRUE
  MaxBatch = 2
  MaxRecords = 4
  MaxCrashes = 1
INVARIANT AlwaysUsable
INVARIANT ArchivedIsDurable
INVARIANT ExportsContinue
INVARIANT BasesExtendable
CHECK_DEADLOCK FALSE
