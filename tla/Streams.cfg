\* One table: four records, times up to four.
SPECIFICATION Table
CONSTANTS
  db = db
  Db = db
  Members <- OneMember
  Values <- Bodies
  MaxTop = 4
  Series = {1}
  Fields = {1, 2}
  FirstFields = {1}
  FirstValidity = 2
  FloatFields = {2}
  SignBit = 4
  Rows <- CellSets
  Timestamps = {1, 2, 3}
  Cutoffs = {1, 2}
  Validities = {0, 2}
  Widths = {2}
INVARIANT Complete
INVARIANT AnswersExact
INVARIANT AggregatesExact
CHECK_DEADLOCK FALSE
