SPECIFICATION FairSpec
CONSTANTS
  a = a
  b = b
  Members <- Both
  Founders = {a}
  Retirable = {b}
  Lengths = {3}
  MaxBatch = 2
  HeaderLen = 2
  SegmentBytes = 8
  BufferBytes = 5
  MaxBytes = 16
  IndexBytes = 24
  MemberCharge = 2
  SegmentCharge = 4
  EntryCharge = 3
  TornHeaders = FALSE
  MaxLsn = 4
  MaxCrashes = 1
INVARIANT RecordsReachable
PROPERTY ImplementsMemberLogs
PROPERTY CallReturns
CHECK_DEADLOCK FALSE
