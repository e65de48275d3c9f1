SPECIFICATION Spec
CONSTANTS
  a = a
  b = b
  Members <- Both
  Founders <- Both
  Retirable = {}
  Lengths = {3}
  MaxBatch = 2
  HeaderLen = 2
  SegmentBytes = 8
  BufferBytes = 5
  MaxBytes = 16
  IndexBytes = 20
  MemberCharge = 2
  SegmentCharge = 4
  EntryCharge = 3
  TornHeaders = TRUE
  MaxLsn = 5
  MaxCrashes = 2
SYMMETRY Symmetry
INVARIANT TypeOK
INVARIANT PromisesKept
INVARIANT CorruptOnlyHeadless
INVARIANT BudgetsExact
INVARIANT AcceptedBatchFits
INVARIANT CapacityReturns
INVARIANT DurablePositionExact
PROPERTY DurableNeverFalls
CHECK_DEADLOCK FALSE
