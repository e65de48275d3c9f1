SPECIFICATION Spec
CONSTANTS
  BaseSeq = 1
  MaxSeq = 3
  MaxFaults = 3
INVARIANT Resumable
INVARIANT AcknowledgedKept
INVARIANT RestoredExact
INVARIANT RetriesAccepted
INVARIANT OwnerOpens
CHECK_DEADLOCK FALSE
