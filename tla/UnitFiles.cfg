\* Sealing, merging and reading unit files, with one damaged file.
SPECIFICATION Spec
CONSTANTS
    WorkingBytes = 470
    DecodeBytes = 960
    Tables <- TwoTables
    Streams <- TwoStreams
    MaxSectionRows = 2
    MaxUnitSections = 4
    CacheBudget = 4
    PageOverhead = 1
    MaxTick = 4
    MaxRows = 3
    RowKinds <- FourKinds
    MaxVersions <- FirstAltered
    MaxReopens = 1
    MaxDamage = 1
INVARIANT ReadsExact
INVARIANT MergePossible
INVARIANT CacheExact
CHECK_DEADLOCK FALSE
