\* Streams of bytes of 5 bits, all columns of up to six rows and all streams of up to four bytes.
SPECIFICATION Spec
CONSTANTS
    ByteBits = 5
    WordBytes = 2
    FloatBytes = 1
    Samples <- FewSamples
    Moments <- FewMoments
    Alphabet <- FewBytes
    MaxCells = 6
    MaxBytes = 4
INVARIANT RoundTrip
INVARIANT OnlyCanonical
CHECK_DEADLOCK FALSE
