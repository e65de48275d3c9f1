------------------------------ MODULE MCCodecs ------------------------------
(* Bytes of 5 bits, words of 2 bytes: every branch of the token lengths,   *)
(* of the widths and of the bitmaps' padding is reached by six rows.       *)
EXTENDS Codecs

FewSamples == {0, 1, 30, 32, 1023}
FewMoments == {-512, -300, -1, 0, 1, 2, 60, 511}
FewBytes == {0, 1, 2, 5, 8, 9, 16, 17, 20, 26, 30, 31}
=============================================================================
