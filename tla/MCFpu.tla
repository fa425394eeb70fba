------------------------------- MODULE MCFpu -------------------------------
(***************************************************************************)
(* Words of 8 bits and half words of 4.  Integers are the ends of the      *)
(* signed and unsigned ranges of words, half words, quarters and eighths,  *)
(* their neighbours, and words whose halves differ in sign.  Singles have  *)
(* 4 bits (2 exponent, 1 fraction), and every one of them is tried; of     *)
(* doubles, of 8 bits (4 exponent, 3 fraction), zeros, subnormals, numbers *)
(* with and without a fraction, the largest ones, infinities, quiet and    *)
(* signalling NaNs, of both signs.                                         *)
(***************************************************************************)
EXTENDS Fpu

MCVals == {0, 1, 2, 3, 5, 7, 8, 9, 15, 16, 17, 24, 64, 112, 120, 127, 128, 129, 135, 136,
           192, 224, 240, 241, 247, 248, 254, 255}

MCImms == {-8, -7, -4, -2, -1, 0, 1, 2, 3, 4, 5, 7}

Positive == {0, 1, 5, 8, 44, 52, 56, 57, 60, 64, 66, 68, 69, 80, 84, 86, 99, 104, 111, 112,
             118, 119, 120, 121, 124}

MCDoubles == Positive \cup { 128 + n : n \in Positive }

\* Boxed singles, and some that are not.
MCSingles == (240 .. 255) \cup {2, 39}

MCFusible == {0, 1, 9, 56, 61, 63, 67, 99, 119, 120, 124, 128, 184, 189, 247, 253, 254}

MCInts == {0, 1, 3, 5, 7, 8, 9, 15, 16, 17, 100, 127, 128, 129, 200, 240, 247, 248, 255}
=============================================================================
