--------------------------- MODULE MCModelHandoff ---------------------------
(* Labels over three characters: the empty label (a file named " .png"),   *)
(* short ones with repeated characters, one of exactly four characters     *)
(* (the lower clamp of the label width) and one of seventeen, one more     *)
(* than the upper clamp, whose last character (3) appears nowhere else;    *)
(* one or two images per split.  Image sizes 16 x 24 and 32 x 12 have the  *)
(* same number of pixels; a std of 0 (blank images), exactly 1e-6 (the     *)
(* floor) and a usual one; a zero and a non-zero mean.                     *)
EXTENDS ModelHandoff

MCLabelSet ==
  { <<>>, <<2>>, <<2, 1>>, <<1, 2, 2, 1>>,
    [j \in 1..17 |-> IF j = 17 THEN 3 ELSE 1 + (j % 2)] }

MCMaxSamples == 2
=============================================================================
