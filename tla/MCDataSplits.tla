---------------------------- MODULE MCDataSplits ----------------------------
(* Split directories that are absent, empty, hold one image or hold eleven *)
(* (one more than the smallest cap), under zero to two wrapper folders,    *)
(* with caps at the config's lower bound 10 and one above it.              *)
EXTENDS DataSplits

MCFileCounts == {0, 1, 11}
MCMaxTrain == {10}
MCMaxVal == {10, 11}
=============================================================================
