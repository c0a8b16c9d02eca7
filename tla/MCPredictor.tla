---------------------------- MODULE MCPredictor ----------------------------
(* Three heads over vocabularies of two or three outputs.  The config      *)
(* vocabularies are the two shapes _train_mlp writes (sorted characters,   *)
(* then the pad token) and one from an artifact it did not write, shorter  *)
(* than the heads' output dimension.                                       *)
EXTENDS Predictor

MCVocabs == {<<1, Pad>>, <<1, 2, Pad>>, <<1>>}

(* The vocabularies _train_mlp writes. *)
MCVocabsTrained == {<<1, Pad>>, <<1, 2, Pad>>}
MCVocabSizes == {2, 3}
MCSeqLen == 3
MCProbs == {1, 2}

(* A head that overflowed, next to a finite level. *)
MCProbsNaN == {1, NaN}
=============================================================================
