----------------------------- MODULE MCTrainer -----------------------------
(* Model-checking instance of Trainer: five training rows in batches of    *)
(* four (the smallest batch_size the config allows), so the last batch is *)
(* short; three epochs over two loss values and NaN, so ties, strict       *)
(* improvements and NaN epochs all occur.                                  *)
EXTENDS Trainer

MCNTrain == 5
MCBatchSize == 4
MCEpochs == 3
MCLosses == {1, 2}
=============================================================================
