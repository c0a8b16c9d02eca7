CONSTANTS
  NTrain <- MCNTrain
  BatchSize <- MCBatchSize
  Epochs <- MCEpochs
  Losses <- MCLosses
  NaN = NaN
  Inf = Inf
  NoSnapshot = NoSnapshot
SPECIFICATION Spec
\* the training loop returns after the last epoch
CHECK_DEADLOCK FALSE
INVARIANTS
  TypeOK
  EachRowOncePerEpoch
PROPERTY
  ImplementsCheckpointSelection
