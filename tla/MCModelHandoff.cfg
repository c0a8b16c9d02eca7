CONSTANTS
  LabelSet <- MCLabelSet
  MaxSamples <- MCMaxSamples
  Pad = Pad
  Widths = {16, 32}
  Heights = {12, 24}
  StdMicros = {0, 1, 250000}
  MeanMicros = {0, 400000}
  Garbled = Garbled
  None = None
SPECIFICATION Spec
\* training, the artifact and one evaluation: the handoff ends
CHECK_DEADLOCK FALSE
INVARIANTS
  TypeOK
  PredictsTrainedLabels
