CONSTANTS
  Vocabs <- MCVocabs
  VocabSizes <- MCVocabSizes
  SeqLen <- MCSeqLen
  Probs <- MCProbs
  Pad = Pad
  Missing = Missing
  NaN = NaN
SPECIFICATION Spec
\* one call of _predict_text, which returns or raises
CHECK_DEADLOCK FALSE
INVARIANTS
  TypeOK
  ConfidenceOfKeptPositions
