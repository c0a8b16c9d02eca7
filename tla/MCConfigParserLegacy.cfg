CONSTANTS
  Keys <- MCKeys
  Values <- MCValues
  NaN = NaN
  PosInf = PosInf
  NegInf = NegInf
  Fail = Fail
  HugeInt = HugeInt
  Pending = Pending
  ValueError = ValueError
  OverflowError = OverflowError
SPECIFICATION Spec
\* _parse_train_config returns or raises once
CHECK_DEADLOCK FALSE
INVARIANTS
  LegacyPacingReplacesInvalid
