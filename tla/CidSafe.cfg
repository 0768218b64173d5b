SPECIFICATION Spec
CONSTANTS
  Cids <- MCCids
  MaxSet = 4
  MaxFail = 2
  MaxText = 11
INVARIANTS
  SetExact
  UndefinedOnlySpoilt
  CodecExact
  TextReadBack
CHECK_DEADLOCK FALSE
