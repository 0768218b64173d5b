SPECIFICATION Spec
CONSTANTS
  Strings <- MCStrings
  Additions <- MCAdditions
  Needles <- MCNeedles
  Loaded = {0, 3}
  MaxLen = 12
  MaxOom = 1
INVARIANTS
  Consistent
  
  EncapsulateUndone
CHECK_DEADLOCK FALSE
