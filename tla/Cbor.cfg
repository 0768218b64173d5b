CONSTANTS
  UINT32_MAX = 6
  MaxRecursions = 3
  SIZE_MAX = 9
  Buffers <- MCBuffers
  Sizes <- MCSizes
  Lengths <- MCLengths
  MaxBytes = 4
  MaxDepth = 2
SPECIFICATION Spec
INVARIANTS ParserExact  
PROPERTY EncoderExact
CHECK_DEADLOCK FALSE
