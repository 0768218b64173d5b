SPECIFICATION Spec
CONSTANTS
  k1 = k1
  k2 = k2
  k3 = k3
  Callers = {c1, c2}
  Keys = {k1, k2, k3}
  PeerId <- MCPeerId
  KeyLen <- MCKeyLen
  Claims <- WholeIds
  OutLens = {1, 2}
  MaxPeers = 3
  Serial = FALSE
  MaxAllocFail = 1
  MaxCalls = 5
SYMMETRY Symmetry
INVARIANTS
  Verified
  ArrayFits
  
