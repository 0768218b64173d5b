SPECIFICATION Spec
CONSTANTS
  k1 = k1
  k2 = k2
  k3 = k3
  Callers = {c1, c2}
  Keys = {k1, k2, k3}
  PeerId <- MCPeerId
  KeyLen <- MCKeyLen
  Claims <- CutIds
  OutLens = {1, 2}
  MaxPeers = 3
  Serial = TRUE
  MaxAllocFail = 1
  MaxCalls = 4
SYMMETRY Symmetry
INVARIANTS
  StoredOnce
  NeverUndefined
PROPERTIES
  KeepsBook
