CONSTANTS
  SegmentSize = 3
  PolSizeSize = 1
  SigBytes = 1
  TagSize = 1
  CounterMax = 2
  A = A
  B = B
  Policies = {A, B}
  PolLen <- MCPolLen
  NoPolicy = NoPolicy
  Lens <- MCLens
  Idents = {"me", "you"}
  Recipients = {"me"}
  IOErrors = {"write", "cast"}
  UnsealIOErrors = {"read", "write", "cast"}
  MaxFaults = 0
  FaultKinds = {"lose", "corrupt", "segment"}
  MaxCalls = 1
  Ends <- MCEnds
SPECIFICATION WebSpec
INVARIANTS WebTypeOK SameCut
PROPERTY Implements
