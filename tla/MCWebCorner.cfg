CONSTANTS
  SegmentSize = 3
  PolSizeSize = 1
  SigBytes = 1
  TagSize = 1
  CounterMax = 1
  A = A
  B = B
  Policies = {A, B}
  PolLen <- MCPolLen
  NoPolicy = NoPolicy
  Lens <- MCShortLens
  Idents = {"me", "you"}
  Recipients = {"me"}
  IOErrors = {}
  UnsealIOErrors = {}
  MaxFaults = 0
  FaultKinds = {"lose", "corrupt", "segment"}
  MaxCalls = 1
  Ends <- MCEnds
SPECIFICATION WebFairSpec
PROPERTY RoundTrip
