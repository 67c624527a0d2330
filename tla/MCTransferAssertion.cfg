CONSTANTS
  SegmentSize = 3
  PolSizeSize = 1
  SigBytes = 1
  TagSize = 1
  CounterMax = 2
  A = A
  B = B
  C = C
  Policies = {A, C}
  PolLen <- MCPolLen
  NoPolicy = NoPolicy
  Lens <- MCLens
  Idents = {"me"}
  Recipients = {"me"}
  IOErrors = {}
  UnsealIOErrors = {}
  MaxFaults = 0
  FaultKinds = {}
SPECIFICATION Spec
PROPERTY SegmentAssertion
