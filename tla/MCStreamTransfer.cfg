CONSTANTS
  SegmentSize = 3
  PolSizeSize = 1
  SigBytes = 1
  TagSize = 1
  CounterMax = 2
  A = A
  B = B
  C = C
  Policies = {A, B, C}
  PolLen <- MCPolLen
  NoPolicy = NoPolicy
  Lens <- MCLens
  Idents = {"me", "you"}
  Recipients = {"me"}
  IOErrors = {"read", "write"}
  UnsealIOErrors = {"read", "write"}
  MaxFaults = 1
  FaultKinds = {"lose", "corrupt", "segment"}
SPECIFICATION FairSpec
INVARIANTS TypeOK OutputIsPrefix OkIsComplete OkNamesSigner DamageIsNoticed CountersAgree CanonicalCut CounterLimit
PROPERTIES Implements UnsealReturns
