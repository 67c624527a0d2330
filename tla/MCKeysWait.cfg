CONSTANTS
  Tokens = {k1}
  AttrTypes = {"name", "number"}
  Values = {"mine", "other"}
  NoValue = NoValue
  Wallet <- MCWallet
  MaxTime = 1
  Clients = {c, d}
  MaxValidity = 2
  DefaultValidity = 1
  NoKey = NoKey
  Cons <- MCCons
  Validities <- MCValidities
  SignIds <- MCSignIds
  MaxJwts = 1
SPECIFICATION Spec
INVARIANTS KeysWaitForProof
CHECK_DEADLOCK FALSE
