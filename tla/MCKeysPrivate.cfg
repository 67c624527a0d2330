CONSTANTS
  Tokens = {k1}
  AttrTypes = {"name", "number"}
  Values = {"mine", "other"}
  NoValue = NoValue
  Wallet <- MCWallet
  MaxTime = 3
  Clients = {c}
  MaxValidity = 2
  DefaultValidity = 1
  NoKey = NoKey
  Cons <- MCCons
  Validities <- MCValidities
  SignIds <- MCSignIds
  MaxJwts = 1
SPECIFICATION Spec
INVARIANTS PrivateIdentityIsSigned
CHECK_DEADLOCK FALSE
