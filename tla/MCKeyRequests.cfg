CONSTANTS
  Tokens = {k1}
  AttrTypes = {"name", "number"}
  Values = {"mine", "other"}
  NoValue = NoValue
  Wallet <- MCWallet
  MaxTime = 3
  Clients = {c}
  MaxValidity = 2
  DefaultValidity = 1
  NoKey = NoKey
  Cons <- MCCons
  Validities <- MCValidities
  SignIds <- MCSignIds
  MaxJwts = 2
SPECIFICATION Spec
INVARIANTS TypeOK KeysAreProven KeysAreTimely KeysAreComplete
CHECK_DEADLOCK FALSE
