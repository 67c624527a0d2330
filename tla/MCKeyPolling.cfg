CONSTANTS
  Tokens = {k1}
  AttrTypes = {"name", "number"}
  Values = {"mine", "other"}
  NoValue = NoValue
  Wallet <- MCWallet
  MaxTime = 3
  Clients = {c}
  MaxValidity = 2
  DefaultValidity = 1
  NoKey = NoKey
  Cons <- MCCons
  SignIds <- MCSignIds
  MaxPolls = 2
SPECIFICATION FairSpec
INVARIANTS TypeOK OkHasKey TimeoutIsPending FailsForAReason
PROPERTIES WaitReturns DoneIsReturned
CHECK_DEADLOCK FALSE
