CONSTANTS
  NoValue = NoValue
  HintTypes <- MCHintTypes
  AmountToHide = 1
  Ascii = 5
  MaxHeader = 5
  Policies <- MCPolicies
  Lens <- MCLens
  Signers <- MCSigners
  NoSigner = NoSigner
  MaxSize = 8
  SigLen = 2
  CtLen = 2
  Idents = {"me", "you", "other"}
  KeyPolicies <- MCKeyPolicies
  MaxFaults = 1
  Values <- MCValues
SPECIFICATION Spec
INVARIANTS TypeOK OkNeedsPolicy RightKeyOpens HintsHideValue PanicsForAReason DamageIsNoticed
PROPERTY Implements
