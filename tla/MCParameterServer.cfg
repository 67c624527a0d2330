CONSTANTS
  MaxGens = 2
  MaxRemovals = 1
  MaxTime = 2
  NoFile = NoFile
  NoKey = NoKey
SPECIFICATION Spec
INVARIANTS TypeOK PairsMatch ParametersFitKeys
