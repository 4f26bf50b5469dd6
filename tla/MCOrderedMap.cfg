SPECIFICATION Spec
CONSTANTS
  Vars = {x, y}
  NoVar = NoVar
  Keys = {k, q, r}
  Values = {v, u}
  MaxLen = 3
  SizeMod = 64
  DuplicateLiterals = FALSE
SYMMETRY Symmetry
INVARIANTS
  KeysDistinct
  CapacitySafe
  BlocksOwned
  EqObservational
PROPERTIES
  ImplementsKeyedMap
  OperationsAgree
CHECK_DEADLOCK FALSE
