\* Files, directories and responses of up to two pieces: none, the last one,
\* one with another behind it.  A function ends, and the state with it.
CONSTANT MaxInput = 2
SPECIFICATION Spec
INVARIANTS
  OwnedRightly
  FailuresSurface
PROPERTIES
  Ends
CHECK_DEADLOCK FALSE
