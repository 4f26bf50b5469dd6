SPECIFICATION Spec
CONSTANTS
  Kinds = {"fn", "noValue", "nested", "main", "quiet", "quietNested", "heapLoop", "quietHeapLoop"}
  ProgramsOf <- ProgramsOfKind
  Errors = {"A", "B"}
  MaxChoices = 4
INVARIANTS
  HeapExact
  OnlyCleanUpWhilePending
  AgreesWithMeaning
PROPERTIES
  Terminates
CHECK_DEADLOCK FALSE
