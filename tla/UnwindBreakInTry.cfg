SPECIFICATION Spec
CONSTANTS
  Kinds = {"fixed"}
  ProgramsOf <- BreakInTry
  Errors = {"A", "B"}
  MaxChoices = 4
INVARIANT AgreesWithMeaning
CHECK_DEADLOCK FALSE
