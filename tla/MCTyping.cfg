SPECIFICATION TypingSpec
CONSTANTS
  Names <- MCNames
  Captured <- MCCaptured
  Declared <- MCDeclared
  Conditions <- MCConditions
  MaxNesting = 2
  MaxIfs = 2
  MaxChanges = 1
  Declarable <- MCDeclarable
  FnForms <- MCFnForms
  PartNames = {"int"}
  MaxDepth = 2
  MaxCreated = 2
  Operands <- MCOperands
  Infix <- MCInfix
  MaxWraps = 3
  Idents <- MCIdents
  Hoists <- MCHoists
  MaxDecls = 3
  MaxBlocks = 4
INVARIANTS
  NarrowingSound
  CastsAgree
  TypesDenote
  ExpressionsPlaced
  ScopesAgree
CHECK_DEADLOCK FALSE
