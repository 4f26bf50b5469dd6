CONSTANTS
  Keys = {1, 2, 3}
  Lists <- MCLists
  Indexes <- MCIndexes
  Comparators <- MCComparators
  Predicates = {{1, 3}}
  MaxLen = 3
  MaxMeddles = 1
  Memory = {1, 2, 3, 4, 5, 6, 7, 8, 9, 10, 11, 12, 13, 14, 15}
SPECIFICATION Spec
INVARIANTS
  OwnedOnce
  AnswersAgree
PROPERTIES
  SortSorts
  CallsEnd
  ImplementsArrayList
CHECK_DEADLOCK FALSE
