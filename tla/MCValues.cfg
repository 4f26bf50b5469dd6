SPECIFICATION MCSpec
CONSTANTS
  Texts <- MCTexts
  Needles <- MCNeedles
  Replacements <- MCReplacements
  Counts <- MCCounts
  Indices <- MCIndices
  Behind <- MCBehind
  Pieces <- MCPieces
  Names <- MCNames
  Paths <- MCPaths
  Numerals <- MCNumerals
  Radixes <- MCRadixes
  Half = 4
  Long = 16
  URLs <- MCUrls
  TypeForms <- MCTypeForms
  Programs <- MCPrograms
  Contents <- MCContents
  MaxAssigned = 2
  MaxBlocks = 8
INVARIANTS
  CallsAgree
  ValuesKept
CHECK_DEADLOCK FALSE
