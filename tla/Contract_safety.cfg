CONSTANTS
  APIs <- MCAPIs
  PathOrder <- MCPathOrder
  PathTexts <- MCPathTexts
  PathEscape <- MCPathEscape
  WildcardEscape <- MCWildcardEscape
  Problem <- MCProblem
  Camel <- MCCamel
  Words <- MCWords
  Alphabet <- MCAlphabet
  ReservedNames <- MCReservedNames
SPECIFICATION Spec
CHECK_DEADLOCK FALSE
INVARIANTS
  TypeOK
  NamesDistinct
  CallArrives
  ResultTruthful
