CONSTANTS
  Scope <- MCScope
  Def <- MCDef
  Programs <- MCPrograms
  Texts <- MCTexts
  CStr <- MCCStr
  ToInt <- MCToInt
  Foreign <- MCForeign
  Own <- MCOwn
  MaxMembers = 2
  Depth = 4
  Nesting = 5
SPECIFICATION Spec
INVARIANTS ArgumentsArrive ArgumentsConform SuccessMeansExecuted ResultComesBack
CHECK_DEADLOCK FALSE
