CONSTANTS
  Scope <- MCScope
  Def <- MCDef
  Programs <- MCPrograms
  Texts <- MCTexts
  CStr <- MCCStr
  ToInt <- MCToInt
  Foreign <- MCForeign
  Own <- MCOwn
  MaxMembers = 2
  Depth = 4
  Nesting = 5
SPECIFICATION Spec
CHECK_DEADLOCK FALSE
INVARIANT NotExecutedIsError
