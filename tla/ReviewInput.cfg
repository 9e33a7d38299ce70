SPECIFICATION Spec
CONSTANTS
  Lines <- MCLines
  MaxLines = 5
  DefaultRisky <- MCDefaultRisky
  DefaultTests <- MCDefaultTests
  Paths <- MCPaths
  Limits = {0, 4}
  DefaultLimit = 6
  Changes <- MCChanges
  Matches <- MCMatches
INVARIANTS
  TypeOK
  ScalarsAsWritten
  ShortListsAsWritten
  HiddenAsWritten
  WithinBudget
  CutIsTold
  CutsOnlyWhenFull
  NothingLost
CHECK_DEADLOCK FALSE
