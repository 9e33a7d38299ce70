SPECIFICATION Spec
CONSTANTS
  Matches <- MCMatches
  Policies <- MCPolicies
  HighRiskPaths <- MCHighRisk
  GoodPaths <- MCGoodPaths
  BadPaths <- MCBadPaths
  MaxWorse = 5
  MaxPerSeverity = 2
INVARIANTS
  RecommendedIsEarned
  LowRiskIsQuiet
PROPERTIES
  WorseningNeverHelps
CHECK_DEADLOCK FALSE
