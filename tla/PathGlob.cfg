SPECIFICATION Spec
CONSTANTS
  Chars <- MCChars
  Utf8 <- MCUtf8
  Names <- MCNames
  MaxPattern = 6
INVARIANTS
  MatchesSegments
  MoreStarsMatchMore
CHECK_DEADLOCK FALSE
