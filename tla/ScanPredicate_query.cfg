SPECIFICATION Spec
CONSTANTS
  Columns <- ColumnsWithConstants
  Unknown = Unknown
INVARIANTS
  CodesFit
  MatchesQuery
