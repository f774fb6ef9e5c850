SPECIFICATION RowsSpec
CONSTANTS
  Names = {n1, n2}
  Calls = {c1, c2, c3}
  MaxId = 3
  NoName = NoName
INVARIANTS
  UniqueNames
  ReferencesHold
PROPERTIES
  TakesEffectAtOnce
CHECK_DEADLOCK FALSE
