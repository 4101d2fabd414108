SPECIFICATION Spec
CONSTANTS
  Val <- MCSortVal
  Rows0 <- MCRows
  BatchSize = 2
  CacheSize = 3
  MaxRows = 4
  MaxChanges = 1
  InOrder = FALSE
INVARIANT RowsAgreeUnlessOvertaken
CHECK_DEADLOCK FALSE
