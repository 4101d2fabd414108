SPECIFICATION Spec
CONSTANTS
  Val <- MCVal
  Rows0 <- MCRows
  BatchSize = 2
  CacheSize = 3
  MaxRows = 5
  MaxChanges = 2
  InOrder = TRUE
INVARIANT RowsAgree
CHECK_DEADLOCK FALSE
