SPECIFICATION FairSpec
CONSTANTS
  Val <- MCVal
  Rows0 <- MCRows
  BatchSize = 2
  CacheSize = 3
  MaxRows = 5
  MaxChanges = 2
  InOrder = TRUE
INVARIANTS
  TypeOK
  RowsAgreeUnlessOvertaken
  RowCountAgrees
  CacheInBounds
  SignalsInRange
PROPERTIES
  FetchFindsRow
  FetchEnds
CHECK_DEADLOCK FALSE
