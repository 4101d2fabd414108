SPECIFICATION FairSpec
CONSTANTS
  o = o
  inst = inst
  c = c
  Nothing = Nothing
  Obj <- MCObj
  Instances <- MCInstances
  Calls <- MCCalls
  MaxSent = 3
  Pieces = 2
  Singleton = FALSE
PROPERTY RootAvailable
CHECK_DEADLOCK FALSE
