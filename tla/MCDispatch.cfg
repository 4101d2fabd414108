SPECIFICATION FairSpec
CONSTANTS
  o = o
  inst = inst
  c = c
  Nothing = Nothing
  Obj <- MCObj
  Instances <- MCInstances
  Calls <- MCCalls
  MaxSent = 5
  Pieces = 2
  Singleton = TRUE
INVARIANTS
  TypeOK
  LosesNothing
  SetupInOrder
  FreshWhenQuiet
PROPERTIES
  DeliversInTurn
  WaitsEnd
  MessagesHandled
  CallsSettle
