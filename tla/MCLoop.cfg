SPECIFICATION FairSpec
CONSTANTS
  p = p
  q = q
  Messages = 4
  Rejected = {3}
  QueueCap = 2
  SignalCap = 2
  Locker <- MCLockers
  Polls = TRUE
  HangsUp = TRUE
INVARIANTS
  TypeOK
  LockExcludes
  NoLostWakeup
  ErrorOnReturn
  AllHandledOnReturn
PROPERTIES
  InOrder
  MessagesHandled
  LockGranted
CHECK_DEADLOCK FALSE
