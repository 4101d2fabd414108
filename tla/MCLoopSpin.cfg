SPECIFICATION FairSpec
CONSTANTS
  p = p
  q = q
  Messages = 1
  Rejected = {}
  QueueCap = 2
  SignalCap = 2
  Locker = {}
  Polls = FALSE
  HangsUp = TRUE
PROPERTY ReturnsWhenClosed
CHECK_DEADLOCK FALSE
