SPECIFICATION Spec
CONSTANTS
  p = p
  q = q
  Messages = 1
  Rejected = {}
  QueueCap = 2
  SignalCap = 2
  Locker <- MCLockers
  Polls = FALSE
  HangsUp = FALSE
INVARIANT LockProtectsData
