SPECIFICATION Spec
CONSTANTS
  root = root
  a = a
  R = R
  T = T
  NoObject = NoObject
  Root = root
  Object <- MCObject
  Instance = {}
  Type <- MCType
  TypeOf <- MCTypeOf
  Shapes <- MCShapes
  Signals <- MCSignals
  Methods <- MCMethods
  Results <- MCResults
  Properties = 2
  Grace = 2
  CollectEvery = 2
  KeepsChildren = FALSE
  Prompt = FALSE
  MaxRequests = 2
  MaxUpdates = 1
INVARIANTS
  TypeOK
  RefCountExact
  HeldIsRegistered
  NoLeakedReference
  OmittedIsCached
CHECK_DEADLOCK FALSE
