SPECIFICATION Spec
CONSTANTS
  root = root
  a = a
  R = R
  T = T
  NoObject = NoObject
  Root = root
  Object <- MCObject
  Instance = {}
  Type <- MCType
  TypeOf <- MCTypeOf
  Shapes <- MCShapes
  Signals <- MCSignals
  Methods <- MCMethods
  Results <- MCResults
  Properties = 2
  Grace = 1
  CollectEvery = 1
  KeepsChildren = FALSE
  Prompt = TRUE
  MaxRequests = 1
  MaxUpdates = 1
INVARIANT NeverDisappears
