SPECIFICATION Spec
CONSTANTS
  c1 = c1
  c2 = c2
  c3 = c3
  Enable = Enable
  NoCall = NoCall
  Calls = {c1, c2, c3}
  CallerOf <- ClientCalls
  KindOf <- KindsBothWays
  Mid = 2
  MaxId = 5
  QueueCap = 1
  StreamCap = 1
  LinkCap = 1
  MaxMsgs = 1
  BadKinds = {}
  MayEnable = 0
  MayPing = {}
  MayClose = {}
  MayDrop = {}
  MayCancel = {}
  MayBreak = TRUE
  MaxReconnects = 1
INVARIANTS OrphanInv
PROPERTIES ImplementsRpc
SYMMETRY StreamSymmetry
CHECK_DEADLOCK FALSE
