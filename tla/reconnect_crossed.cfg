SPECIFICATION Spec
CONSTANTS
  c1 = c1
  c2 = c2
  c3 = c3
  Enable = Enable
  NoCall = NoCall
  Calls = {c1, c2}
  CallerOf <- ServerCalls
  KindOf <- KindsRequests
  Mid = 2
  MaxId = 5
  QueueCap = 1
  StreamCap = 1
  LinkCap = 1
  MaxMsgs = 1
  BadKinds = {}
  MayEnable = 1
  MayPing = {}
  MayClose = {}
  MayDrop = {}
  MayCancel = {}
  MayBreak = TRUE
  MaxReconnects = 1
INVARIANTS Correlation
CHECK_DEADLOCK FALSE
