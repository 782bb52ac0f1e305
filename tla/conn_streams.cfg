SPECIFICATION Spec
CONSTANTS
  c1 = c1
  c2 = c2
  c3 = c3
  Enable = Enable
  NoCall = NoCall
  Calls = {c1, c2}
  CallerOf <- Callers
  KindOf <- KindsStreams
  Mid = 2
  MaxId = 5
  QueueCap = 1
  StreamCap = 1
  LinkCap = 1
  MaxMsgs = 2
  BadKinds = {}
  MayEnable = 0
  MayPing = {}
  MayClose = {"server"}
  MayDrop = {}
  MayCancel = {c1, c2}
  MayBreak = FALSE
  MaxReconnects = 0
INVARIANTS StreamConserved StreamInv
CHECK_DEADLOCK FALSE
