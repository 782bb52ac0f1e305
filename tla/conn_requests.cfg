SPECIFICATION Spec
CONSTANTS
  c1 = c1
  c2 = c2
  c3 = c3
  Enable = Enable
  NoCall = NoCall
  Calls = {c1, c2, c3}
  CallerOf <- Callers
  KindOf <- KindsRequests
  Mid = 2
  MaxId = 5
  QueueCap = 1
  StreamCap = 1
  LinkCap = 1
  MaxMsgs = 1
  BadKinds = {}
  MayEnable = 1
  MayPing = {}
  MayClose = {"client", "server"}
  MayDrop = {}
  MayCancel = {c1}
  MayBreak = FALSE
  MaxReconnects = 0
INVARIANTS NoProtocolError NoOrphan OneToken AnswerNotLost IdUsedOnce NoResponseIsChosen
PROPERTIES ImplementsRpc
CHECK_DEADLOCK FALSE
