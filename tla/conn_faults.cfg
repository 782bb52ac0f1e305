SPECIFICATION Spec
CONSTANTS
  c1 = c1
  c2 = c2
  c3 = c3
  Enable = Enable
  NoCall = NoCall
  Calls = {c1, c2, c3}
  CallerOf <- CallersOfBoth
  KindOf <- KindsIds
  Mid = 1
  MaxId = 2
  QueueCap = 1
  StreamCap = 1
  LinkCap = 1
  MaxMsgs = 1
  BadKinds = {"Request", "RequestReceiver", "RequestSender", "Response", "Stream"}
  MayEnable = 2
  MayPing = {"server"}
  MayClose = {}
  MayDrop = {"client"}
  MayCancel = {}
  MayBreak = TRUE
  MaxReconnects = 0
INVARIANTS TypeOK CorrelationApart StreamAttached CallsInv
PROPERTIES ImplementsRpc
CHECK_DEADLOCK FALSE
