SPECIFICATION FairSpec
CONSTANTS
  c1 = c1
  c2 = c2
  c3 = c3
  Enable = Enable
  NoCall = NoCall
  Calls = {c1, c2}
  CallerOf <- Callers
  KindOf <- KindsMixed
  Mid = 2
  MaxId = 5
  QueueCap = 1
  StreamCap = 1
  LinkCap = 1
  MaxMsgs = 1
  BadKinds = {}
  MayEnable = 0
  MayPing = {"client"}
  MayClose = {"server"}
  MayDrop = {}
  MayCancel = {c1}
  MayBreak = TRUE
  MaxReconnects = 0
PROPERTIES RequestEnds CloseEnds StreamEnds
CHECK_DEADLOCK FALSE
