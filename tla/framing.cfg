SPECIFICATION FairSpec
CONSTANTS
  HeaderLen = 2
  Headers <- MCHeaders
  NoMax = NoMax
  Limits = {0, 1}
  MacLens = {0, 1}
  WireCap = 3
  MaxFrames = 3
INVARIANTS HardIsOverLimit NonceInSync CutAtTheEnd FramingInv
PROPERTIES ImplementsPackets AllArrive
CHECK_DEADLOCK FALSE
