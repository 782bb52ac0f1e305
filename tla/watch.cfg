SPECIFICATION FairSpec
CONSTANTS
  s1 = s1
  s2 = s2
  r1 = r1
  r2 = r2
  Senders = {s1, s2}
  Receivers = {r1, r2}
  First = s1
  FirstReceiver = r1
  NoOne = NoOne
  MaxSends = 2
INVARIANTS NeverStale NoLostWakeup NoneIsTheEnd WatchInv
PROPERTIES NewestArrives EndArrives
