SPECIFICATION FairSpec
CONSTANTS
  client = client
  server = server
  Ends = {client, server}
  Timeouts = {1, 2}
  Initially = {2}
  Sec = 1
  Delay = 0
  Room = 1
  Cap = 2
  MaxChanges = 1
  Mortal = {server}
  Closers = {server}
  Configured = {client}
INVARIANTS TimeoutInv TimeoutOnlyOfTheLate
PROPERTIES LossNoticed
CHECK_DEADLOCK FALSE
