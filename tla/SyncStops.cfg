SPECIFICATION Spec
CONSTANTS
  p1 = p1
  p2 = p2
  Peer = {p1}
  Forked = {}
  MaxExecutionGap = 1
  PendingBlocksSize = 2
  RequestBlockSize = 2
  Start <- StartAlone
  MaxHeight = 3
  MaxOwn = 3
  MaxPeers = 1
  MaxFaults = 1
PROPERTIES
  CatchUpAlways
CHECK_DEADLOCK FALSE
