SPECIFICATION Spec
CONSTANTS
  p1 = p1
  p2 = p2
  Peer = {p1, p2}
  Forked = {p2}
  MaxExecutionGap = 1
  PendingBlocksSize = 3
  RequestBlockSize = 2
  Start <- StartLow
  MaxHeight = 3
  MaxOwn = 2
  MaxPeers = 2
  MaxFaults = 1
INVARIANTS
  TypeOK
  HolesCommitted
  DownloadAwaited
PROPERTIES
  CatchUp
CHECK_DEADLOCK FALSE
