SPECIFICATION Spec
CONSTANTS
  p1 = p1
  p2 = p2
  Peer = {p1, p2}
  Forked = {p2}
  MaxExecutionGap = 1
  PendingBlocksSize = 3
  RequestBlockSize = 2
  Start <- StartAt
  MaxHeight = 4
  MaxOwn = 3
  MaxPeers = 1
  MaxFaults = 1
INVARIANTS
  TypeOK
  HolesCommitted
  DownloadAwaited
PROPERTIES
  CatchUp
CHECK_DEADLOCK FALSE
