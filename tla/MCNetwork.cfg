SPECIFICATION Spec
CONSTANTS
  p1 = p1
  p2 = p2
  Peer = {p1, p2}
  Bootnodes <- Known
  MaxInPeers = 1
  MaxOutPeers = 1
  MinScore <- Limit
  ScoreFloor <- Floor
  ReportDiff <- Limit
  MaxConns = 2
  MaxFaults = 2
  MaxQueued = 1
INVARIANTS TypeOK SlotsCounted ReservedOnlyKept OpenedAlive HandlerSupervised
CHECK_DEADLOCK FALSE
