SPECIFICATION PropagationSpec
CONSTANTS
  Txs = {t1, t2, t3}
  Coordinator = c
  Inserters = {c, i}
  Removers = {r}
  Peer = {p}
  Capacity = 1
  MaxPending = 2
  MaxMessages = 1
SYMMETRY Symmetry
INVARIANTS NoOrphanInMap CapacityOvershoot EveryTxAnnounced QueuedIsPropagated
CHECK_DEADLOCK FALSE
