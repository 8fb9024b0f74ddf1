SPECIFICATION Spec
CONSTANTS
  Txs = {t1, t2, t3}
  Inserters = {i1, i2}
  Removers = {r1, r2}
  Capacity = 1
  MaxPending = 2
SYMMETRY Symmetry
INVARIANTS NoOrphanInMap CapacityOvershoot EveryTxAnnounced
CHECK_DEADLOCK FALSE
