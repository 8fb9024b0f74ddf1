SPECIFICATION Spec
CONSTANTS
  Txs = {t1, t2}
  Inserters = {i1, i2}
  Removers = {r1}
  Capacity = 1
  MaxPending = 3
INVARIANT PoolWithinCapacity
CHECK_DEADLOCK FALSE
