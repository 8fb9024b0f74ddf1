SPECIFICATION NodeSpec
CONSTANTS
  t1 = t1
  Txs = {t1, t2}
  Inserters = {i1}
  Removers = {w, s}
  Worker = w
  Syncer = s
  Capacity = 1
  MaxPending = 2
  Until <- MCUntil
  MaxUntilGap = 4
  MaxNumber = 3
  MaxBlockTxs = 0
INVARIANT ExpiredNotPacked
CHECK_DEADLOCK FALSE
