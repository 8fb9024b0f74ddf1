SPECIFICATION FairNodeSpec
CONSTANTS
  t1 = t1
  Txs = {t1}
  Inserters = {i1}
  Removers = {w, s}
  Worker = w
  Syncer = s
  Capacity = 1
  MaxPending = 2
  Until <- MCUntil
  MaxUntilGap = 4
  MaxNumber = 3
  MaxBlockTxs = 1
INVARIANTS NoTxTwice CopiesAreOnChain
PROPERTIES CommittedLeavesQueue InMapIsQueuedOrRemoved
CHECK_DEADLOCK FALSE
