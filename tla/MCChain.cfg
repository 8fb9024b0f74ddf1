SPECIFICATION Spec
CONSTANTS
  Proposers = {p}
  Syncers = {s}
  Executor = x
  Contents = {a}
  GenesisContent = a
  ZeroHash = zero
  MaxExecutionGap = 2
  GapModulus = 256
  MaxNumber = 3
  MaxCrashes = 1
  Failing = {s, x}
  MaxFailures = 1
INVARIANTS TypeOK ChainLinked SnapshotOrdered HeaderGapValid
  ExecutionIsChainPrefix ExecutedContiguous QuiescentFresh MessagesOrdered
PROPERTY ImplementsLedger
CHECK_DEADLOCK FALSE
