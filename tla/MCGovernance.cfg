SPECIFICATION Spec
CONSTANTS
  ann = ann  ben = ben  cat = cat
  Member = {ann, ben, cat}
  Poa = poa  Raft = raft  HotStuff = hotstuff
  Contract = {shop}
  AdminParams <- Pairs
  Item = {i1, i2}
  Word = 4
  MaxProposals = 3
  NoProposal = NoProposal
  NoAdmin = NoAdmin
SYMMETRY Items
INVARIANTS IdsNameOne PassedOnce
PROPERTIES ChangedBySupport
CHECK_DEADLOCK FALSE
