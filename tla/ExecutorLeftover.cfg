SPECIFICATION Spec
CONSTANTS
  alice = alice  bob = bob  bank = bank  shop = shop
  User = {alice, bob}
  Contract = {bank, shop}
  Deployed = {bank}
  Endow <- Endowment
  MaxBalance = 3
  MaxNestDepth = 3
  Amount = {1}
  MaxTxs = 1
  MaxCalls = 6
INVARIANTS RolledBackFully
CHECK_DEADLOCK FALSE
