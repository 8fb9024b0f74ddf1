SPECIFICATION Spec
CONSTANTS
  alice = alice  bob = bob  bank = bank  shop = shop
  User = {alice, bob}
  Contract = {bank, shop}
  Deployed = {bank}
  Endow <- Endowment
  MaxBalance = 3
  MaxNestDepth = 3
  Amount = {1}
  MaxTxs = 2
  MaxCalls = 4
INVARIANTS TypeOK AccountedUnnested RolledBack
PROPERTIES OwnFunds
CHECK_DEADLOCK FALSE
