SPECIFICATION ContractsSpec
CONSTANTS
  alice = alice  bob = bob
  Users = {alice, bob}
  Contracts = {swap}
  SwapContract = swap
  Token = seth
  Tokens = {seth, susdt}
  MintFields = {"amount", "address"}
  Amounts = {1, 2}
  MaxUint = 3
  InitialBalances <- ListedTwice
  InitialAdmin = alice
  InitialOwner = alice
  Pairs <- AliceToBob
  MaxTime = 1
  Expirations = {0, 1}
  MaxChanges = 2
  MaxSwaps = 2
INVARIANTS ContractsTypeOK SupplyIsBalances SpentWithinGrants NonceIsPosition
PROPERTIES SwapsAreFinal SwapBurnsItsAmount StoppedIsFrozen
CHECK_DEADLOCK FALSE
