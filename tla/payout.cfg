SPECIFICATION PayoutSpec
CONSTANTS
  a1 = a1  a2 = a2  t1 = t1  eth = eth  c1 = c1
  Accounts = {a1, a2}
  Tokens = {t1}
  Native = eth
  Collectors = {c1}
  Amounts = {4}
  Fees = {0, 1}
  Nonces = {0, 1, 2}
  Calls <- PayoutCalls
  MAX_OWNER_COUNT = 2
  InitialOwners <- TwoOwners
  InitialRequired = 2
  InitialCollector = c1
  MaxTransactions = 2
  MaxDeposits = 4
  MaxListed = 0
  Leader = a1
  SwapAmount <- LowSwap
  LeaderFees = {1}
  TokenMap = {eth}
  Proposals <- SomeProposals
  MaxManual = 1
  MaxSent = 2
  Faults = {"crash", "node"}
  MaxFaults = 1
INVARIANTS PayoutTypeOK PaidOnce PaidAsBurned TrackedIsRecorded
PROPERTIES ResultIsFinal ImplementsTransfer
CHECK_DEADLOCK FALSE
