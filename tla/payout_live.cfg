SPECIFICATION PayoutFairSpec
CONSTANTS
  a1 = a1  a2 = a2  t1 = t1  eth = eth  c1 = c1
  Accounts = {a1, a2}
  Tokens = {t1}
  Native = eth
  Collectors = {c1}
  Amounts = {5}
  Fees = {0, 1}
  Nonces = {0, 1, 2}
  Calls <- PayoutCalls
  MAX_OWNER_COUNT = 2
  InitialOwners <- TwoOwners
  InitialRequired = 2
  InitialCollector = c1
  MaxTransactions = 2
  MaxDeposits = 5
  MaxListed = 0
  Leader = a1
  SwapAmount <- LowSwap
  LeaderFees = {1}
  TokenMap = {eth}
  Proposals = {}
  MaxManual = 0
  MaxSent = 9
  Faults = {"crash", "cli"}
  MaxFaults = 2
PROPERTIES EventuallySigned EventuallyExecuted
CHECK_DEADLOCK FALSE
