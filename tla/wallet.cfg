SPECIFICATION Spec
CONSTANTS
  a1 = a1  a2 = a2  a3 = a3
  t1 = t1  eth = eth  c1 = c1  c2 = c2
  Accounts = {a1, a2, a3}
  Tokens = {t1}
  Native = eth
  Collectors = {c1, c2}
  Amounts = {1}
  Fees = {1}
  Nonces = {0, 1}
  Calls <- SomeCalls
  MAX_OWNER_COUNT = 3
  InitialOwners <- TwoOwners
  InitialRequired = 2
  InitialCollector = c1
  MaxTransactions = 2
  MaxDeposits = 2
  MaxListed = 1
INVARIANTS TypeOK OwnersConsistent RequirementReachable WithdrawnOnce NonceOrder FundsAccounted
PROPERTIES ExecutedByQuorum ExecutedIsSettled
CHECK_DEADLOCK FALSE
