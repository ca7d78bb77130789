SPECIFICATION FairSpec
CONSTANTS
  Confirmations = 1
  StartBlock = 0
  Logs <- EtherOnly
  MaxHeight = 4
  MaxDeposits = 2
  MaxRestarts = 1
  MaxFailures = 0
PROPERTIES EveryDepositRecorded
CHECK_DEADLOCK FALSE
