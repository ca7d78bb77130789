SPECIFICATION FairSpec
CONSTANTS
  Confirmations = 1
  StartBlock = 1
  Logs <- SomeLogs
  MaxHeight = 4
  MaxDeposits = 2
  MaxRestarts = 2
  MaxFailures = 1
INVARIANTS TypeOK NothingSkipped NothingForgotten
PROPERTIES RecordedIsConfirmed EventuallySettled
CHECK_DEADLOCK FALSE
