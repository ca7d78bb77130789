SPECIFICATION ProcessFairSpec
CONSTANTS
  Senders <- TheSenders
  ChainId = 3
  Order = 7
  GasPrices = {1, 2}
  MaxNonce = 2
  Environments <- SomeEnvironments
  ConfigFile <- TheFile
  Tokens = {"hsm"}
  Cosigners <- TwoCosigners
  MaxFailures = 1
INVARIANTS ProcessTypeOK OnlyContendersClash ConfiguredUnlessCutShort
PROPERTIES SignerStopsWithListener InterruptEndsProcess
CHECK_DEADLOCK FALSE
