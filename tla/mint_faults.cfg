SPECIFICATION Spec
CONSTANTS
  s1 = s1  s2 = s2
  NumSwaps = 1
  Signers = {s1, s2}
  Threshold = 1
  Unreliable = {s2}
  Faults = {"signer", "cli", "database", "dies", "drop", "mintFails", "late", "crash"}
  MaxFaults = 1
  MaxSequence = 2
  MaxNumber = 2
INVARIANTS TypeOK SignedHasQuorum OneSignaturePerSigner
PROPERTIES ConfirmedIsFinal ImplementsTransfer
