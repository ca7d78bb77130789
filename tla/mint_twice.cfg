SPECIFICATION Spec
CONSTANTS
  s1 = s1  s2 = s2
  NumSwaps = 2
  Signers = {s1}
  Threshold = 1
  Unreliable = {}
  Faults = {"mintFails"}
  MaxFaults = 1
  MaxSequence = 3
  MaxNumber = 3
INVARIANTS MintedOnce
