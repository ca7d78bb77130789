SPECIFICATION FairSpec
CONSTANTS
  s1 = s1  s2 = s2
  NumSwaps = 2
  Signers = {s1}
  Threshold = 1
  Unreliable = {}
  Faults = {"mintFails", "dies", "cli"}
  MaxFaults = 1
  MaxSequence = 3
  MaxNumber = 3
PROPERTIES NoneStuck
