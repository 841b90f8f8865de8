SPECIFICATION FairSpec
CONSTANTS
  Size = 1
  Values <- MCValues
  Program <- NoProgram
  Block = 1
  Devices = {old, wanted}
  Wanted = wanted
  MaxLeft = 2
  MaxTrouble = 2
INVARIANTS
  PeeredExactly
PROPERTIES
  NeverTwoPeers
  Converges
CHECK_DEADLOCK FALSE
