SPECIFICATION FairSpec
CONSTANTS
  Size = 3
  Values <- MCValues
  Program <- MCProgram
  Block = 1
  Devices = {wanted}
  Wanted = wanted
  MaxLeft = 2
  MaxTrouble = 1
INVARIANTS
  TypeOK
  Configured
  WritesOnlyDifferences
PROPERTIES
  OnlyProgramChanges
  Converges
CHECK_DEADLOCK FALSE
