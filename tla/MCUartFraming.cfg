SPECIFICATION FairSpec
CONSTANTS
  Checksum <- Crc16
  Dst = 1
  Commands = {2, 99}
  Known = {0, 2, 4, 5}
  Payloads <- MCPayloads
  FirstCount = 252
  MaxFrames = 2
  MaxFaults = 1
  Noise <- MCNoise
INVARIANTS
  TypeOK
  NothingForged
PROPERTIES
  StaysInStep
  KeepsChannel
  EveryPacketRead
CHECK_DEADLOCK FALSE
