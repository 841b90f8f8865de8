SPECIFICATION Spec
CONSTANTS
  h1 = h1
  h2 = h2
  Main = Main
  NoOne = NoOne
  NoLevel = NoLevel
  Handlers <- MCHandlers
  Levels <- MCLevels
  MaxQueue = 2
INVARIANTS
  OkMeansReceived
CHECK_DEADLOCK FALSE
