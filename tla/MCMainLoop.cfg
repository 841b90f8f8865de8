SPECIFICATION FairSpec
CONSTANTS
  h1 = h1
  h2 = h2
  Main = Main
  NoOne = NoOne
  NoLevel = NoLevel
  Handlers <- MCHandlers
  Levels <- MCLevels
  MaxQueue = 1
INVARIANTS
  TypeOK
  DiesOnlyOfEvents
  QuietWhenFree
PROPERTIES
  KeepsPromise
  EveryRequestAnswered
CHECK_DEADLOCK FALSE
