SPECIFICATION Spec
CONSTANTS
  Rooms <- MCRooms
  Months <- MCMonths
  Factory <- MCFactory
  Minutes <- MCMinutes
  Block = 7
  MaxStarts = 3
INVARIANTS
  TypeOK
  HeatsAsWanted
  MixHeatsAsEither
  RestartWritesNothing
CHECK_DEADLOCK FALSE
