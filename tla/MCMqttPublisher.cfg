SPECIFICATION FairSpec
CONSTANTS
  t1 = t1
  t2 = t2
  Topics <- MCTopics
  Capacity = 2
  MaxEvents = 5
INVARIANTS
  TypeOK
  StaleOnlyIfMissed
PROPERTIES
  NeverGoesBack
  AcceptedIsHandedOn
CHECK_DEADLOCK FALSE
