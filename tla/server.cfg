SPECIFICATION Spec
CONSTANTS
  t1 = t1
  t2 = t2
  c1 = c1
  c2 = c2
  Nobody = Nobody
  Pool <- TwoThreads
  Clients <- TwoClients
  MaxRequests = 1
  CloseWakesAccept = TRUE
INVARIANTS
  ActiveIsOwned
  StoppedIsQuiet
PROPERTIES
  StopEnds
  HeadIsTaken
CHECK_DEADLOCK FALSE
