SPECIFICATION FairSpec
CONSTANTS
  t1 = t1
  t2 = t2
  None = None
  Rows = {t1}
  RideRequests = {q1}
  CloseRequests = {q2}
  MaxNet = 1
  MaxResting = 1
  MaxFaults = 1
PROPERTIES
  PhantomCleared
CHECK_DEADLOCK FALSE
