SPECIFICATION Spec
CONSTANTS
  t1 = t1
  t2 = t2
  None = None
  Rows = {t1}
  RideRequests = {q1}
  CloseRequests = {}
  MaxNet = 1
  MaxResting = 1
  MaxFaults = 0
INVARIANTS
  LetItRideKeepsTheStop
CHECK_DEADLOCK FALSE
