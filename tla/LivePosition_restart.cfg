SPECIFICATION Spec
CONSTANTS
  t1 = t1
  t2 = t2
  None = None
  Rows = {t1}
  RideRequests = {}
  CloseRequests = {}
  MaxNet = 1
  MaxResting = 1
  MaxFaults = 2
INVARIANTS
  TargetFlagIsTrue
CHECK_DEADLOCK FALSE
