SPECIFICATION Spec
CONSTANTS
  t1 = t1
  t2 = t2
  None = None
  Rows <- MCRows
  RideRequests = {}
  CloseRequests = {}
  MaxNet = 2
  MaxResting = 2
  MaxFaults = 1
SYMMETRY MCSymmetry
INVARIANTS
  TypeOK
  
  
  
  
PROPERTIES
  ClosedOnce
CHECK_DEADLOCK FALSE
