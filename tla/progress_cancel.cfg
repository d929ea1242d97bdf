\* Nobody clicks, and no check runs beside the one after an apply.
SPECIFICATION Spec
CHECK_DEADLOCK FALSE
CONSTANTS
  None = None
  ChecksRun = FALSE
  MaxRequests = 2
  MaxCancels = 0
  MaxLog = 2
INVARIANTS
  CancelReachable
