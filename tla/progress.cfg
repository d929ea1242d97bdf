\* Nobody need ask for anything, and without a window nothing polls.
SPECIFICATION FairSpec
CHECK_DEADLOCK FALSE
CONSTANTS
  None = None
  ChecksRun = TRUE
  MaxRequests = 2
  MaxCancels = 2
  MaxLog = 2
INVARIANTS
  TypeOK
  NoStaleCancel
  NothingSkipped
PROPERTIES
  CancelIsHeard
  TailCatchesUp
