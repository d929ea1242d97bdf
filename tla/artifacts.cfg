SPECIFICATION Spec
CONSTANTS
  Pids = {p1, p2}
INVARIANTS
  WorkingCopy
  OfferKept
  CleanExit
PROPERTY
  LitterGoes
