\* A check ends.
SPECIFICATION Spec
CHECK_DEADLOCK FALSE
CONSTANTS
  Parts <- MCParts
  Digits <- MCDigits
  None = None
  Absent = Absent
  Chars <- MCChars
  Syntax <- MCSyntax
  HostChars <- MCHostChars
  Escaped <- MCEscaped
  Inputs <- MCInputs
  Outputs <- MCOutputs
  Order <- MCOrder
  Meta <- MCMeta
  Bad <- MCBad
  Bytes <- MCBytes
  Budget = 9
INVARIANTS
  ReportIsExact
  StatusTellsArrivals
  RuntimeTellsInstalled
  LinksFollowCandidate
  OneBatchCosts
  BatchesFit
