SPECIFICATION FairSpec
CONSTANTS
  Intervals = {1, 3}
  MaxStep = 2
  MaxSteps = 2
  MaxAsked = 1
  Never = Never
  Horizon = 8
INVARIANTS
  NeverOverdue
PROPERTIES
  NoStorm
  ChecksGoOn
