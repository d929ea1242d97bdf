SPECIFICATION MCSpec
CONSTANTS
    r1 = r1
    r2 = r2
    i1 = i1
    i2 = i2
    t1 = t1
    t2 = t2
    None = None
    Repos <- OneRepo
    Inputs <- OneInput
    Versions <- OldAndNew
    Trees <- OneTree
    MaxInputs = 4
INVARIANTS
    InstalledIsApproved
CHECK_DEADLOCK FALSE
