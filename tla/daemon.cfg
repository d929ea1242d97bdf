SPECIFICATION MCSpec
CONSTANTS
    r1 = r1
    r2 = r2
    i1 = i1
    i2 = i2
    t1 = t1
    t2 = t2
    None = None
    Repos <- TwoRepos
    Inputs <- TwoInputs
    Versions <- OldAndNew
    Trees <- TwoTrees
    MaxInputs = 2
INVARIANTS
    TypeOK
    ChecksSerialized
    AppliesExclusive
    OfferIsLive
    NotifiedOnce
    TrayAgrees
PROPERTIES
    QuitIsHeard
CHECK_DEADLOCK FALSE
