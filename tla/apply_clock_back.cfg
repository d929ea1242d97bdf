SPECIFICATION Spec
CONSTANTS
    l1 = l1
    l2 = l2
    s1 = s1
    s2 = s2
    Torn = Torn
    None = None
    Locks <- MCLocks
    Systems <- MCSystems
    SystemOf <- MCSystemOf
    KEEP_BACKUPS = 2
    MaxClock = 3
    Faults = {"clock_back"}
INVARIANTS
    FailureRestoresLock
