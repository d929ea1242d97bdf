SPECIFICATION Spec
CONSTANTS
    l1 = l1
    l2 = l2
    s1 = s1
    s2 = s2
    Torn = Torn
    None = None
    Locks <- MCLocks
    Systems <- MCSystems
    SystemOf <- MCSystemOf
    KEEP_BACKUPS = 1
    MaxClock = 1
    Faults = {"copy_fails", "prune_fails", "unreadable", "same_system", "restart"}
INVARIANTS
    TypeOK
    BackupHoldsOriginal
    PreviousLockRecoverable
