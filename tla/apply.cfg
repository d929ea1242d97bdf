SPECIFICATION FairSpec
CONSTANTS
    l1 = l1
    l2 = l2
    s1 = s1
    s2 = s2
    Torn = Torn
    None = None
    Locks <- MCLocks
    Systems <- MCSystems
    SystemOf <- MCSystemOf
    KEEP_BACKUPS = 2
    MaxClock = 2
    Faults = {}
INVARIANTS
    FailureRestoresLock
    NoSilentRevert
    UnfinishedIsRemembered
    BackupsBounded
PROPERTIES
    ImplementsLockUpdate
    CancelEndsApply
