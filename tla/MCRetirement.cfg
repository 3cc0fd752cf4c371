SPECIFICATION FairSpec
CONSTANTS
    c1 = c1
    c2 = c2
    NetBoxEnabled = TRUE
    Cleaner <- TwoCleaners
    MaxBackups = 4
    MaxBackupFailures = 1
    MaxErrors = 1
    MaxCrashes = 2
    MaxReactivations = 2
INVARIANTS
    TypeOK
    RecoverableUntilCleanup
    ReleasedOnlyWithoutBackup
    RetiredOnceIsGone
    TasksAreFew
PROPERTIES
    DeleteOnlyWithBackup
    
    RetiredIsReleased
CHECK_DEADLOCK FALSE
