SPECIFICATION Spec
CONSTANTS
    c1 = c1
    c2 = c2
    NetBoxEnabled = TRUE
    Cleaner <- OneCleaner
    MaxBackups = 2
    MaxBackupFailures = 0
    MaxErrors = 1
    MaxCrashes = 1
    MaxReactivations = 1
INVARIANTS
    RetiredIsGone
CHECK_DEADLOCK FALSE
