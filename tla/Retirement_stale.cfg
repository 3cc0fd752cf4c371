SPECIFICATION Spec
CONSTANTS
    c1 = c1
    c2 = c2
    NetBoxEnabled = FALSE
    Cleaner <- OneCleaner
    MaxBackups = 2
    MaxBackupFailures = 0
    MaxErrors = 1
    MaxCrashes = 0
    MaxReactivations = 1
PROPERTIES
    DeletedIsInBackup
CHECK_DEADLOCK FALSE
