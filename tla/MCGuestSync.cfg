SPECIFICATION MCFairSpec
CONSTANTS
    none = none
    alice = alice
    before = before
    after = after
    served = served
    packaged = packaged
    Nothing = Nothing
    Users <- MCUsers
    NoUsers = none
    Files <- MCFiles
    Fields <- MCFields
    Installing <- MCInstalling
    Listing <- MCListing
    Switchings <- MCSwitchings
    MaxAttempts = 2
    MaxEdits = 2
    MaxPatches = 1
    MaxFaults = 1
INVARIANTS
    TypeOK
    RecordedIsReal
    NoSilentDrift
    UnitsServeFiles
PROPERTIES
    Settles
CHECK_DEADLOCK FALSE
