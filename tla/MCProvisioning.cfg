SPECIFICATION FairSpec
CONSTANTS
    n1 = n1
    n2 = n2
    NoNode = NoNode
    Node <- TwoNodes
    NetBoxEnabled = TRUE
    GuestManaged = TRUE
    MaxAttempts = 3
    MaxJobs = 2
    MaxOutages = 2
    MaxErrors = 1
    MaxCrashes = 2
    MaxSlow = 1
    MaxForeign = 1
    MaxErased = 1
    MaxRivals = 1
INVARIANTS
    TypeOK
    MilestonesInOrder
    ActiveIsComplete
    ProgressIsTrue
PROPERTIES
    NothingIsTakenBack
    OutagesAreSurvived
CHECK_DEADLOCK FALSE
