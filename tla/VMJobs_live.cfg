SPECIFICATION FairSpec
CONSTANTS
    j1 = j1
    j2 = j2
    Job <- OneJob
    MaxAttempts = 2
    MaxPending = 1
    MaxFaults = 2
    Gates <- AllGates
    Policies <- FullPolicy
    Commands <- OnlyPatch
PROPERTIES
    JobsCloseOrWedge
    GuestJobYieldsToRetirement
CHECK_DEADLOCK FALSE
