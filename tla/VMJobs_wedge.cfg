SPECIFICATION FairSpec
CONSTANTS
    j1 = j1
    j2 = j2
    Job <- OneJob
    MaxAttempts = 3
    MaxPending = 1
    MaxFaults = 3
    Gates <- AllGates
    Policies <- NoGuestPolicy
    Commands <- NoCommands
PROPERTIES
    JobsClose
CHECK_DEADLOCK FALSE
