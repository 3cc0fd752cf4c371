SPECIFICATION Spec
CONSTANTS
    j1 = j1
    j2 = j2
    Job <- MCJob
    MaxAttempts = 3
    MaxPending = 1
    MaxFaults = 1
    Gates <- AllGates
    Policies <- FullPolicy
    Commands <- AllCommands
SYMMETRY Symmetry
INVARIANTS
    TypeOK
    SingleOpenJob
    WorkerHoldsItsJob
    QueuedIsClaimable
    OwnedStates
    JobFitsState
PROPERTIES
    ImplementsSlot
    ImplementsLifecycle
    RetiredIsFinal
CHECK_DEADLOCK FALSE
