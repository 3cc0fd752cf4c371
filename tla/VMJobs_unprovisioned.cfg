SPECIFICATION Spec
CONSTANTS
    j1 = j1
    j2 = j2
    Job <- MCJob
    MaxAttempts = 3
    MaxPending = 1
    MaxFaults = 0
    Gates <- AllGates
    Policies <- FullPolicy
    Commands <- NoCommands
SYMMETRY Symmetry
INVARIANTS
    ActiveMeansProvisioned
CHECK_DEADLOCK FALSE
