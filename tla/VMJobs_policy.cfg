SPECIFICATION Spec
CONSTANTS
    j1 = j1
    j2 = j2
    Job <- MCJob
    MaxAttempts = 2
    MaxPending = 1
    MaxFaults = 0
    Gates <- NoRetireGate
    Policies <- EditedPolicies
    Commands <- OnlyPatch
SYMMETRY Symmetry
INVARIANTS
    KillSwitchHolds
CHECK_DEADLOCK FALSE
