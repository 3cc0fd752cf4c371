SPECIFICATION SiteFairSpec
CONSTANTS
    a1 = a1
    a2 = a2
    a3 = a3
    None = None
    Allocation <- MCAllocation
    VmidMin = 10
    VmidMax = 11
    PoolStart = 100
    PoolEnd = 101
    Gateway = 99
    TemplateFields <- FullTemplate
    MaxAborts = 2
    MaxFaults = 2
INVARIANTS
    TypeOK
    LiveIdentitiesDistinct
    PoolLockProtects
    ReleasedIsReusable
PROPERTIES
    ImplementsRegistry
    ReservationsEnd
    HeldIsReleased
CHECK_DEADLOCK FALSE
