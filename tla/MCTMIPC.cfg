CONSTANTS
    TM = TM
    MM = MM
    Idle = Idle
    NULL = NULL
    ANY = ANY
    u1 = u1
    u2 = u2
    NbPriorityLevels = 3
    MAXNBMSGINQUEUE = 2
    UserOps <- MCUserOps
    Drivers <- MCDrivers
    UserIds <- MCUserIds
    Thread <- MCThread
    PriorityOf <- MCPriorityOf
SPECIFICATION Spec
INVARIANTS
    ServersFirst
    NoLostWakeup
    RunsNoGarbage
    NoWaitForDead
    CallsAreServed
PROPERTY WokenForAReason
