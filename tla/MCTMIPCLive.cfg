CONSTANTS
    TM = TM
    MM = MM
    Idle = Idle
    NULL = NULL
    ANY = ANY
    u1 = u1
    u2 = u2
    NbPriorityLevels = 3
    MAXNBMSGINQUEUE = 1
    UserOps <- MCFewUserOps
    Drivers <- MCDrivers
    UserIds <- MCUserIds
    Thread <- MCThread
    PriorityOf <- MCPriorityOf
SPECIFICATION FairSpec
PROPERTIES
    TmReturns
    ExitHappens
