CONSTANTS
    TM = TM
    MM = MM
    Idle = Idle
    NULL = NULL
    ANY = ANY
    u1 = u1
    d = d
    NbPriorityLevels = 3
    MAXNBMSGINQUEUE = 4
    UserOps <- MCFewUserOps
    Drivers <- MCDrivers
    UserIds <- MCUserIds
    Thread <- MCThread
    PriorityOf <- MCPriorityOf
SPECIFICATION FairSpec
PROPERTY ExitHappens
