CONSTANTS
    TM = TM
    mm = mm
    u1 = u1
    u2 = u2
    u3 = u3
    Idle = Idle
    NULL = NULL
    NbPriorityLevels = 3
    Thread <- MCThread
    ANY = ANY
    Permanent <- MCPermanent
    PriorityOf <- MCPriorityOf
    BootOrder <- MCBootOrder
SPECIFICATION FairSpec
INVARIANTS
    TypeOK
    ListsMatchStatus
    MostUrgentRuns
    LockHolderRuns
    TargetUnchanged
PROPERTY RoundRobin
