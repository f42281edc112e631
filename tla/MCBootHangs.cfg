CONSTANTS
    TM = TM
    MM = MM
    IO = IO
    Driver = Driver
    Idle = Idle
    Shell = Shell
    child = child
    NULL = NULL
    NbPriorityLevels = 3
    Thread <- MCThread
    Users <- MCUsers
    PriorityOf <- MCPriorityOf
    UserOps <- MCAllOps
SPECIFICATION FairSpec
PROPERTY SchedLockReleased
