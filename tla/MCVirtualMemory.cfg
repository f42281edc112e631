CONSTANTS
    NbCells = 12
    NbRegions = 13
    Users = {2, 3}
    LOGICALPAGESIZE = 4
    STACKSIZE = 4
    SegMap <- MCSegMap
    KernelSize <- MCKernelSize
    UserSize <- MCUserSize
    FreeUserPages = 4
    Sizes = {3, 5}
SPECIFICATION Spec
INVARIANTS
    ListsLinked
    RegionsTile
PROPERTIES
    ImplementsRegions
    NotStolen
    CleanupProgress
