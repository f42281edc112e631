CONSTANTS
    NbCells = 14
    NbRegions = 14
    Users = {2, 3}
    LOGICALPAGESIZE = 4
    STACKSIZE = 4
    SegMap <- MCSegMap
    KernelSize <- MCKernelSize
    UserSize <- MCUserSize
    FreeUserPages = 3
    Sizes = {3, 5}
SPECIFICATION Spec
INVARIANT CleanupReclaims
