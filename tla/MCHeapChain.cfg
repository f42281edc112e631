CONSTANTS
    KERNELHEAPSIZE = 76
    Sizes <- MCSizes
    NULL = NULL
    JUNK = JUNK
    HM_FREED = HM_FREED
    HM_ALLOCATED = HM_ALLOCATED
SPECIFICATION Spec
INVARIANT ChainIntact
INVARIANT LiveDisjoint
INVARIANT NoLeak
INVARIANT CanBeFreed
INVARIANT FailsOnlyWhenFull
PROPERTY ImplementsHeap
