SPECIFICATION FairSpec
CONSTANTS
    NULL = NULL
    MaxThreads = 5
    MAXNBMSGINQUEUE = 2
    Scripts <- MCScripts
    MAX_SEATS = 2
INVARIANT ArgumentsIntact
PROPERTIES OwnRegisters PromptReturns
