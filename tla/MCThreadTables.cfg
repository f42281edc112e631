CONSTANTS
    NbCells = 12
    ListName = {"threadList", "ready", "blocked"}
    HASHLISTSIZE = 2
    WORD = 16
    NbDesc = 3
    FIRST_USERTHREAD = 100
    LastUserThread = 103
    MaxOthers = 2
SPECIFICATION Spec
INVARIANTS
    
    TablesAgree
    ListingResumes
CHECK_DEADLOCK FALSE
