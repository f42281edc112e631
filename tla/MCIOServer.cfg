CONSTANTS
    BUFSIZE = 3
    IO = "io"
    Client = {"c1", "c2"}
    TM = "tm"
    Nobody = "nobody"
    Order <- MCOrder
    Used <- MCUsed
    MaxInput = 3
    WORD = 64
    UserStart = 32
    UserSize = 16
    Asks <- MCAsks
    Transfers <- MCTransfers
SPECIFICATION FairSpec
INVARIANTS
    EachRequestOnce
    BuffersInUserSpace
PROPERTIES
    ImplementsQueues
    CallsAnswered
CHECK_DEADLOCK FALSE
