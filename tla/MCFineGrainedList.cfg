CONSTANTS
    t1 = t1
    t2 = t2
    NoRes = NoRes
    Threads <- MCThreads
    Keys <- FreeKeys
    MaxNodes <- FreeMaxNodes
    Program <- FreeProgram
SPECIFICATION FairSpec
INVARIANT TypeOK
INVARIANT MemorySafe
PROPERTY Linearizable
PROPERTY OpsReturn
