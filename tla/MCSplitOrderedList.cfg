CONSTANTS
    Threads <- FreeThreads
    Keys <- FreeKeys
    Program <- FreeProgram
    Width <- MCWidth
    Values = {v1}
    t1 = t1
    t2 = t2
    t3 = t3
    v1 = v1
    v2 = v2
    NoVal = NoVal
    LoadFactor = 1
SPECIFICATION FairSpec
INVARIANT TypeOK
INVARIANT BucketsSound
INVARIANT CountConsistent
PROPERTY Linearizable
PROPERTY OpsReturn
