CONSTANTS
    Threads <- WrapThreads
    Keys <- FreeKeys
    Program <- WrapProgram
    Width <- MCWidth
    Values = {v1, v2}
    t1 = t1
    t2 = t2
    t3 = t3
    v1 = v1
    v2 = v2
    NoVal = NoVal
    LoadFactor = 2
SPECIFICATION Spec
INVARIANT NoOverflowPanic
