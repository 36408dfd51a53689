CONSTANTS
    t1 = t1
    t2 = t2
    NoRes = NoRes
    Threads <- MCThreads
    Keys <- FreeKeys
    MaxNodes <- FreeMaxNodes
    Program <- DanglingProgram
SPECIFICATION Spec
INVARIANT NoDanglingRef
