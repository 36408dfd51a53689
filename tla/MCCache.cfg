CONSTANTS
    t1 = t1
    t2 = t2
    t3 = t3
    k1 = k1
    k2 = k2
    None = None
    Threads <- MCThreads
    Keys <- MCKeys
    Program <- LiveProgram
SPECIFICATION FairSpec
INVARIANT FOnce
INVARIANT GetsAgree
PROPERTY OpsReturn
