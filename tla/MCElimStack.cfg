CONSTANTS
    t1 = t1
    t2 = t2
    t3 = t3
    v1 = v1
    v2 = v2
    v3 = v3
    NoVal = NoVal
    Threads <- MCThreads
    Values = {v1, v2, v3}
    ElimSize = 1
    Program <- MCProgram
SPECIFICATION Spec
INVARIANT TypeOK
PROPERTY Linearizable
