CONSTANTS
    Threads = {t1, t2}
    Indices <- MCIndices
    Values = {v1, v2}
    LogSize <- MCLogSize
    Width <- MCWidth
    MaxSegs <- MCMaxSegs
    Program <- MCProgram
    t1 = t1
    t2 = t2
    v1 = v1
    v2 = v2
    Null = Null
SPECIFICATION Spec
INVARIANT TypeOK
INVARIANT GrowEnough
PROPERTY Implements
