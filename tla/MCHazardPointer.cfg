CONSTANTS
    r1 = r1
    r2 = r2
    Readers <- MCReaders
    MaxSlots = 3
    MaxPtr = 3
    Rounds = 2
SPECIFICATION Spec
SYMMETRY MCSymmetry
INVARIANT TypeOK
INVARIANT SlotsExclusive
INVARIANT ProtectedNotFreed
