SPECIFICATION MemorySpec
CONSTANTS
    Threads = {t1, t2}
    Addresses = {a1, a2}
    Images <- MCImages
    CallStacks <- MCCallStacks
    MaxCount = 1
SYMMETRY MCSymmetry
INVARIANTS
    DetectorExact
    OneFaultPerPath
    FaultsNotSkipped
