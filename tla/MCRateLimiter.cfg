CONSTANTS
    t1 = t1
    t2 = t2
    k1 = k1
    k2 = k2
    Threads <- const_Threads
    Keys <- const_Keys
    Limits = {1, 2}
    Window = 2
    MaxNow = 4
    MaxCalls = 4
SYMMETRY Symmetry
SPECIFICATION Spec
INVARIANTS TypeOK WindowHolds
PROPERTY RefusalsJustified
