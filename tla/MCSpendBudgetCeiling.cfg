CONSTANTS
    c1 = c1
    c2 = c2
    c3 = c3
    Callers <- const_Callers
    Ceilings = {1}
    MaxDay = 2
SYMMETRY Symmetry
SPECIFICATION Spec
INVARIANT DailyCeiling
