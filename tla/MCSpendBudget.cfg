CONSTANTS
    c1 = c1
    c2 = c2
    c3 = c3
    Callers <- const_Callers
    Ceilings = {0, 1, 2}
    MaxDay = 3
SYMMETRY Symmetry
SPECIFICATION Spec
INVARIANTS
    TypeOK
    NoPhantomCharge
    LagBounded
PROPERTIES
    ImplementsQuota
