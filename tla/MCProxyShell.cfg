CONSTANTS
    a1 = a1
    a2 = a2
    a3 = a3
    Accounts <- Three
    Address = a1
    None = None
    MayFail = TRUE
    MaxUpgrades = 0
SYMMETRY Symmetry
SPECIFICATION Spec
CHECK_DEADLOCK FALSE
INVARIANT ShellNeverScanned
