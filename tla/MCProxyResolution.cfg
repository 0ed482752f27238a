CONSTANTS
    a1 = a1
    a2 = a2
    a3 = a3
    Accounts <- Three
    Address = a1
    None = None
    MayFail = TRUE
    MaxUpgrades = 1
SPECIFICATION FairSpec
CHECK_DEADLOCK FALSE
INVARIANTS TypeOK NeverMisled ExactWhenQuiet ReturnsAsPromised
PROPERTIES WalkEnds WalkAdvances
