CONSTANTS
    address = address
    impl = impl
    none = none
    Address = address
    Impl = impl
    None = none
    Root <- const_Root
    TargetFile = "T.sol"
    RelPaths <- const_RelPaths
    MaxFiles = 2
    Impacts = {"High", "Low", "Critical"}
    MaxFindings = 3
SPECIFICATION Spec
CHECK_DEADLOCK FALSE
INVARIANTS
    TypeOK
    Contained
    TreeWhileNeeded
    PrimaryChosen
    SourceIsCompiled
    FindingsConsistent
    VerdictAsResolved
    StandingNeutral
PROPERTIES
    ImplementsOutcome
