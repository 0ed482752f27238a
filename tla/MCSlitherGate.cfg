CONSTANTS
    s1 = s1
    s2 = s2
    s3 = s3
    health = health
    old = old
    new = new
    Scans <- const_Scans
    Probes = {health}
    Versions <- const_Versions
    Preinstalled = new
    Threads = 2
    SLITHER_MAX = 1
SPECIFICATION FairSpec
INVARIANTS TypeOK SemaphoreCounts
PROPERTIES CompilerUndisturbed ProbesAnswered
