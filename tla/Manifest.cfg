SPECIFICATION Spec
CONSTANTS
    s1 = s1
    s2 = s2
    o1 = o1
    o2 = o2
    f1 = f1
    r1 = r1
    r2 = r2
    Sentinel = {s1, s2}
    Own <- MCOwn
    Foreign = {f1}
    WorkRoot = WorkRoot
    Prefixed <- MCOwn
    Size = {1}
    MaxFiles = 4
    MaxDirectories = 1
    MaxSingleFile = 1
    MaxPayload = 2
    MaxCount = 2
    MaxOverlaps = 1
    Run <- MCRun
    Broken = Broken
INVARIANTS
    AlwaysLoadable
    RequestsAreAccounted
PROPERTIES
    ForeignUntouched
    NothingIsForgotten
SYMMETRY MCSymmetry
CHECK_DEADLOCK FALSE
