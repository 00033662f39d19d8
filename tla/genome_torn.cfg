SPECIFICATION Spec
CONSTANTS
    c1 = c1
    c2 = c2
    c3 = c3
    Sessions = {s1, s2}
    Codes = {c1, c2}
    Genomes <- SharedCode
    MayFault = FALSE
    MayCrash = FALSE
    MaxVersions = 2
INVARIANT NoHalfImport
CHECK_DEADLOCK FALSE
