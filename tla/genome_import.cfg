SPECIFICATION FairSpec
CONSTANTS
    c1 = c1
    c2 = c2
    c3 = c3
    Sessions = {s1, s2}
    Codes = {c1, c2, c3}
    Genomes <- MixedGenomes
    MayFault = TRUE
    MayCrash = TRUE
    MaxVersions = 3
INVARIANTS AcceptedWhole OwnersKnown UnscoredAllOrNothing
PROPERTIES CommittedKept ImportEnds
CHECK_DEADLOCK FALSE
