SPECIFICATION Spec
CONSTANTS
    Approvers = {ann}
    Blank = blank
    NoVerdict = NoVerdict
    PatchStatuses = {}
    Sessions = {s1, s2}
    Scorings <- RaceScorings
    Contracts <- OnlyFull
    Outcomes = {"passed"}
    Window = 3
    MinRuns = 1
    MayCrash = FALSE
    MaxRuns = 1
    MaxChanges = 1
INVARIANT StoredStripMonotonic
CHECK_DEADLOCK FALSE
