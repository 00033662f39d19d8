SPECIFICATION Spec
CONSTANTS
    Approvers = {ann}
    Blank = blank
    NoVerdict = NoVerdict
    PatchStatuses = {}
    Sessions = {s1}
    Scorings <- OneScoring
    Contracts <- WithAndWithoutEvidence
    Outcomes = {"passed"}
    Window = 3
    MinRuns = 1
    MayCrash = FALSE
    MaxRuns = 1
    MaxChanges = 3
INVARIANT GatesHold
CHECK_DEADLOCK FALSE
