SPECIFICATION Spec
CONSTANTS
    Approvers = {ann}
    Blank = blank
    NoVerdict = NoVerdict
    PatchStatuses = {}
    Sessions = {s1, s2}
    Scorings <- StrongAndWeak
    Contracts <- OnlyFull
    Outcomes = {"passed"}
    Window = 3
    MinRuns = 1
    MayCrash = FALSE
    MaxRuns = 1
    MaxChanges = 4
PROPERTY OnlyPromotionRaises
CHECK_DEADLOCK FALSE
