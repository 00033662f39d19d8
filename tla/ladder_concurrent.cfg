SPECIFICATION Spec
CONSTANTS
    Sessions = {s1, s2}
    Scorings <- StrongAndWeak
    Contracts <- OnlyFull
    PatchStatuses = {"draft", "reconciled", "authoritative"}
    Outcomes = {"passed", "failed"}
    Approvers = {ann, blank}
    Blank = blank
    NoVerdict = NoVerdict
    Window = 3
    MinRuns = 1
    MayCrash = TRUE
    MaxRuns = 3
    MaxChanges = 3
INVARIANTS TypeOK AuditTail LevelsEarned
CHECK_DEADLOCK FALSE
