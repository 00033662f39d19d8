SPECIFICATION FairSpec
CONSTANTS
    Sessions = {s1}
    Scorings <- SerialScorings
    Contracts <- WithAndWithoutEvidence
    PatchStatuses = {}
    Outcomes = {"passed", "failed"}
    Approvers = {ann, blank}
    Blank = blank
    NoVerdict = NoVerdict
    Window = 4
    MinRuns = 2
    MayCrash = FALSE
    MaxRuns = 6
    MaxChanges = 5
INVARIANTS AuditChain LevelWithinRecommended BreachesAnswered StoredStripMonotonic
PROPERTIES RaisesAreEarned CapEnforced ImplementsAuthorised
CHECK_DEADLOCK FALSE
