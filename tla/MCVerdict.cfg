SPECIFICATION Spec
CONSTANT FormScores = {1, 2, 3, 4, 5}
INVARIANTS CapReplayAgrees StripMonotonic
PROPERTY Monotone
CHECK_DEADLOCK FALSE
