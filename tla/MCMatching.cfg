SPECIFICATION MatchingSpec
CONSTANTS
    MaxFrames = 3
    Readings <- SomeReadings
    Confidences = {89, 90}
    ListSize = 2
CHECK_DEADLOCK FALSE
INVARIANTS VerdictDue EarlyStopAgrees
