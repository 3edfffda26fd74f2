SPECIFICATION HotStreamFairSpec
CONSTANTS
    Frames = {f1, f2, f3, f4}
    Large = {f1, f2}
    MaxFrames = 3
    MaxBytes = 4
    MaxChildren = 2
CHECK_DEADLOCK FALSE
INVARIANTS RingConsistent OneChild
PROPERTIES ThreadEnds
