SPECIFICATION FairSpec
CONSTANTS
    MaxFrames = 2
    MaxRequests = 2
CHECK_DEADLOCK FALSE
INVARIANTS RequestsAccounted CloseIsBarrier
PROPERTIES ProcessReturns CloseReturns
