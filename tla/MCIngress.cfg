SPECIFICATION FairSpec
CONSTANTS
    Uploads = {u1, u2}
    Offline = {u1}
    HotFrames = {h1}
    NoFile = nofile
    MaxRetry = 1
    MaxCandidates = 2
    MaxPending = 1
    MaxAttempts = 1
CHECK_DEADLOCK FALSE
INVARIANTS BurstsAccounted FtpFirstUnlessAgain UploadHeld
PROPERTIES StopCompletes UploadsRemoved
