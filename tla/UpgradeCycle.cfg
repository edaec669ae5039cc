CONSTANTS
    Names = {"", "stable", "mirror", "NodePools", "a,b"}
    Malformed = {9}
    Requests <- MCRequests
    StartVersions = {1, 2}
    MidRunEdits = FALSE
    MaxEdits = 3
SPECIFICATION Spec
INVARIANT TypeOK
INVARIANT SkippedMeansReached
INVARIANT NewVersionRetried
PROPERTY NoRelaunch
CHECK_DEADLOCK FALSE
