CONSTANTS
    Names = {"", "stable", "mirror"}
    Malformed = {9}
    Requests <- MCRequests
    StartVersions = {4101, 4112}
    Updates <- Offered
    Channels = {"stable"}
    EUSChannel = "stable"
    ForcedRequests <- MCForced
    PrintedIn <- Digits
    ForeignView = TRUE
    BackoffLimit = 2
    WaitPolls = 2
    MonitorPolls = 2
    MaxEdits = 2
    MaxFaults = 1
SPECIFICATION Spec
INVARIANT TypeOK
PROPERTY ImplementsCycle
PROPERTY EUSInOrder
PROPERTY JobsEnd
CHECK_DEADLOCK FALSE
