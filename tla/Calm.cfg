CONSTANTS
    Names = {"", "stable"}
    Malformed = {9}
    Namespaces = {"a"}
    NoNamespace = "none"
    Curators = {"a"}
    NoCurator = "nobody"
    NamespaceOf <- OwnNamespace
    ClusterOf <- OwnNames
    HostedClusters = {}
    Hooks <- CalmHooks
    Asks <- CalmAsks
    RetryAsks <- RestRetry
    Reporting = {"monitor-upgrade"}
    EagerPods = FALSE
    EditsAnyTime = FALSE
    StartInfo = {}
    InfoLags = FALSE
    MaxJobs = 2
    MaxEdits = 2
    MaxFaults = 0
SPECIFICATION FairSpec
INVARIANT AtMostOneActive
INVARIANT PodsKeepAccess
INVARIANT OnlyAskedFor
INVARIANT FailureReported
INVARIANT FailedJobReleased
PROPERTY ImplementsCuration
PROPERTY CurationsEnd
CHECK_DEADLOCK FALSE
