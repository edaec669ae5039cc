CONSTANTS
    Names = {"", "stable"}
    Malformed = {9}
    Namespaces = {"clusters", "a", "b"}
    NoNamespace = "none"
    Curators = {"a"}
    NoCurator = "nobody"
    NamespaceOf <- SharedNamespace
    ClusterOf <- OwnNames
    HostedClusters = {"a"}
    Hooks <- NoHooks
    Asks <- OneAsk
    RetryAsks <- NoRetry
    Reporting = {}
    EagerPods = TRUE
    EditsAnyTime = FALSE
    StartInfo = {1}
    InfoLags = FALSE
    MaxJobs = 2
    MaxEdits = 1
    MaxFaults = 0
SPECIFICATION Spec
INVARIANT FailedJobReleased
CHECK_DEADLOCK FALSE
