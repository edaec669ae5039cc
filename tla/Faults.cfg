CONSTANTS
    Names = {"", "stable"}
    Malformed = {9}
    Namespaces = {"clusters", "a"}
    NoNamespace = "none"
    Curators = {"a"}
    NoCurator = "nobody"
    NamespaceOf <- SharedNamespace
    ClusterOf <- OwnNames
    HostedClusters = {"a"}
    Hooks <- NoHooks
    Asks <- FaultAsks
    RetryAsks <- NoRetry
    Reporting = {}
    EagerPods = TRUE
    EditsAnyTime = TRUE
    StartInfo = {1}
    InfoLags = FALSE
    MaxJobs = 1
    MaxEdits = 2
    MaxFaults = 1
SPECIFICATION FairSpec
INVARIANT TypeOK
INVARIANT CRBNotInherited
PROPERTY NoResurrection
PROPERTY GrantsBeforeLaunch
PROPERTY AccessRevoked
CHECK_DEADLOCK FALSE
