CONSTANTS
    Names = {"", "stable"}
    Malformed = {9}
    Namespaces = {"clusters", "a", "b"}
    NoNamespace = "none"
    Curators = {"a", "b"}
    NoCurator = "nobody"
    NamespaceOf <- SharedNamespace
    ClusterOf <- OwnNames
    HostedClusters = {"a", "b"}
    Hooks <- NoHooks
    Asks <- OneAsk
    RetryAsks <- NoRetry
    Reporting = {}
    EagerPods = FALSE
    EditsAnyTime = FALSE
    StartInfo = {1}
    InfoLags = FALSE
    MaxJobs = 2
    MaxEdits = 2
    MaxFaults = 0
SPECIFICATION Spec
PROPERTY ActiveCurationKeepsCRB
CHECK_DEADLOCK FALSE
