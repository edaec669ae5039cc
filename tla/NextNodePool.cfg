CONSTANTS
    Names = {"", "ControlPlane", "NodePools", "fast", "first", "second"}
    Malformed = {9}
    Curators <- PoolByPool
    Templates <- NoTemplates
    Pools <- TwoPools
    Attempts = 2
    MonitorPolls = 2
    MaxJobs = 2
    MaxFaults = 0
    Provisions = 2
    Platforms = {"KubeVirt"}
    PoolsOf <- ByName
    HostedChannels = {"fast"}
    InstalledVersions = {1}
SPECIFICATION Spec
INVARIANT NamedPoolsAsked
CHECK_DEADLOCK FALSE
