CONSTANTS
    Names = {"", "ControlPlane", "NodePools", "fast", "first", "second"}
    Malformed = {9}
    Curators <- DestroyOnly
    Templates <- NoTemplates
    Pools <- TwoPools
    Attempts = 2
    MonitorPolls = 2
    MaxJobs = 1
    MaxFaults = 0
    Provisions = 2
    Platforms = {"KubeVirt"}
    PoolsOf <- ByName
    HostedChannels = {"fast"}
    InstalledVersions = {1}
SPECIFICATION Spec
PROPERTY UninstallComplete
CHECK_DEADLOCK FALSE
