CONSTANTS
    Names = {"", "ControlPlane", "NodePools", "fast", "first", "second"}
    Malformed = {9}
    Curators <- MCCurators
    Templates <- MCTemplates
    Pools <- TwoPools
    Attempts = 2
    MonitorPolls = 2
    MaxJobs = 2
    MaxFaults = 1
    Provisions = 2
    Platforms = {"KubeVirt", "AWS"}
    PoolsOf <- ByName
    HostedChannels = {"fast"}
    InstalledVersions = {1}
SPECIFICATION Spec
INVARIANT TypeOK
INVARIANT OneHookAtATime
PROPERTY PrehooksFirst
PROPERTY AchievedFirst
PROPERTY PoolsBehind
PROPERTY JobsEnd
CHECK_DEADLOCK FALSE
