SPECIFICATION MCSpec
CONSTANTS
    s1 = s1
    s2 = s2
    s3 = s3
    p1 = p1
    p2 = p2
    Servers = {s1, s2, s3}
    Proxies = {p1, p2}
    Dirs = {"d1", "d2"}
    DirOf <- MCDirOf
    PortOf <- MCPortOf
    CommonPorts <- MCPorts
    MaxFaults = 1
    NoServer = NoServer
    MaxRestarts = 2
    MaxAttempts = 3
    MaxChildren = 9
    MaxMessages = 3
    MaxMishaps = 2
    EnvNames = {"A", "B"}
    BaseNames = {"A"}
    Prefixed = {"B"}
    NoSession = NoSession
    EnvVars = {"A", "B"}
    SdkDefaults = {"A"}
    Referred = {"B"}
    Globs = {{"A"}, {"A", "B"}}
INVARIANTS
    DiscoveryIsSound
    RestartsAreSound
    ContextIsProxys
    EnvironmentIsRight
SYMMETRY ProxySymmetry
CHECK_DEADLOCK FALSE
