CONSTANTS
    s1 = s1
    s2 = s2
    t1 = t1
    a = a
    b = b
    Tags = {a, b}
    Templates = {t1}
    TagsOf <- MCTagsOf
    ServerOrder <- TwoServers
    MaxRetries = 1
    MaxConcurrentLoads = 1
    MaxPerTick = 2
    MaxTimers = 1
SPECIFICATION FairSpec
CHECK_DEADLOCK FALSE
INVARIANTS
    StatusIsTrue
PROPERTIES
    AdmittedStaysAdmitted
    LoadingSettles
