SPECIFICATION LifecycleSpec
CONSTANTS
    s1 = s1
    s2 = s2
    ServerNames = {s1, s2}
    BootOrder <- OneAtBoot
    Remote = {s2}
    MaxBatch = 2
    MaxEdits = 2
    MaxHandlers = 2
    MaxRejoins = 1
INVARIANTS
    ServersFollowFile
    RemovedServersStop
CHECK_DEADLOCK FALSE
