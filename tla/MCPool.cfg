CONSTANTS
    Clients = {c1, c2}
    Templates = {shared, private, solo}
    Hashes = {h1, h2}
    Requests = {r1, r2}
    SharedOwner = SharedOwner
    Shareable = {shared, private}
    PerClient = {private}
    MaxInstances = 1
    MaxTotalInstances = 2
    MaxCreated = 3
SPECIFICATION FairSpec
CHECK_DEADLOCK FALSE
INVARIANTS
    BookkeepingExact
    InstancesAreRight
    OverrunBounded
PROPERTIES
    IdleIsReclaimed
