SPECIFICATION MCSpec
CONSTANTS
    p = p
    q = q
    Sessions = {p, q}
    PresetSessions <- OnePreset
    MaxAttempts = 4
    MaxOverlap = 2
    Ids = {i1, i2}
    Foreign = {i2}
    TTL = 4
    PersistRequests = 2
    PersistInterval = 2
    MaxTime = 8
    MaxFaults = 2
    Clients = {c1, c2, c3}
    Templates = {t1}
    InstanceIds = {j1, j2, j3}
    x1 = x1
    x2 = x2
    Guests = {p, q}
    Contexts = {x1, x2}
    NoContext = NoContext
    ContextOf <- MCContextOf
    FileTemplates = {t1}
    t1 = t1
    Wanted <- MCWanted
    Described = {d1}
    MaxEdits = 1
    MaxLinks = 2
INVARIANTS
    SessionsAreConnected
    CreatedIsPersisted
    StoreIsFaithful
    RelationIsCounted
    SetupIsOwn
PROPERTY
    ReportExact
    ImplementsRegistry
CHECK_DEADLOCK FALSE
