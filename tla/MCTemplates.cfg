CONSTANTS
    c1 = c1
    c2 = c2
    c3 = c3
    h1 = h1
    h2 = h2
    shared = shared
    solo = solo
    private = private
    Clients = {c1, c2, c3}
    Templates = {shared, solo}
    Shareable = {shared}
    PerClient = {}
    Hashes = {h1, h2}
    TemplateOrder <- SharedThenSolo
    RendersTo <- TwoContexts
    Requests = {r1, r2}
    SharedOwner = SharedOwner
    MaxInstances = 2
    MaxTotalInstances = 0
    MaxCreated = 3
SPECIFICATION Spec
CHECK_DEADLOCK FALSE
SYMMETRY Symmetry
INVARIANTS
    SessionsFitInstances
    EntriesAreUsed
