SPECIFICATION Spec
CONSTANTS
    n1 = n1
    n2 = n2
    e1 = e1
    e2 = e2
    TagOrder <- MCTagOrder
    Servers = {"s1", "s2", "s3"}
    TagsOf <- MCTagsOf
    CanonOf <- MCCanonOf
    Presets = {n1, n2}
    Initial <- MCInitial
    Editors = {e1, e2}
    Strategies = {"or", "and"}
    ServersOf <- Matching
    QueryOfText <- CreateQuery
    SelectionOf <- Restore
    QueryOfSelection <- BuildQuery
    Symbols <- MCSymbols
    Followed <- MCFollowed
    MaxSymbols = 5
    MaxPresses = 1
    MaxTasks = 2
    MaxTimers = 2
    MaxReloads = 2
    Configured <- MCConfigured
    AtFirst = {"s1", "s2", "s3"}
INVARIANTS QueriesKeepMeaning ToldIsCurrent FiltersAgree
PROPERTY ServerFollowsFile
CHECK_DEADLOCK FALSE
