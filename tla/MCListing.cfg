SPECIFICATION WalksSpec
CONSTANTS
    k1 = k1
    k2 = k2
    k3 = k3
    t1 = t1
    s1 = s1
    s2 = s2
    Keys = {k1, k2, t1}
    Templates = {t1}
    Sessions = {s1, s2}
    VisibleTo <- MCVisibleTo
    Selects <- MCSelects
    Kinds = {"tools"}
    Offers <- MCOffers
    Kind = "tools"
    Pages <- MCPages
    Walkers = {s1}
    MaxChanges = 4
INVARIANTS WalkComplete
PROPERTY WalkEnds
CHECK_DEADLOCK FALSE
