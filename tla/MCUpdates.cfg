SPECIFICATION Spec
CONSTANTS
    k1 = k1
    k2 = k2
    s1 = s1
    s2 = s2
    tool = tool
    prompt = prompt
    Keys = {k1, k2}
    Templates = {}
    Sessions = {s1}
    VisibleTo <- MCVisibleTo
    Selects <- MCSelects
    Kinds = {"tools", "prompts"}
    Offers <- MCOffers
    Names = {tool, prompt}
    ItemsOf <- MCItems
    Hidden <- MCHidden
    Failures = {{}}
    Reloaded = {k1}
    MaxReloads = 1
INVARIANTS QuietOwesNothing
PROPERTIES BroughtIsTold
CHECK_DEADLOCK FALSE
