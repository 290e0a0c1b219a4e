SPECIFICATION MCSpec
CONSTANTS
    MaxName = 4
    Names = {a, b}
    ToolTags = {t}
    ToolCalls = {c1, c2}
    Unresolved = other
    MaxAnswers = 2
    MaxOutside = 1
    Callers = {r1, r2}
    Questions <- MCQuestions
    Statuses = {"stats"}
    Paged = {"stats"}
    TTLOf <- MCTTLOf
    Timeout = 1
    MaxPages = 1
    MaxSize = 2
    MaxTime = 5
INVARIANTS
    ListedIsCallable
    AnswersAreRecent
PROPERTIES
    AnswersAreTrue
CHECK_DEADLOCK FALSE
