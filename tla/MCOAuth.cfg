SPECIFICATION MCSpec
CONSTANTS
    Apps = {app}
    Requests = {q1, q2}
    Codes = {k1, k2}
    Tokens = {t1, t2}
    Handlers = {h1, h2}
    NoCode = NoCode
    Visits = {v1, v2}
    Loader = loader
    Transports = {1, 2, 3, 4, 5}
    MaxTries = 2
    MaxFlows = 3
    MaxFaults = 2
    Ids = {"u/db", "u/db-admin"}
    Names = {"db", "admin"}
    LocalName <- MCLocalName
    Containing <- MCContaining
    Results <- MCResults
    Packages <- MCPackages
    Remotes <- MCRemotes
    EnvVars <- MCEnvVars
    Arguments <- MCArguments
    AtStart = {"db"}
    MaxRounds = 2
    MaxOthers = 1
CHECK_DEADLOCK FALSE
INVARIANTS ConsentIsKept
PROPERTIES AttemptsConnect WizardAsksFirst
