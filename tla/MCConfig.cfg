SPECIFICATION MCSpec
CONSTANTS
    s1 = s1
    s2 = s2
    a1 = a1
    p1 = p1
    p2 = p2
    Servers = {s1, s2}
    Templates = {}
    Initial <- MCInitial
    Procs = {p1, p2}
    Jobs = {p1, p2}
    MaxTasks = 2
    Apps = {a1}
    ServersOf <- MCServersOf
    MaxSeconds = 1
    MaxFaults = 2
    Programs = {"vscode", "augment"}
    Paths = {"project", "settings"}
    Installations <- MCInstallations
    Texts <- MCTexts
    MaxTicks = 1
    MaxChanges = 2
    MaxCommands = 3
    MaxKills = 1
INVARIANTS UntouchedStaysServed AppsAreSafe
PROPERTIES ServesTheFile BackupsAreSound
CHECK_DEADLOCK FALSE
