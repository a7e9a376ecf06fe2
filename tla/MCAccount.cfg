SPECIFICATION Spec
CONSTANTS
    Users = {u1, u2}
    Passwords = {p1, p2}
    Threads = {t1, t2}
    Tool = tool
    Quarantine = quarantine
    None = None
    MaxDelay = 2
    MaxCount = 2
    Day = 2
    MaxTime = 3
    MaxRequests = 7
    MaxFaults = 2
    MaxCrashes = 1
INVARIANTS TypeOK FilesNeverLost CredentialNamesHome
PROPERTY AttemptsAreSpaced
SYMMETRY Permutation
CHECK_DEADLOCK FALSE
