SPECIFICATION FairSpec
CONSTANTS
    Tasks = {ws, ex, ds}
    WS = ws
    EX = ex
    DS = ds
    Strays = {s1}
    Clients = {c1, c2}
    POWERHANDOFF = "roothealth"
    MaxFaults = 1
PROPERTY RefusalIsTrue
CHECK_DEADLOCK FALSE
