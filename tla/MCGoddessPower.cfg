SPECIFICATION FairSpec
CONSTANTS
    Tasks = {ws, ex, ds}
    WS = ws
    EX = ex
    DS = ds
    Strays = {s1, s2}
    Clients = {c1, c2}
    POWERHANDOFF = "roothealth"
    MaxFaults = 1
INVARIANTS TypeOK KernelDoesWhatWasAnswered GateAfterServices
PROPERTY AnsweredIsCarriedOut
CHECK_DEADLOCK FALSE
