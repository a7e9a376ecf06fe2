CONSTANTS
    Pids = {1}
    Workers = {w1}
    Main = main
    None = None
    KEEP = 1
    AnyReuse = FALSE
    MaxId = 2
    MaxCrashes = 1
    MaxFails = 1
SPECIFICATION FairSpec
INVARIANTS RestartRecoversRegistry NeverForgotten
PROPERTIES DeadIsPruned
