CONSTANTS
    Pids = {1, 2}
    Workers = {w1}
    Main = main
    None = None
    KEEP = 1
    AnyReuse = FALSE
    MaxId = 2
    MaxCrashes = 0
    MaxFails = 0
SPECIFICATION Spec
INVARIANTS TypeOK OneRecordPerPid NeverForgotten ReadyIsKept
