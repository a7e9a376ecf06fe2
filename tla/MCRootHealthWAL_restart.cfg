SPECIFICATION Spec
CONSTANTS
    prim = prim
    mirr = mirr
    sect = sect
    rec = rec
    rst1 = rst1
    rst2 = rst2
    Targets = {rst1, rst2}
    Contents = {"a", "b", "c"}
    Mirror <- NoMirror
    Garbage = Garbage
    Invalid = Invalid
    Tearable = {rst1, rst2}
    FirstVolumes <- Volumes1
    Plans <- PlansRestartOnly
    MaxEntries = 2
    MaxTx = 1
    MaxFaults = 2
    IOErrors = FALSE
INVARIANTS InterruptedIsLoadable
