SPECIFICATION Spec
CONSTANTS
    prim = prim
    mirr = mirr
    sect = sect
    rec = rec
    rst1 = rst1
    rst2 = rst2
    Targets = {prim, mirr, sect, rec, rst1, rst2}
    Contents = {"a", "b", "c"}
    Mirror <- MCMirror
    Garbage = Garbage
    Invalid = Invalid
    Tearable = {rec, rst1, rst2}
    FirstVolumes <- Volumes1
    Plans <- PlansAll
    MaxEntries = 4
    MaxTx = 2
    MaxFaults = 3
    IOErrors = TRUE
INVARIANTS UndoCoversWrites CommittedIsWhole
PROPERTIES RepairIsAtomic
