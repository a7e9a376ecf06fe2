SPECIFICATION FairSpec
CONSTANTS
    prim = prim
    mirr = mirr
    sect = sect
    rec = rec
    rst1 = rst1
    rst2 = rst2
    Targets = {prim, mirr, sect, rec, rst1, rst2}
    Contents = {"a", "b", "c"}
    Mirror <- MCMirror
    Garbage = Garbage
    Invalid = Invalid
    Tearable = {rec, rst1, rst2}
    FirstVolumes <- Volumes1
    Plans <- PlansDisjoint
    MaxEntries = 4
    MaxTx = 3
    MaxFaults = 3
    IOErrors = FALSE
INVARIANTS TypeOK UndoCoversWrites CommittedIsWhole PairAlwaysAccepted NeverRefused
PROPERTIES RepairIsAtomic RecoveryCompletes
