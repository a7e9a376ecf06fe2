SPECIFICATION Spec
CONSTANTS
    Files = {f1, f2}
    Paths = {p1, p2}
    Programs = {array, brick}
    None = None
    Absent = Absent
    Header = Header
    MaxStores = 2
    MaxStops = 1
SYMMETRY Permutation
INVARIANTS TypeOK NothingIsLost ListedIsStored
