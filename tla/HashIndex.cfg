SPECIFICATION Spec
CONSTANTS
    k1 = k1  k2 = k2  k3 = k3  k4 = k4  l1 = l1  l2 = l2
    NoKey = NoKey  NoLoc = NoLoc
    Key = {k1, k2, k3, k4}
    Loc = {l1, l2}
    HashValue = {0, 1, 5, 7}
    InitialSlots = 4
    LoadNum = 13
    LoadDen = 20
    MaxSlots = 16
SYMMETRY Symmetry
INVARIANTS TypeOK CountsExact AlwaysRoom KeysOnce ChurnDoesNotGrow
PROPERTY ActsAsMap
