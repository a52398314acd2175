SPECIFICATION Spec
CONSTANTS
    k1 = k1  k2 = k2  v1 = v1  v2 = v2  bg = bg  user = user
    Absent = Absent  Missing = Missing
    Key = {k1, k2}
    Val = {v1}
    Compactor = {bg}
    Bg = bg
    SegmentSize = 2
    ValSize = 1
    RatioNum = 1
    RatioDen = 2
    SnapshotOnClose = TRUE
    MaxSegID = 6
    MaxWrites = 4
    MaxCrashes = 1
    MaxIOErrors = 1
SYMMETRY Symmetry
INVARIANTS TypeOK RecoverableUnlessWeak
PROPERTIES NoNewOrphans ImplementsStore
