SPECIFICATION DSpec
CONSTANTS
    k1 = k1  k2 = k2  k3 = k3  v1 = v1  v2 = v2  bg = bg  user = user
    Absent = Absent  Missing = Missing  Garbage = Garbage
    Key = {k1, k2}
    Val = {v1}
    Compactor = {bg}
    Bg = bg
    SegmentSize = 4
    ValSize = 2
    RatioNum = 1
    RatioDen = 2
    SnapshotOnClose = TRUE
    SyncOnWrite = FALSE
    MaxSegID = 3
    MaxWrites = 3
    MaxSyncs = 1
    MaxCrashes = 0
    MaxIOErrors = 1
SYMMETRY Symmetry
INVARIANTS DTypeOK GarbageOnlyFromEarlySnapshot
PROPERTIES AckedSurvives DamageStaysInSegment
