SPECIFICATION Spec
CONSTANTS
    k1 = k1  k2 = k2  v1 = v1  v2 = v2  bg = bg  user = user
    Absent = Absent  Missing = Missing
    Key = {k1, k2}
    Val = {v1, v2}
    Compactor = {bg}
    Bg = bg
    SegmentSize = 3
    ValSize = 2
    RatioNum = 1
    RatioDen = 3
    SnapshotOnClose = TRUE
    MaxSegID = 5
    MaxWrites = 4
    MaxCrashes = 0
    MaxIOErrors = 0
SYMMETRY Symmetry
INVARIANT LatestPutRecovered
