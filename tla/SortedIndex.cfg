SPECIFICATION Spec
CONSTANTS
    a = a  b = b  c1 = c1  c2 = c2
    NoFile = NoFile  NoCaller = NoCaller
    Key = {1, 2}
    Path = {a, b}
    Caller = {c1, c2}
    Lists <- MCLists
    Filters = {TRUE}
    SparseInterval = 1
    MaxLines = 3
    MaxFaults = 1
SYMMETRY Symmetry
VIEW StateView
INVARIANTS TypeOK CacheIsWhole OpenedIsRight
PROPERTIES RecordNeverReverts
