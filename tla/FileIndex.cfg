SPECIFICATION Spec
CONSTANTS
    k1 = k1  k2 = k2  v1 = v1  v2 = v2
    Absent = Absent  Missing = Missing
    Key = {k1, k2}
    Val = {v1, v2}
    MaxLen = 11
    MaxFaults = 2
SYMMETRY Symmetry
INVARIANTS TypeOK TailKnown LinesAreWhole RecoverableUnlessWeak
PROPERTY ImplementsStore
