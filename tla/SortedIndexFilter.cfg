SPECIFICATION Spec
CONSTANTS
    a = a  b = b  c1 = c1  c2 = c2
    NoFile = NoFile  NoCaller = NoCaller
    Key = {1, 2}
    Path = {a, b}
    Caller = {c1}
    Lists <- MCLists
    Filters = {TRUE, FALSE}
    SparseInterval = 1
    MaxLines = 2
    MaxFaults = 0
INVARIANT FilterKnowsEveryKey
