SPECIFICATION MFairSpec
CONSTANTS
    n1 = n1  n2 = n2  c1 = c1  c2 = c2  c3 = c3  s1 = s1  s2 = s2
    Name = {n1}
    Client = {c1, c2, c3}
    Source = {s1, s2}
    NoSource = NoSource
    IdleTTL = 1

INVARIANTS MTypeOK RefsMatchHandles HeldIsLive NothingOpenAfterClose
PROPERTIES NotReapedEarly OpenedFromRecentList CloseReturns IdleIsReaped CallsReturn
CHECK_DEADLOCK FALSE
