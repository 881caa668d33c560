SPECIFICATION Spec
CONSTANTS
    s1 = s1
    s2 = s2
    k1 = k1
    k2 = k2
    Own = {s1, s2}
    Ids = {i1}
    Keys = {k1, k2}
    Dead = {k1}
    First <- MCFirst
    Born <- MCBorn
    Shared <- MCShared
    Starts <- MCStarts
    MaxDay = 2
    MaxOps = 2
    None = None
INVARIANTS
    MintedAreFed
    RejectedStaysOut
PROPERTIES
    HistoryOnOneRow
CHECK_DEADLOCK FALSE
