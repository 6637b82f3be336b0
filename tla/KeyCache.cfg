SPECIFICATION Spec
CONSTANTS
    Kids = {k1, k2}
    Requests = {r1, r2}
    MaxAge = 3
    MinRefresh = 1
    Timeout = 1
    MaxTime = 5
    Never = Never
SYMMETRY Symmetry
INVARIANT TypeOK
PROPERTIES RetiredKeyStops NewKeyWorks OutageSignsNobodyOut
CHECK_DEADLOCK FALSE
