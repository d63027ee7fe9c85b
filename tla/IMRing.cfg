SPECIFICATION FairSpec
CONSTANTS
    t1 = t1
    t2 = t2
    t3 = t3
    Thread = {t1, t2, t3}
    Roles <- RolesAll
    Capacity = 3
    NumIndices = 16
    StartIndex = 13
    MaxCalls = 2
INVARIANTS Consistent
PROPERTIES ReportsTrue CallsReturn
