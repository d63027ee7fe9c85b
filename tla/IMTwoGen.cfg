SPECIFICATION FairSpec
CONSTANTS
    t1 = t1
    t2 = t2
    t3 = t3
    Thread = {t1, t2}
    Roles <- RolesBoth
    Capacity = 2
    NumIndices = 4
    StartIndex = 0
    MaxCalls = 2
PROPERTIES EmptyMeansEmpty
