SPECIFICATION FairSpec
CONSTANTS
    t1 = t1
    t2 = t2
    t3 = t3
    Thread = {t1, t2, t3}
    Roles <- RolesSafe
    Capacity = 2
    NumIndices = 16
    StartIndex = 15
    MaxCalls = 2
INVARIANTS Consistent RightAtRest
PROPERTIES ImplementsFifo CallsReturn
CHECK_DEADLOCK FALSE
