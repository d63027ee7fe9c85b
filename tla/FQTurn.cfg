SPECIFICATION Spec
CONSTANTS
    t1 = t1
    t2 = t2
    t3 = t3
    Thread = {t1, t2, t3}
    Roles <- RolesTurn
    Capacity = 2
    NumIndices = 4
    StartIndex = 0
    MaxCalls = 7
PROPERTIES ImplementsFifo
CHECK_DEADLOCK FALSE
