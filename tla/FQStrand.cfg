SPECIFICATION Spec
CONSTANTS
    t1 = t1
    t2 = t2
    t3 = t3
    Thread = {t1, t2, t3}
    Roles <- RolesStrand
    Capacity = 1
    NumIndices = 16
    StartIndex = 6
    MaxCalls = 2
INVARIANTS NoStrandedPopper
CHECK_DEADLOCK FALSE
