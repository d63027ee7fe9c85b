SPECIFICATION Spec
CONSTANTS
    t1 = t1
    t2 = t2
    t3 = t3
    t4 = t4
    None = None
    Thread = {t1, t2, t3, t4}
    Roles <- RolesTry
INVARIANTS MutualExclusion
