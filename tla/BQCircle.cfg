SPECIFICATION Spec
CONSTANTS
    t1 = t1
    t2 = t2
    t3 = t3
    va = va
    vb = vb
    vc = vc
    Thread = {t1, t2, t3}
    None = None
    Value = {va, vb, vc}
    NoValue = NoValue
    Capacity = 2
    Circle = 4
    Scripts <- ScriptsCircle
PROPERTIES EmptyReported
CHECK_DEADLOCK FALSE
