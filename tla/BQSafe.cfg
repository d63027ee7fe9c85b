SPECIFICATION FairSpec
CONSTANTS
    t1 = t1
    t2 = t2
    t3 = t3
    va = va
    vb = vb
    vc = vc
    Thread = {t1, t2, t3}
    None = None
    Value = {va, vb, vc}
    NoValue = NoValue
    Capacity = 2
    Circle = 4
    Scripts <- ScriptsSafe
INVARIANTS Consistent
PROPERTIES ImplementsFifo EmptyReported CallsReturn
CHECK_DEADLOCK FALSE
