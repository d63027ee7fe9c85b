SPECIFICATION FairSpec
CONSTANTS
    t1 = t1
    t2 = t2
    t3 = t3
    Thread = {t1, t2, t3}
    None = None
    Count = 0
    AlwaysSignals = TRUE
    Generations = 16
    Scripts <- ScriptsSafe
INVARIANTS Consistent NoLostWakeup
PROPERTIES CallsReturn
CHECK_DEADLOCK FALSE
