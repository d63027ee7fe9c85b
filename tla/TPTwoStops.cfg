SPECIFICATION Spec
CONSTANTS
    c1 = c1
    c2 = c2
    j1 = j1
    j2 = j2
    j3 = j3
    j4 = j4
    Thread = {t1, t2}
    Job = {j1}
    Null = Null
    Caller = {c1, c2}
    Scripts <- ScriptsTwoStops
    MinThreads = 1
    MaxThreads = 2
    MayFail = FALSE
INVARIANTS MinThreadsMaintained
