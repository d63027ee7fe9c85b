SPECIFICATION FairSpec
CONSTANTS
    c1 = c1
    c2 = c2
    j1 = j1
    j2 = j2
    j3 = j3
    j4 = j4
    Thread = {t1, t2, t3}
    Job = {j1, j2, j3, j4}
    Null = Null
    Caller = {c1, c2}
    Scripts <- ScriptsSafe
    MinThreads = 2
    MaxThreads = 3
    MayFail = TRUE
INVARIANTS Consistent NoSleeperWithBacklog EnoughThreads
PROPERTIES ReturnsWhenDone Progress
