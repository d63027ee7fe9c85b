SPECIFICATION FairSpec
CONSTANTS
    c1 = c1
    c2 = c2
    w1 = w1
    w2 = w2
    j1 = j1
    j2 = j2
    j3 = j3
    None = None
    Client = {c1, c2}
    Worker = {w1, w2}
    Job = {j1, j2, j3}
    NumQueues = 2
    Created = 2
    Programs <- ProgramsShutdownPause
    Ownership = {TRUE}
INVARIANTS NoUseAfterRelease
