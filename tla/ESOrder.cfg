SPECIFICATION Spec
CONSTANTS
    c1 = c1
    c2 = c2
    e1 = e1
    e2 = e2
    r1 = r1
    None = None
    Client = {c1, c2}
    Once = {e1, e2}
    Recurring = {r1}
    OtherClock = {}
    Interval = 1
    MaxTime = 3
    Programs <- ProgramsLate
PROPERTIES InOrder
