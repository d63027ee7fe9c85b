SPECIFICATION FairSpec
CONSTANTS
    w1 = w1
    w2 = w2
    w3 = w3
    s1 = s1
    s2 = s2
    g1 = g1
    g2 = g2
    g3 = g3
    Waiter = {w1, w2}
    Signaler = {s1, s2}
    Generation = {g1, g2}
    None = None
INVARIANTS Consistent NoOvertaking
PROPERTIES SignaledLeave NoStarvation
