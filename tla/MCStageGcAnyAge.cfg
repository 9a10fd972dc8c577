SPECIFICATION Spec
CONSTANTS
    s1 = s1
    s2 = s2
    g1 = g1
    g2 = g2
    Nobody = Nobody
    Session = {s1, s2}
    Collector = {g1, g2}
    AnyAge = TRUE
    MaxFaults = 1
CHECK_DEADLOCK FALSE
INVARIANTS
    ActiveIsWhole
