SPECIFICATION Spec
CONSTANTS
    p1 = p1
    p2 = p2
    h1 = h1
    h2 = h2
    Nobody = Nobody
    Torn = Torn
    Process = {p1, p2}
    Host = {h1, h2}
INVARIANTS
    FailureWidensNothing
