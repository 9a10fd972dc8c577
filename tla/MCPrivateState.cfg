SPECIFICATION StateSpec
CONSTANTS
    Run = {r1}
    Nobody = Nobody
    Absent = Absent
    Session = {s1, s2}
    Collector = {g1, g2}
    AnyAge = FALSE
    MaxFaults = 2
    Proc = {p1, p2}
    Name = {n1, n2}
    Version = {v1, v2}
    Files = 1
    MaxNames = 1
    MaxVersions = 1
    MaxInstalls = 2
    MaxErrors = 1
    MaxLosses = 1
    Remover = {u1, u2}
    MaxInodes = 4
    MaxMishaps = 1
CHECK_DEADLOCK FALSE
SYMMETRY Symmetry
INVARIANTS
    ActiveIsWhole
    InstallationsSafe
    
    TypesOK
PROPERTIES
    PublicationKept
    RollbackExact
