SPECIFICATION StoresSpec
CONSTANTS
    p1 = p1
    p2 = p2
    h1 = h1
    h2 = h2
    Nobody = Nobody
    Torn = Torn
    Process = {p1, p2}
    Host = {h1, h2}
    Grok = {1, 2, 3}
    MaxOutages = 1
    Times = {1, 2, 3, 4}
    Validity = 1
SYMMETRY ProcessSymmetry
INVARIANTS
    ReportedIsDurable
    
    CredentialFresh
PROPERTIES
    Atomic
