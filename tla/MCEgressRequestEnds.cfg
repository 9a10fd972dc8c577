SPECIFICATION FairSpec
CONSTANTS
    c1 = c1
    c2 = c2
    c3 = c3
    listed = listed
    h1 = h1
    h2 = h2
    Nobody = Nobody
    Conn <- TwoConns
    Host = {listed, h1, h2}
    Allowlist = {listed}
    MaxConn = 2
    MaxPrompts = 2
CHECK_DEADLOCK FALSE
PROPERTIES
    RequestEnds
