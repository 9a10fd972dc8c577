SPECIFICATION SessionSpec
CONSTANTS
    Nobody = Nobody
    Session = {s1, s2}
    Collector = {g1}
    AnyAge = FALSE
    MaxFaults = 1
    BaselineFiles = 2
    MaxTroubles = 1
    Client = {c1, c2}
    MaxRelays = 1
    Mode = {m1}
    MaxItems = 2
    MaxKeys = 2
    MaxUnread = 1
    DrainTicks = 2
    MaxMisfortunes = 1
CHECK_DEADLOCK FALSE
INVARIANTS
    RunContained
    RunAccountable
    
    
PROPERTIES
    EverythingReturns
    OrphansCollected
