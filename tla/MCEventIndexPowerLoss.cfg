SPECIFICATION Spec
CONSTANTS
    r1 = r1
    r2 = r2
    Nobody = Nobody
    Run = {r1, r2}
    Rank = {1, 2, 3, 4}
    MaxEvents = 3
    MaxPerAudit = 3
    MaxLines = 1
    MaxPowerLoss = 1
    Scheduled = {}
CHECK_DEADLOCK FALSE
INVARIANTS
    EventsHaveAudit
