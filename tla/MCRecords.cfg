SPECIFICATION RecordsSpec
CONSTANTS
    r1 = r1
    r2 = r2
    Nobody = Nobody
    Run = {r1, r2}
    Rank = {1, 2, 3, 4}
    MaxEvents = 2
    MaxPerAudit = 3
    MaxLines = 3
    MaxPowerLoss = 1
    Scheduled = {r1}
    Audit = {1, 2, 3}
    Seconds = {1, 2}
    Limits = {0, 1, 2}
    MaxCandidates = 2
    MaxReadBytes = 4
CHECK_DEADLOCK FALSE
INVARIANTS
    IndexSound
    AuditAccounted
    QueriesExact
PROPERTIES
    UpdateEnds
