SPECIFICATION WorkspaceSpec
CONSTANTS
    d1 = d1
    d2 = d2
    N = 2
    Dirs <- MCDirs
    Chain <- MCChain
    MaxHostOps = 2
    Order <- MCOrder
    Above <- MCAbove
    Tracked = {"a"}
    DeniedSets = {{}, {"d"}}
    MaxFiles = 3
    MaxFileBytes = 2
    MaxTotalBytes = 3
    MaxEdits = 2
    MaxClock = 1
    Exporter = {x1, x2}
    Entries <- MCEntries
    Under <- MCAbove
    GitPath = ".git"
    Contents = {1, 2, 3}
INVARIANTS
    BaselineRecoverable
    AppliedExactly
    RollbackRestores
    HostWorkSurvives
    InstalledIsReviewed
    StagedFaithful
    ExportFaithful
PROPERTIES
    NeverOverwrites
    ApplyTerminates
    DestinationKept
