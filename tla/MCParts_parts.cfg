SPECIFICATION PartsSpec
CONSTANTS
    MovingParts = {"stream", "journal", "editor", "tunnels", "lockdown"}
    Clients = {c1}
    Streams = {s1}
    PHASES <- FewPhases
    MaxHistory = 2
    MaxJobs = 2
    InstallModes = {"wipe", "alongside", "manual", "free_space", "resize_ntfs"}
    EspMountedChoices = {TRUE, FALSE}
    DiskSize = 16
    FreeTail = 5
    Deltas = {4, 5}
    MinKyth = 4
    MinWindows = 6
    BiosBoot = 1
    MaxAttempts = 3
    MaxStepFaults = 2
    MaxJournalPowerLoss = 1
    MaxCorruptions = 1
    EditorDisk <- SomeDisk
    EditorEnd = 12
    EditorInUse = {1}
    StagedCreates <- SomeCreates
    StagedEdits <- SomeEdits
    PrimaryLimit = 3
    MaxPending = 3
    MaxRequests = 5
    MaxCommits = 2
    MaxToolFaults = 2
    MaxCallbacks = 2
    MaxGenerations = 4
    MaxLockdownGenerations = 3
    MaxPresetFlips = 1
CHECK_DEADLOCK FALSE
INVARIANTS
    PartsTypeOK
    LayoutSound JournalIsDurable SightedShrinkOnce FailureUndone
    RestoredOrFlagged ValidatedRuns CommitProjects
    ConnectionAccounted BlockIsReported
PROPERTIES
    StreamInOrder
    CompletionsKept
    NewestSpared
