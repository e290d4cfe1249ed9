SPECIFICATION RecordsSpec
CONSTANTS
    MovingParts = {"coordinator", "jobs", "guardian"}
    d1 = d1
    d2 = d2
    Digests = {d1, d2}
    NoDigest = NoDigest
    Threshold = 3
    Thresholds = {2, 3}
    Channel = "stable"
    MaxBoots = 5
    MaxTracked = 3
    MaxJobStarts = 4
    MaxSameReading = 2
    Repairs = {"audio", "dns"}
    AutomaticRepairs = {"dns"}
    GuardianProcesses = {"check"}
    HubThreads = {"h1", "h2"}
    PendingWindow = 2
    Cooldown = 2
    HistoryCap = 3
    MaxGuardianClock = 5
    MaxGuardianOps = 4
CHECK_DEADLOCK FALSE
INVARIANTS
    RecordsTypeOK
    QuarantineEarned TallyIsBootCount QuarantineComes
    StoreConsistent UntrackedAreSignalled
    RepairsGuarded DismissedStaysHidden
PROPERTIES
    EvidenceKept
    CancelSticks
