SPECIFICATION ServicesSpec
CONSTANTS
    MovingParts = {"recovery", "sched", "updates"}
    good = good
    bad = bad
    bad2 = bad2
    r1 = r1
    r2 = r2
    Digests = {good, bad, bad2}
    NoDigest = NoDigest
    Threshold = 3
    Thresholds = {3}
    Channel = "stable"
    MaxBoots = 10
    Bad = {bad, bad2}
    Flaky = {}
    Older <- MCOlder
    AllowDowngrade = {FALSE}
    RingConfig = "follow-image"
    HooksWired = TRUE
    Recorders = {r1}
    Updaters = {}
    AdminActs = FALSE
    MaxFaults = 2
    MaxPowerLoss = 0
    RetryPolls = 1
    CachePolls = 2
    MaxSchedEvents = 3
    SchedConfigs <- SomeSchedConfigs
    Settings = {"power_profile", "blur"}
    UnsetSettings = {"blur"}
    UpdateOps = {"stage", "rollback", "switch", "apply"}
    MaxUpdateJobs = 2
    MaxPercent = 1
    MaxLines = 2
    PipeRoom = 1
    MaxHubExits = 1
CHECK_DEADLOCK FALSE
INVARIANTS
    ServicesTypeOK
    RollbackFollows RollbackOnce
    
    HelperAccounted BarIsCurrent
PROPERTIES
    BadImageAbandoned
    SchedulerConverges
    SlotComesFree
