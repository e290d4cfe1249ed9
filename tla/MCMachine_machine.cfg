SPECIFICATION MachineSpec
CONSTANTS
    good = good
    bad = bad
    bad2 = bad2
    r1 = r1
    r2 = r2
    Digests = {good, bad}
    NoDigest = NoDigest
    Threshold = 1
    Thresholds = {1}
    Channel = "stable"
    MaxBoots = 2
    Bad = {bad}
    Flaky = {}
    Older <- MCOlder
    AllowDowngrade = {FALSE, TRUE}
    RingConfig = "follow-image"
    HooksWired = TRUE
    Recorders = {r1}
    Updaters = {"safe-upgrade", "watcher", "switch"}
    AdminActs = TRUE
    MaxFaults = 0
    MaxPowerLoss = 1
CHECK_DEADLOCK FALSE
INVARIANTS
    StagingExclusive
    ChecksStayValid
PROPERTIES
    ImplementsCoordinator
