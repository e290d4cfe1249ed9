SPECIFICATION Spec
CONSTANTS
    good = good
    bad = bad
    bad2 = bad2
    r1 = r1
    r2 = r2
    Digests = {good, bad, bad2}
    NoDigest = NoDigest
    Threshold = 3
    Thresholds = {3}
    Channel = "stable"
    MaxBoots = 5
    Bad = {bad}
    Flaky = {}
    Older <- MCOlder
    AllowDowngrade = {FALSE}
    RingConfig = "follow-image"
    HooksWired = TRUE
    Recorders = {r1}
    Updaters = {"watcher"}
    AdminActs = FALSE
    MaxFaults = 0
    MaxPowerLoss = 0
CHECK_DEADLOCK FALSE
PROPERTY
    NeverStagesQuarantined
