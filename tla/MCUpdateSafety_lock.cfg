SPECIFICATION Spec
CONSTANTS
    good = good
    bad = bad
    bad2 = bad2
    r1 = r1
    r2 = r2
    Digests = {good, bad}
    NoDigest = NoDigest
    Threshold = 3
    Thresholds = {3}
    Channel = "stable"
    MaxBoots = 4
    Bad = {bad}
    Flaky = {}
    Older <- MCOlder
    AllowDowngrade = {FALSE}
    RingConfig = "follow-image"
    HooksWired = TRUE
    Recorders = {r1}
    Updaters = {"safe-upgrade"}
    AdminActs = FALSE
    MaxFaults = 0
    MaxPowerLoss = 0
CHECK_DEADLOCK FALSE
INVARIANT
    BootcWritersExclusive
