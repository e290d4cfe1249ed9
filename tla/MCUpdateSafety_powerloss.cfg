SPECIFICATION Spec
CONSTANTS
    good = good
    bad = bad
    bad2 = bad2
    r1 = r1
    r2 = r2
    Digests = {good, bad}
    NoDigest = NoDigest
    Threshold = 3
    Thresholds = {3}
    Channel = "stable"
    MaxBoots = 5
    Bad = {bad}
    Flaky = {}
    Older <- MCOlder
    AllowDowngrade = {FALSE}
    RingConfig = "follow-image"
    HooksWired = TRUE
    Recorders = {r1}
    Updaters = {}
    AdminActs = FALSE
    MaxFaults = 0
    MaxPowerLoss = 1
CHECK_DEADLOCK FALSE
INVARIANT
    QuarantineTriggersRollback
