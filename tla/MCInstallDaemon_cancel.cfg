SPECIFICATION FairSpec
CONSTANTS
    Clients = {c1, c2}
    Streams = {}
    PHASES <- FewPhases
    MaxHistory = 7
    MaxJobs = 2
PROPERTIES CancelHitsItsJob
