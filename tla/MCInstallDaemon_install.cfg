SPECIFICATION FairSpec
CONSTANTS
    Clients = {c1, c2}
    Streams = {}
    PHASES <- AllPhases
    MaxHistory = 7
    MaxJobs = 2
INVARIANTS TypeOK StorageExclusive TransactionAgrees
PROPERTIES ImplementsSlot JobEnds
