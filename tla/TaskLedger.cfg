SPECIFICATION FairSpec
CONSTANTS
    t1 = t1
    t2 = t2
    d1 = d1
    d2 = d2
    repo = repo
    ticket = ticket
    NoSource = NoSource
    Tasks = {t1, t2}
    Daemons = {d1, d2}
    Sources <- OnlyTicket
    SourceOf <- OneTicket
    RepositoryOf <- OneRepository
    ServedBy <- AllServe
    BranchOwned <- OwnsBranch
    MaxRecoveryAttempts = 1
    ContinuationLimit = 1
    MaxConcurrentRuns = 2
    MaxRuns = 2
INVARIANTS
    OneOpenRunPerRunningTask
    OneRunningTaskPerTicket
    StaleAgentsAreFenced
PROPERTIES
    OrphansAreRecovered
    LiveOwnersKeepTheirRuns
    LaunchedCancellationsHold
    ImplementsTaskQueue
CHECK_DEADLOCK FALSE
