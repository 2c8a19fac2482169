SPECIFICATION Spec
CONSTANTS
    a = a
    b = b
    waiting = waiting
    later = later
    Daemons = {d1, d2}
    Orphans = {orphan}
    Tickets = {a, b}
    Followers = {waiting, later}
    Blockers <- AllBlockers
    Reachable <- AllReachable
    NoTicket = NoTicket
    InitialLane <- AllAutonomous
    Delivered = {a, b}
    Opened <- SomeOpened
    Branched = {a}
    MaxContinuations = 1
    MaxChanges = 1
    MaxTroubles = 1
INVARIANTS
    ReleasedTasksAreUnblocked
    MergesReleaseDependents
PROPERTIES
    MergesAreProjected
    ImplementsMergeProjection
