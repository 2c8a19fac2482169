SPECIFICATION Spec
CONSTANTS
    MaxAttempts = 1
    MaxMoves = 6
    MaxTroubles = 2
INVARIANTS
    LaunchesAreCurrent
PROPERTIES
    TasksSettle
    EntriesAreServed
