SPECIFICATION Spec
CONSTANTS
    Tasks = {t1}
    MaxAttempts = 1
    MaxTroubles = 4
INVARIANTS
    AgentsHaveOpenRuns
PROPERTIES
    StartSettlesBoxes
    KeepsBoxes
    RunsEnd
CHECK_DEADLOCK FALSE
