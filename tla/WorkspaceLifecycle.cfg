SPECIFICATION OneTaskSpec
CONSTANTS
    Tasks = {ticket, proposal}
    Tickets = {ticket}
    Tick = tick
    Operator = operator
    None = none
    Cap = 1
    MaxAttempts = 1
    MaxCrashes = 1
INVARIANTS
    LiveTasksKeepTheirWorkspace
    NoOrphanDirectories
PROPERTIES
    WorkIsNeverLost
    TerminalWorkspacesSettle
