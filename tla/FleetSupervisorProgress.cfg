SPECIFICATION Spec
CONSTANTS
    N = 2
    PollSlots = {poll}
    HostSlots = 2
    MaxBackoff = 1
    Fallback = 1
    ServerTimes = {0}
    FailureCap = 0
    MaxLimits = 1
PROPERTIES
    DownRepositoriesRetry
    CancellationEndsTheFleet
