SPECIFICATION Spec
CONSTANTS
    N = 2
    PollSlots = {poll}
    HostSlots = 2
    MaxBackoff = 1
    Fallback = 1
    ServerTimes = {0, 2}
    FailureCap = 0
    MaxLimits = 2
INVARIANTS
    ServingFleetsDrain
PROPERTIES
    PauseBinds
