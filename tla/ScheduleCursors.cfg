SPECIFICATION FairSpec
CONSTANTS
    a = a
    b = b
    c = c
    once = once
    old = old
    new = new
    Owners <- Handover
    OneShots <- OnceOnly
    Definitions <- OldAndNew
    None = None
    Definition <- OneDefinitionEach
    Period <- Periods
    MaxTime = 2
INVARIANTS
    LiveOwnersAgree
PROPERTIES
    NoServedInstantSkipped
    DueInstantsFire
CHECK_DEADLOCK FALSE
