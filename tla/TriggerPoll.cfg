SPECIFICATION Spec
CONSTANTS
    event = event
    state = state
    p1 = p1
    p2 = p2
    Tickets <- BothKinds
    EventTickets <- OnlyEvent
    Pollers <- TwoPollers
    MaxEntries = 2
INVARIANTS
    OneTaskPerEntry
