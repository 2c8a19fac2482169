SPECIFICATION Spec
CONSTANTS
    MaxAttempts = 2
    MaxTroubles = 1
INVARIANTS
    AgentsAreAnchored
    SignalsStayHome
    RequestsBind
PROPERTIES
    ExecutionsEnd
