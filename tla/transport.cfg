\* A network that blocks WebSockets: one session and a rejoin, a pin or a close,
\* and a fault at any moment.
SPECIFICATION FairSpec
CONSTANTS
    Conn = {"s1", "s2"}
    None = None
    Passes = {"sse"}
    SwitchAfter = 2
    IdTries = 1
    MaxSession = 2
    MaxCalls = 1
    MaxFaults = 1
INVARIANTS
    AttemptsInOrder
PROPERTIES
    FindsWhatWorks
CHECK_DEADLOCK FALSE
