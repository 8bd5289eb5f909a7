\* The machines of the client that have to arrive somewhere, each from its start under
\* its own fairness, the others at rest.
SPECIFICATION FairSpec
CONSTANTS
    MaxFiles = 1
    Slots = 1
    MaxHops = 0
    MaxImages = 1
    MaxAsks = 3
    MaxSwaps = 3
    MaxSaves = 1
    MaxOpens = 1
    MaxFrames = 1
    MaxMcpClips = 1
    MaxWaits = 1
    McpCap = 1
    MaxWorkerClips = 1
    MaxWorkerMoves = 1
    MaxVsKeys = 1
    MaxVsOpens = 1
    MaxVsFrames = 1
    UserText = {"a", "b"}
    OwnText = {"v", "w"}
    MaxHostSteps = 5
    MaxLines = 1
    MaxTyped = 3
    MaxTyping = 2
    MaxPointer = 6
    MaxVersion = 3
    MaxLoads = 3
    ToastMax = 2
    MaxToasts = 6
    MaxDialogs = 1
    BatchMax = 2
    MaxSseFrames = 3
PROPERTIES
    ConsentHolds
    HostListens
    PresenceSettles
    UpdatesOnAsking
    ToastsAreShown
    OutboxIsHonest
\* The machines have bounded inputs, and then rest.
CHECK_DEADLOCK FALSE
