\* Two relays behind one backend under a fair scheduler, and the machines that only
\* answer: each from its start, the others at rest.
SPECIFICATION FairSpec
CONSTANTS
    r1 = r1
    r2 = r2
    p = p
    q = q
    Replica = {r1, r2}
    At <- Apart
    MaxClips = 2
    MaxTrouble = 1
    MaxEvents = 2
    MaxExpiry = 1
    Window = 2
    Limit = 1
    MaxTicks = 5
    MaxSent = 4
    MaxFiles = 2
    Slots = 1
    MaxHops = 1
    MaxImages = 3
    MaxAsks = 1
    MaxSwaps = 1
    MaxSaves = 3
    MaxOpens = 3
    MaxFrames = 2
    MaxMcpClips = 4
    MaxWaits = 2
    McpCap = 2
    MaxWorkerClips = 2
    MaxWorkerMoves = 2
    MaxVsKeys = 1
    MaxVsOpens = 2
    MaxVsFrames = 1
    UserText = {"a"}
    OwnText = {"v"}
    MaxHostSteps = 1
    MaxLines = 4
    MaxClipsKept = 2
    MaxHistClips = 3
    MaxHistMoves = 4
    MaxSets = 5
    MaxVersion = 1
    MaxLoads = 1
    ToastMax = 1
    MaxToasts = 1
    MaxDialogs = 3
    Others = {o1, o2}
    o1 = o1
    o2 = o2
    MaxRosterMoves = 3
    MaxBanners = 4
    QrLengths = {0, 14, 15, 84, 107, 152, 180, 181, 213, 214}
INVARIANTS
    
    FairlyMetered
    FilesKept
    AgentsAreHonest
    StoreAgrees
    DialogsSettle
    NoticesAreTrue
    SymbolReads
PROPERTIES
    BackendHeals
\* The machines have bounded inputs, and then rest.
CHECK_DEADLOCK FALSE
