\* Two joins retire one expired room; the second forgets the first one's new room.
SPECIFICATION Spec
CONSTANTS
    c1 = c1
    c2 = c2
    c3 = c3
    c4 = c4
    h1 = h1
    h2 = h2
    i1 = i1
    i2 = i2
    t1 = t1
    None = None
    Sweeper = Sweeper
    Ip = {i1, i2}
    Token = {t1}
    Conn = {c1, c2, c3}
    Hash = {h1}
    OriginId = {}
    KindOf <- AllWs
    IpOf <- OneIp
    TokenOf <- NoTokens
    Vouched = {c1, c2, c3}
    Flaky = {}
    MaxPeers = 3
    MaxRooms = 1
    MaxConnsPerIp = 0
    RoomTTL = 1
    MayExpire = TRUE
    QueueMax = 2
    MaxFrames = 0
INVARIANTS
    NoOrphans
SYMMETRY Alike
\* With nobody left to connect, the relay waits for ever.
CHECK_DEADLOCK FALSE
