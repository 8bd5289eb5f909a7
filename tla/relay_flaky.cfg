\* Writes to one of three sockets may miss their deadline: a peer the relay has
\* dropped and still listens to, among two others.
SPECIFICATION Spec
CONSTANTS
    c1 = c1
    c2 = c2
    c3 = c3
    c4 = c4
    h1 = h1
    h2 = h2
    i1 = i1
    i2 = i2
    t1 = t1
    None = None
    Sweeper = Sweeper
    Ip = {i1, i2}
    Token = {t1}
    Conn = {c1, c2, c3}
    Hash = {h1}
    OriginId = {}
    KindOf <- AllWs
    IpOf <- OneIp
    TokenOf <- NoTokens
    Vouched = {c1, c2, c3}
    Flaky = {c1}
    MaxPeers = 3
    MaxRooms = 1
    MaxConnsPerIp = 0
    RoomTTL = 1
    MayExpire = FALSE
    QueueMax = 2
    MaxFrames = 1
INVARIANTS
    NoOrphans
    Informed
SYMMETRY Alike23
\* With nobody left to connect, the relay waits for ever.
CHECK_DEADLOCK FALSE
