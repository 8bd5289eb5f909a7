\* Four devices, all but one with a token, two names but room for one room of two
\* peers, and an id they all ask for:
\* joining, being refused, claiming, leaving, eviction.
SPECIFICATION Spec
CONSTANTS
    c1 = c1
    c2 = c2
    c3 = c3
    c4 = c4
    h1 = h1
    h2 = h2
    i1 = i1
    i2 = i2
    t1 = t1
    None = None
    Sweeper = Sweeper
    Ip = {i1, i2}
    Token = {t1}
    Conn = {c1, c2, c3, c4}
    Hash = {h1, h2}
    OriginId = {x}
    KindOf <- AllWs
    IpOf <- OneOfTwo
    TokenOf <- OneOpen
    Vouched = {c1, c2, c3, c4}
    Flaky = {}
    MaxPeers = 2
    MaxRooms = 1
    MaxConnsPerIp = 1
    RoomTTL = 2
    MayExpire = FALSE
    QueueMax = 2
    MaxFrames = 2
INVARIANTS
    PeerIdsUnique
    OneToken
PROPERTIES
    EvictedOnlyAfterTTL
    KeepsMembership
SYMMETRY AlikeRooms
\* With nobody left to connect, the relay waits for ever.
CHECK_DEADLOCK FALSE
