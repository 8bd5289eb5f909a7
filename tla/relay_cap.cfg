\* Rooms with a lifetime cap and a relay that has room for one of two names: a join
\* that waits for a room to be retired while the sweeper retires it and another
\* device takes the place.
SPECIFICATION Spec
CONSTANTS
    c1 = c1
    c2 = c2
    c3 = c3
    c4 = c4
    h1 = h1
    h2 = h2
    i1 = i1
    i2 = i2
    t1 = t1
    None = None
    Sweeper = Sweeper
    Ip = {i1, i2}
    Token = {t1}
    Conn = {c1, c2, c3}
    Hash = {h1, h2}
    OriginId = {}
    KindOf <- AllWs
    IpOf <- OneIp
    TokenOf <- NoTokens
    Vouched = {c1, c2, c3}
    Flaky = {}
    MaxPeers = 3
    MaxRooms = 1
    MaxConnsPerIp = 2
    RoomTTL = 2
    MayExpire = TRUE
    QueueMax = 2
    MaxFrames = 1
INVARIANTS
    Ceilings
PROPERTIES
    OnlyEmpties
SYMMETRY AlikeNames
\* With nobody left to connect, the relay waits for ever.
CHECK_DEADLOCK FALSE
