\* A socket and an event stream, either of them slow, in a session with a lifetime
\* cap and under a fair scheduler: overflow, POSTs that outlive their stream,
\* departures announced by a task of their own, and retirement by joins and by the
\* sweeper at once.
SPECIFICATION FairSpec
CONSTANTS
    c1 = c1
    c2 = c2
    c3 = c3
    c4 = c4
    h1 = h1
    h2 = h2
    i1 = i1
    i2 = i2
    t1 = t1
    None = None
    Sweeper = Sweeper
    Ip = {i1, i2}
    Token = {t1}
    Conn = {c1, c2}
    Hash = {h1}
    OriginId = {}
    KindOf <- TwoSse
    IpOf <- OneIp
    TokenOf <- NoTokens
    Vouched = {c1, c2}
    Flaky = {c1}
    MaxPeers = 3
    MaxRooms = 1
    MaxConnsPerIp = 0
    RoomTTL = 1
    MayExpire = TRUE
    QueueMax = 1
    MaxFrames = 1
INVARIANTS
    TypeOK
    IpCountsExact
PROPERTIES
    RoomsDrain
    ExpiredRoomsEnd
    HandlersReturn
\* With nobody left to connect, the relay waits for ever.
CHECK_DEADLOCK FALSE
