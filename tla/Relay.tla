-------------------------------- MODULE Relay --------------------------------
(***************************************************************************)
(* The relay of backend/main.py, running as one process: rooms, the peers  *)
(* in them, the frames it fans out, and the ways a room comes to an end.   *)
(*                                                                         *)
(* The relay is one asyncio loop, so a handler runs undisturbed from one   *)
(* suspension to the next.  An action below is such a stretch of a         *)
(* coroutine; `pc', `leave', `retiring' and `sweep' say where each one is  *)
(* suspended.  With no shared backend the awaits on `shared' return        *)
(* without suspending (backend/shared.py, `enabled' false).                *)
(*                                                                         *)
(* A connection is used once, and it creates at most one Room object and   *)
(* at most one eviction task, so both are named by the connection that     *)
(* created them.  A clip is its relay sequence number; a roster is the set *)
(* of peer ids in it.                                                      *)
(*                                                                         *)
(* A definition marked "Fault" belongs to no specification: it is the next *)
(* definition with a bug one could plausibly write, which some property    *)
(* below has to notice.                                                    *)
(***************************************************************************)
EXTENDS Integers, Sequences, FiniteSets

CONSTANTS
    Conn,           \* connections, each made once
    Hash,           \* room hashes
    Ip,             \* source addresses the relay counts
    Token,          \* admission tokens of locked sessions
    OriginId,       \* ids clients ask for in `hello'
    None,           \* Python's None, an empty token, an unknown address
    Sweeper,        \* the task of _sweep_expired
    KindOf,         \* "ws" or "sse", per connection
    IpOf,           \* its source address, or None
    TokenOf,        \* the token it presents, or None
    Vouched,        \* the connections that present the relay's join token
    Flaky,          \* the sockets a write to which may miss its deadline
    MaxPeers, MaxRooms, MaxConnsPerIp,
    RoomTTL,        \* ROOM_TTL_SECONDS, in ticks
    MayExpire,      \* MAX_SESSION_SECONDS is set
    QueueMax,       \* SSE_QUEUE_MAX
    MaxFrames       \* bound: inbound frames handled in a behaviour

Actor  == Conn \cup {Sweeper}
PeerId == Conn \cup OriginId      \* a provisional id is its connection
Task   == Conn \X {"serve", "leave"}

ASSUME ConstantsAssumption ==
    /\ IsFiniteSet(Conn) /\ IsFiniteSet(Hash)
    /\ OriginId \cap Conn = {}        \* a provisional id is fresh
    /\ None \notin Conn \cup Hash \cup Ip \cup Token \cup OriginId
    /\ Sweeper \notin Conn \cup {None}
    /\ KindOf \in [Conn -> {"ws", "sse"}]
    /\ IpOf \in [Conn -> Ip \cup {None}]
    /\ TokenOf \in [Conn -> Token \cup {None}]
    /\ Vouched \subseteq Conn /\ Flaky \subseteq Conn
    /\ MaxPeers \in Nat \ {0} /\ MaxRooms \in Nat \ {0}
    /\ MaxConnsPerIp \in Nat /\ RoomTTL \in Nat \ {0}
    /\ QueueMax \in Nat \ {0} /\ MaxFrames \in Nat /\ MayExpire \in BOOLEAN

VARIABLES
    \* The two tables of the process.
    rooms,      \* hash -> Room object, or None
    ipConns,    \* address -> live connections counted against it
    \* Room objects, by the connection whose join created them.
    peers, seq, last, author, auth, evict, expired,
    idle,       \* the clock of a reachable room: ticks it has been empty
    \* Eviction tasks, by the connection whose departure created them.
    timer,      \* ticks left to sleep, or -1: never started, done, cancelled
    \* Connections and their coroutines.
    at,         \* the hash asked for
    room,       \* the Room object its handler captured
    id,         \* its peer id
    line,       \* "down", "opening", "up", "closing", "ended"
    pc,         \* where its handler is
    leave,      \* where its departure is: "no", "due", "fanout", "done"
    posting,    \* SSE only: a POST is being handled
    \* Frames on their way out.
    writes,     \* per recipient, written and not yet taken, oldest first
    bad,        \* per task, the recipients its current fan-out failed
    told,       \* the roster the client was last sent
    held,       \* the clip the client last sent or was sent
    \* _retire and _sweep_expired.
    retiring,   \* the room an actor is retiring, or None
    todo,       \* the peers it has yet to disconnect
    sweep,      \* the rooms left in the sweeper's snapshot
    frames      \* inbound frames handled so far

tables     == <<rooms, ipConns>>
clipVars   == <<seq, last, author>>
roomVars   == <<peers, auth, evict, idle, timer>>
connVars   == <<at, room, id, line, posting>>
coVars     == <<pc, leave>>
wireVars   == <<writes, bad>>
clientVars == <<told, held>>
retireVars == <<retiring, todo, sweep, expired>>
vars == <<tables, clipVars, roomVars, connVars, coVars, wireVars, clientVars,
          retireVars, frames>>

-----------------------------------------------------------------------------
(* Frames and fan-out *)

Frame == [by: Task, t: {"clip", "peers", "welcome", "wide", "direct", "reply"},
          n: Nat, list: SUBSET PeerId, from: PeerId \cup {None}]

ClipFrame(k, n)     == [by |-> k, t |-> "clip", n |-> n, list |-> {}, from |-> None]
\* Fault: a roster without the peer that announces it.
OthersFrame(k, ids) ==
    [by |-> k, t |-> "peers", n |-> 0, list |-> ids \ {id[k[1]]}, from |-> None]

PeersFrame(k, ids)  == [by |-> k, t |-> "peers", n |-> 0, list |-> ids, from |-> None]
StampedFrame(k, t)  == [by |-> k, t |-> t, n |-> 0, list |-> {}, from |-> id[k[1]]]
ReplyFrame(k)       == [by |-> k, t |-> "reply", n |-> 0, list |-> {}, from |-> None]

Roster(P) == {id[p] : p \in P}

\* Where a handler is once it has fanned out to T: with no targets,
\* _broadcast returns at once.
After(T) == IF T = {} THEN "read" ELSE "fanout"

\* A write to a socket is waited for; one to an event stream is queued, and
\* fails at once when the queue is at its limit (SseConnection.send_text).
Full(p) == KindOf[p] = "sse" /\ Len(writes[p]) >= QueueMax

\* Fault: a full queue is "never mind".
FanOutBestEffort(k, T, frame) ==
    /\ writes' = [p \in Conn |-> IF p \in T /\ ~Full(p)
                                 THEN Append(writes[p], frame) ELSE writes[p]]
    /\ bad' = [bad EXCEPT ![k] = {}]

\* Task k starts writing `frame' to every connection of T.
FanOut(k, T, frame) ==
    /\ writes' = [p \in Conn |-> IF p \in T /\ ~Full(p)
                                 THEN Append(writes[p], frame) ELSE writes[p]]
    /\ bad' = [bad EXCEPT ![k] = {p \in T : Full(p)}]

\* Fault: what is queued for an event stream is waited for, too.
SettledStreams(k) == \A p \in Conn : \A i \in DOMAIN writes[p] : writes[p][i].by # k

\* Every socket write of task k is over.
Settled(k) == \A p \in Conn : KindOf[p] = "ws" =>
                  \A i \in DOMAIN writes[p] : writes[p][i].by # k

\* _drop_peer for every connection of D: the peers left in the rooms, and the
\* counts, which never go below zero.
Without(r, D) == [peers EXCEPT ![r] = @ \ D]

\* Fault: a peer already gone is discharged again.
UnchargedAgain(r, D) == [i \in Ip |-> ipConns[i] - Cardinality({p \in D : IpOf[p] = i})]

Uncharged(r, D) == [i \in Ip |->
    LET n == Cardinality({p \in D \cap peers[r] : IpOf[p] = i})
    IN  IF ipConns[i] > n THEN ipConns[i] - n ELSE 0]

\* Fault: the count is left alone.
DropUncounted(r, D) == peers' = Without(r, D) /\ UNCHANGED ipConns

Drop(r, D) == peers' = Without(r, D) /\ ipConns' = Uncharged(r, D)

Live(r) == at[r] # None /\ rooms[at[r]] = r

-----------------------------------------------------------------------------
Init ==
    /\ rooms = [h \in Hash |-> None]
    /\ ipConns = [i \in Ip |-> 0]
    /\ peers = [r \in Conn |-> {}]
    /\ seq = [r \in Conn |-> 0]
    /\ last = [r \in Conn |-> 0]
    /\ author = [r \in Conn |-> None]
    /\ auth = [r \in Conn |-> None]
    /\ evict = [r \in Conn |-> None]
    /\ expired = [r \in Conn |-> FALSE]
    /\ idle = [r \in Conn |-> 0]
    /\ timer = [c \in Conn |-> -1]
    /\ at = [c \in Conn |-> None]
    /\ room = [c \in Conn |-> None]
    /\ id = [c \in Conn |-> c]
    /\ line = [c \in Conn |-> "down"]
    /\ pc = [c \in Conn |-> "new"]
    /\ leave = [c \in Conn |-> "no"]
    /\ posting = [c \in Conn |-> FALSE]
    /\ writes = [c \in Conn |-> <<>>]
    /\ bad = [k \in Task |-> {}]
    /\ told = [c \in Conn |-> {}]
    /\ held = [c \in Conn |-> 0]
    /\ retiring = [a \in Actor |-> None]
    /\ todo = [a \in Actor |-> {}]
    /\ sweep = {}
    /\ frames = 0

-----------------------------------------------------------------------------
(* Joining *)

\* The refusals that come before any room is looked up.
RefusedAtDoor(c) ==
    \/ c \notin Vouched
    \/ /\ MaxConnsPerIp > 0 /\ IpOf[c] # None
       /\ ipConns[IpOf[c]] >= MaxConnsPerIp

\* Fault: an open room admits any token.
AdmitsWhenOpen(c, r, P) == auth[r] \in {TokenOf[c], None}

\* Does room r, with the peers of P, accept the token of c?  (_admits)
Admits(c, r, P) == auth[r] = TokenOf[c] \/ (auth[r] = None /\ P = {})

\* Fault: one peer too many.
FullyTakenLate(r, P) == Cardinality(P[r]) > MaxPeers

FullyTaken(r, P) == Cardinality(P[r]) >= MaxPeers

\* The names a table of rooms has in use.
Used(table) == {h \in Hash : table[h] # None}

\* Fault: a join that has waited for a room to be retired counts on its place.
BusyUnwaited(h, table) ==
    /\ table[h] = None /\ Cardinality(Used(table)) >= MaxRooms
    /\ ~ \E c \in Conn : pc[c] = "retiring" /\ at[c] = h

\* Is the relay too full to create the room of this name?
Busy(h, table) == table[h] = None /\ Cardinality(Used(table)) >= MaxRooms

\* Fault: no replay for a late joiner.
WelcomeBlank(c, r, P) ==
    [by |-> <<c, "serve">>, t |-> "welcome", n |-> 0,
     list |-> Roster(P \cup {c}), from |-> None]

Welcome(c, r, P) ==
    [by |-> <<c, "serve">>, t |-> "welcome", n |-> last[r],
     list |-> Roster(P \cup {c}), from |-> None]

\* Fault: the countdown is left running.
AwakenLate(r) == UNCHANGED <<timer, evict>>

\* A room that was counting down to eviction is alive again.
Awaken(r) ==
    IF evict[r] # None /\ timer[evict[r]] >= 0
    THEN /\ timer' = [timer EXCEPT ![evict[r]] = -1]
         /\ evict' = [evict EXCEPT ![r] = None]
    ELSE UNCHANGED <<timer, evict>>

\* _join from its lookup of the room to the welcome, given the rooms `table',
\* the `lines', the peers P and the counts N that the lookup finds.
Enter(c, h, table, lines, P, N) ==
    LET r       == IF table[h] = None THEN c ELSE table[h]
        refused == Busy(h, table) \/ FullyTaken(r, P) \/ ~Admits(c, r, P[r])
    IN  \/ /\ refused
           /\ rooms' = table /\ peers' = P /\ ipConns' = N
           /\ pc' = [pc EXCEPT ![c] = "ended"]
           /\ line' = lines
           /\ UNCHANGED <<auth, evict, timer, idle, room, writes>>
        \/ /\ ~refused
           /\ rooms' = [table EXCEPT ![h] = r]
           /\ auth' = IF P[r] = {} THEN [auth EXCEPT ![r] = TokenOf[c]] ELSE auth
           /\ Awaken(r)
           /\ idle' = [idle EXCEPT ![r] = 0]
           /\ peers' = [P EXCEPT ![r] = @ \cup {c}]
           /\ ipConns' = [i \in Ip |-> IF i = IpOf[c] THEN N[i] + 1 ELSE N[i]]
           /\ room' = [room EXCEPT ![c] = r]
           /\ line' = [lines EXCEPT ![c] = IF KindOf[c] = "ws" THEN "up" ELSE "opening"]
           /\ writes' = [writes EXCEPT ![c] = Append(@, Welcome(c, r, P[r]))]
           /\ pc' = [pc EXCEPT ![c] = "welcome"]

\* Fault: a room keeps its name while somebody is left in it.
ForgottenEmpty(table, D) ==
    [h \in Hash |-> IF \E r \in D : at[r] = h /\ peers[r] = {} THEN None ELSE table[h]]

\* rooms.pop(room_hash) for the rooms of D: by name, whichever Room object has
\* it now.
Forgotten(table, D) ==
    [h \in Hash |-> IF \E r \in D : at[r] = h THEN None ELSE table[h]]

Forget(r) == Forgotten(rooms, {r})

JoinRefused(c, h) ==
    /\ pc[c] = "new" /\ RefusedAtDoor(c)
    /\ at' = [at EXCEPT ![c] = h]
    /\ pc' = [pc EXCEPT ![c] = "ended"]
    /\ UNCHANGED <<tables, clipVars, roomVars, room, id, line, posting, leave,
                   wireVars, clientVars, retireVars, frames>>

\* A join that finds no expired room, or an expired one with nobody in it,
\* which _retire forgets without suspending.
Join(c, h) ==
    LET stale == rooms[h] # None /\ expired[rooms[h]]
    IN  /\ pc[c] = "new" /\ ~RefusedAtDoor(c)
        /\ stale => peers[rooms[h]] = {}
        /\ at' = [at EXCEPT ![c] = h]
        /\ last' = IF stale THEN [last EXCEPT ![rooms[h]] = 0] ELSE last
        /\ Enter(c, h, IF stale THEN Forget(rooms[h]) ELSE rooms, line, peers, ipConns)
        /\ UNCHANGED <<seq, author, id, posting, leave, bad, clientVars, retireVars, frames>>

\* A join that finds an expired room with peers suspends inside _retire.
JoinExpired(c, h) ==
    LET r == rooms[h]
    IN  /\ pc[c] = "new" /\ ~RefusedAtDoor(c)
        /\ r # None /\ expired[r] /\ peers[r] # {}
        /\ at' = [at EXCEPT ![c] = h]
        /\ retiring' = [retiring EXCEPT ![c] = r]
        /\ todo' = [todo EXCEPT ![c] = peers[r]]
        /\ pc' = [pc EXCEPT ![c] = "retiring"]
        /\ UNCHANGED <<tables, clipVars, roomVars, room, id, line, posting, leave,
                       wireVars, clientVars, sweep, expired, frames>>

\* The welcome is out: tell everyone else.
Welcomed(c) ==
    LET k == <<c, "serve">>  r == room[c]
    IN  /\ pc[c] = "welcome" /\ Settled(k)
        /\ FanOut(k, peers[r] \ {c}, PeersFrame(k, Roster(peers[r])))
        /\ pc' = [pc EXCEPT ![c] = After(peers[r] \ {c})]
        /\ UNCHANGED <<tables, clipVars, roomVars, connVars, leave, clientVars,
                       retireVars, frames>>

-----------------------------------------------------------------------------
(* Writes reaching clients, or not *)

\* The client takes the oldest frame written to it.
Deliver(p) ==
    LET f == Head(writes[p])
    IN  /\ writes[p] # <<>> /\ line[p] = "up"
        /\ writes' = [writes EXCEPT ![p] = Tail(@)]
        /\ told' = IF f.t \in {"peers", "welcome"} THEN [told EXCEPT ![p] = f.list] ELSE told
        /\ held' = IF f.t \in {"clip", "welcome"} THEN [held EXCEPT ![p] = f.n] ELSE held
        /\ UNCHANGED <<tables, clipVars, roomVars, connVars, coVars, bad, retireVars, frames>>

\* A write to a socket whose far end has gone: accepted, and taken by nobody.
Lost(p) ==
    /\ writes[p] # <<>> /\ KindOf[p] = "ws" /\ line[p] # "up"
    /\ writes' = [writes EXCEPT ![p] = Tail(@)]
    /\ UNCHANGED <<tables, clipVars, roomVars, connVars, coVars, bad, clientVars,
                   retireVars, frames>>

\* A socket write that fails or misses PEER_WRITE_TIMEOUT.  The writes to one
\* socket queue on its lock, so the oldest is the first to run out of time;
\* the welcome, first on a new socket, waits for nobody and needs a dead one.
\* _broadcast and _forward note the failure; _send on its own ignores it.
WriteFails(p) ==
    LET f == Head(writes[p])
    IN  /\ writes[p] # <<>> /\ KindOf[p] = "ws" /\ p \in Flaky
        /\ f.t = "welcome" => line[p] # "up"
        /\ writes' = [writes EXCEPT ![p] = Tail(@)]
        /\ bad' = IF f.t \in {"welcome", "reply"} THEN bad
                  ELSE [bad EXCEPT ![f.by] = @ \cup {p}]
        /\ UNCHANGED <<tables, clipVars, roomVars, connVars, coVars, clientVars,
                       retireVars, frames>>

\* The gather of _broadcast returns: drop what failed, say nothing.
FanOutDone(c) ==
    LET k == <<c, "serve">>
    IN  /\ pc[c] = "fanout" /\ Settled(k)
        /\ Drop(room[c], bad[k])
        /\ bad' = [bad EXCEPT ![k] = {}]
        /\ pc' = [pc EXCEPT ![c] = "read"]
        /\ UNCHANGED <<rooms, clipVars, auth, evict, idle, timer, connVars, leave,
                       writes, clientVars, retireVars, frames>>

-----------------------------------------------------------------------------
(* Inbound frames: _handle_raw *)

\* A socket's loop reads on as long as the socket lives.  A POST finds its
\* peer once, and then handles every line it carries.
Reading(c) ==
    /\ pc[c] = "read" /\ frames < MaxFrames
    /\ IF KindOf[c] = "ws" THEN line[c] = "up" ELSE posting[c]

PostBegins(c) ==
    /\ KindOf[c] = "sse" /\ pc[c] = "read" /\ ~posting[c]
    /\ line[c] = "up" /\ frames < MaxFrames
    /\ rooms[at[c]] = room[c] /\ c \in peers[room[c]]
    /\ posting' = [posting EXCEPT ![c] = TRUE]
    /\ UNCHANGED <<tables, clipVars, roomVars, at, room, id, line, coVars, wireVars,
                   clientVars, retireVars, frames>>

PostEnds(c) ==
    /\ posting[c] /\ pc[c] = "read"
    /\ posting' = [posting EXCEPT ![c] = FALSE]
    /\ UNCHANGED <<tables, clipVars, roomVars, at, room, id, line, coVars, wireVars,
                   clientVars, retireVars, frames>>

\* A clip: numbered, kept for late joiners, sent to everyone else.
Clip(c) ==
    LET k == <<c, "serve">>  r == room[c]
    IN  /\ Reading(c)
        /\ seq' = [seq EXCEPT ![r] = @ + 1]
        /\ last' = [last EXCEPT ![r] = seq[r] + 1]
        /\ author' = [author EXCEPT ![r] = c]
        /\ held' = [held EXCEPT ![c] = seq[r] + 1]
        /\ FanOut(k, peers[r] \ {c}, ClipFrame(k, seq[r] + 1))
        /\ pc' = [pc EXCEPT ![c] = After(peers[r] \ {c})]
        /\ frames' = frames + 1
        /\ UNCHANGED <<tables, roomVars, connVars, leave, told, retireVars>>

\* cursor, stream, verify, file-meta, file-gone: stamped and sent on.
RoomWide(c) ==
    LET k == <<c, "serve">>
    IN  /\ Reading(c)
        /\ FanOut(k, peers[room[c]] \ {c}, StampedFrame(k, "wide"))
        /\ pc' = [pc EXCEPT ![c] = After(peers[room[c]] \ {c})]
        /\ frames' = frames + 1
        /\ UNCHANGED <<tables, clipVars, roomVars, connVars, leave, clientVars, retireVars>>

\* rtc-* and file-*: stamped and sent to the one peer named (_forward).
Forward(c, p) ==
    LET k == <<c, "serve">>
    IN  /\ Reading(c) /\ p \in peers[room[c]]
        /\ FanOut(k, {p}, StampedFrame(k, "direct"))
        /\ pc' = [pc EXCEPT ![c] = "forward"]
        /\ frames' = frames + 1
        /\ UNCHANGED <<tables, clipVars, roomVars, connVars, leave, clientVars, retireVars>>

\* A failed forward drops the recipient, and this time tells the room.
ForwardDone(c) ==
    LET k == <<c, "serve">>  r == room[c]
    IN  /\ pc[c] = "forward" /\ Settled(k)
        /\ Drop(r, bad[k])
        /\ IF bad[k] = {}
           THEN pc' = [pc EXCEPT ![c] = "read"] /\ UNCHANGED wireVars
           ELSE /\ FanOut(k, peers[r] \ bad[k], PeersFrame(k, Roster(peers[r] \ bad[k])))
                /\ pc' = [pc EXCEPT ![c] = After(peers[r] \ bad[k])]
        /\ UNCHANGED <<rooms, clipVars, auth, evict, idle, timer, connVars, leave,
                       clientVars, retireVars, frames>>

\* ping, and whatever is answered with an error: a frame back to its sender.
Answer(c) ==
    LET k == <<c, "serve">>
    IN  /\ Reading(c)
        /\ FanOut(k, {c}, ReplyFrame(k))
        /\ pc' = [pc EXCEPT ![c] = "answer"]
        /\ frames' = frames + 1
        /\ UNCHANGED <<tables, clipVars, roomVars, connVars, leave, clientVars, retireVars>>

\* Fault: an id is adopted unseen.
TakenNever(r, wanted) == FALSE

Taken(r, wanted) == \E p \in peers[r] : id[p] = wanted

\* hello that gets the id it wants, or one that only changes the nickname.
Hello(c, wanted) ==
    LET k == <<c, "serve">>  P == peers[room[c]]
    IN  /\ Reading(c)
        /\ wanted # id[c] => ~Taken(room[c], wanted)
        /\ id' = [id EXCEPT ![c] = wanted]
        /\ FanOut(k, P, PeersFrame(k, {id'[p] : p \in P}))
        /\ pc' = [pc EXCEPT ![c] = After(P)]
        /\ frames' = frames + 1
        /\ UNCHANGED <<tables, clipVars, roomVars, at, room, line, posting, leave,
                       clientVars, retireVars>>

\* hello for an id somebody in the room has: told so first, and announced
\* afterwards if the nickname is new.
HelloTaken(c, wanted, renamed) ==
    LET k == <<c, "serve">>
    IN  /\ Reading(c)
        /\ wanted # id[c] /\ Taken(room[c], wanted)
        /\ FanOut(k, {c}, ReplyFrame(k))
        /\ pc' = [pc EXCEPT ![c] = IF renamed THEN "rename" ELSE "answer"]
        /\ frames' = frames + 1
        /\ UNCHANGED <<tables, clipVars, roomVars, connVars, leave, clientVars, retireVars>>

\* The answer is out, or was lost: _send's result is not looked at here.
Answered(c) ==
    LET k == <<c, "serve">>  P == peers[room[c]]
    IN  /\ Settled(k)
        /\ \/ /\ pc[c] = "answer"
              /\ pc' = [pc EXCEPT ![c] = "read"]
              /\ bad' = [bad EXCEPT ![k] = {}]
              /\ UNCHANGED writes
           \/ /\ pc[c] = "rename"
              /\ pc' = [pc EXCEPT ![c] = After(P)]
              /\ FanOut(k, P, PeersFrame(k, Roster(P)))
        /\ UNCHANGED <<tables, clipVars, roomVars, connVars, leave, clientVars,
                       retireVars, frames>>

-----------------------------------------------------------------------------
(* Leaving *)

\* The client goes: its socket closes, or its tab does.  An event stream that
\* goes before the generator is past its first yield never reaches the `try'
\* whose `finally' removes the peer.
Vanish(c) ==
    /\ \/ /\ line[c] = "up"
          /\ line' = [line EXCEPT ![c] = "closing"]
       \/ /\ line[c] = "opening" /\ pc[c] = "read"
          /\ line' = [line EXCEPT ![c] = "ended"]
    /\ UNCHANGED <<tables, clipVars, roomVars, at, room, id, posting, coVars, wireVars,
                   clientVars, retireVars, frames>>

\* The response starts: the generator of sse() is past its first yield.
StreamOpens(c) ==
    /\ line[c] = "opening" /\ pc[c] = "read"
    /\ line' = [line EXCEPT ![c] = "up"]
    /\ UNCHANGED <<tables, clipVars, roomVars, at, room, id, posting, coVars, wireVars,
                   clientVars, retireVars, frames>>

\* Fault: nobody is told.
AfterDepartureSilent(c, P) ==
    /\ IF P # {} THEN UNCHANGED <<timer, evict>>
       ELSE /\ timer' = [timer EXCEPT ![c] = RoomTTL]
            /\ evict' = [evict EXCEPT ![room[c]] = c]
    /\ leave' = [leave EXCEPT ![c] = "done"]
    /\ UNCHANGED wireVars

\* Fault: no clock is started.
AfterDepartureUntimed(c, P) ==
    LET k == <<c, "leave">>
    IN  /\ FanOut(k, P, PeersFrame(k, Roster(P)))
        /\ leave' = [leave EXCEPT ![c] = IF P = {} THEN "done" ELSE "fanout"]
        /\ UNCHANGED <<timer, evict>>

\* _after_departure, for a room left with the peers of P.
AfterDeparture(c, P) ==
    LET k == <<c, "leave">>
    IN  IF P # {}
        THEN /\ FanOut(k, P, PeersFrame(k, Roster(P)))
             /\ leave' = [leave EXCEPT ![c] = "fanout"]
             /\ UNCHANGED <<timer, evict>>
        ELSE /\ timer' = [timer EXCEPT ![c] = RoomTTL]
             /\ evict' = [evict EXCEPT ![room[c]] = c]
             /\ leave' = [leave EXCEPT ![c] = "done"]
             /\ UNCHANGED wireVars

\* What a client that is gone was shown no longer matters.
ForgetClient(c) ==
    /\ told' = [told EXCEPT ![c] = {}]
    /\ held' = [held EXCEPT ![c] = 0]

\* The read loop of ws() ends: _depart.
Depart(c) ==
    /\ KindOf[c] = "ws" /\ pc[c] = "read" /\ line[c] = "closing"
    /\ Drop(room[c], {c})
    /\ AfterDeparture(c, peers[room[c]] \ {c})
    /\ line' = [line EXCEPT ![c] = "ended"]
    /\ pc' = [pc EXCEPT ![c] = "ended"]
    /\ ForgetClient(c)
    /\ UNCHANGED <<rooms, clipVars, auth, idle, at, room, id, posting, retireVars, frames>>

\* The generator of sse() closes: the peer goes now, the rest is a task.
StreamEnds(c) ==
    /\ KindOf[c] = "sse" /\ line[c] = "closing" /\ (pc[c] = "read" \/ posting[c])
    /\ Drop(room[c], {c})
    /\ line' = [line EXCEPT ![c] = "ended"]
    /\ leave' = [leave EXCEPT ![c] = "due"]
    /\ writes' = [writes EXCEPT ![c] = <<>>]
    /\ ForgetClient(c)
    /\ UNCHANGED <<rooms, clipVars, auth, evict, idle, timer, at, room, id, posting, pc,
                   bad, retireVars, frames>>

StreamEnded(c) ==
    /\ leave[c] = "due"
    /\ AfterDeparture(c, peers[room[c]])
    /\ UNCHANGED <<tables, clipVars, peers, auth, idle, connVars, pc, clientVars,
                   retireVars, frames>>

DepartureAnnounced(c) ==
    LET k == <<c, "leave">>
    IN  /\ leave[c] = "fanout" /\ Settled(k)
        /\ Drop(room[c], bad[k])
        /\ bad' = [bad EXCEPT ![k] = {}]
        /\ leave' = [leave EXCEPT ![c] = "done"]
        /\ UNCHANGED <<rooms, clipVars, auth, evict, idle, timer, connVars, pc, writes,
                       clientVars, retireVars, frames>>

-----------------------------------------------------------------------------
(* The ends of a room: its TTL and its lifetime cap *)

\* Fault: whoever came back in the meantime is overlooked.
EvictRegardless(c) ==
    /\ timer[c] = 0
    /\ timer' = [timer EXCEPT ![c] = -1]
    /\ rooms' = Forget(c)
    /\ UNCHANGED <<ipConns, clipVars, peers, auth, evict, idle, connVars, coVars,
                   wireVars, clientVars, retireVars, frames>>

\* The task of _evict_later wakes: it looks its room up by name.
Evict(c) ==
    LET r == rooms[at[c]]
    IN  /\ timer[c] = 0
        /\ timer' = [timer EXCEPT ![c] = -1]
        /\ rooms' = IF r # None /\ peers[r] = {} THEN Forget(r) ELSE rooms
        /\ UNCHANGED <<ipConns, clipVars, peers, auth, evict, idle, connVars, coVars,
                       wireVars, clientVars, retireVars, frames>>

\* Nothing is suspended but sleepers and readers, and no write is under way.
Quiet == \A c \in Conn :
    /\ timer[c] # 0 /\ pc[c] \in {"new", "read", "ended"} /\ leave[c] \in {"no", "done"}
    /\ KindOf[c] = "ws" => writes[c] = <<>>

\* Time passes.  A tick is a good part of the ROOM_TTL_SECONDS of ten minutes;
\* what a handler waits for is over in a few PEER_WRITE_TIMEOUTs of five seconds.
Tick ==
    /\ Quiet
    /\ timer' = [c \in Conn |-> IF timer[c] > 0 THEN timer[c] - 1 ELSE timer[c]]
    /\ idle' = [r \in Conn |-> IF Live(r) /\ peers[r] = {} /\ idle[r] < RoomTTL
                               THEN idle[r] + 1 ELSE idle[r]]
    /\ UNCHANGED <<tables, clipVars, peers, auth, evict, connVars, coVars, wireVars,
                   clientVars, retireVars, frames>>

\* The room outlives MAX_SESSION_SECONDS (_expired).  A lifetime is long next
\* to the retirement of a room: the next room of the name sees the end of it.
Expire(r) ==
    /\ MayExpire /\ Live(r) /\ ~expired[r]
    /\ \A q \in sweep \cup {retiring[a] : a \in Actor} :
           q # None /\ at[q] = at[r] => q = r
    /\ expired' = [expired EXCEPT ![r] = TRUE]
    /\ UNCHANGED <<tables, clipVars, roomVars, connVars, coVars, wireVars, clientVars,
                   retiring, todo, sweep, frames>>

\* One turn of the loop of _retire, not the last: the peer is told, cut off
\* and dropped.
CutOff(p) == IF line[p] \in {"opening", "up"} THEN [line EXCEPT ![p] = "closing"] ELSE line

RetireOne(a, p) ==
    /\ p \in todo[a] /\ todo[a] # {p}
    /\ todo' = [todo EXCEPT ![a] = @ \ {p}]
    /\ line' = CutOff(p)
    /\ Drop(retiring[a], {p})
    /\ UNCHANGED <<rooms, clipVars, auth, evict, idle, timer, at, room, id, posting, coVars,
                   wireVars, clientVars, retiring, sweep, expired, frames>>

\* The last turn, in which the room is forgotten and the join goes on.
JoinRetired(c, p) ==
    LET r == retiring[c]
        l == CutOff(p)
    IN  /\ todo[c] = {p}
        /\ retiring' = [retiring EXCEPT ![c] = None]
        /\ todo' = [todo EXCEPT ![c] = {}]
        /\ last' = [last EXCEPT ![r] = 0]
        /\ Enter(c, at[c], Forget(r), l, Without(r, {p}), Uncharged(r, {p}))
        /\ UNCHANGED <<seq, author, at, id, posting, leave, bad, clientVars, sweep,
                       expired, frames>>

\* What is retired and what is not as _sweep_expired goes through the rooms of
\* D without suspending: those with nobody in them.
Skim(D, table, L) ==
    LET gone == {r \in D : expired[r]}
    IN  /\ rooms' = Forgotten(table, gone)
        /\ last' = [r \in Conn |-> IF r \in gone THEN 0 ELSE L[r]]

\* Fault: only rooms with nobody in them are retired.
SweepOnEmpty(S, table, L) ==
    /\ Skim({r \in S : peers[r] = {}}, table, L)
    /\ sweep' = {}
    /\ retiring' = [retiring EXCEPT ![Sweeper] = None]
    /\ todo' = [todo EXCEPT ![Sweeper] = {}]

\* The loop of _sweep_expired over what is left of its snapshot, up to the
\* first room whose peers it has to disconnect.
SweepOn(S, table, L) ==
    LET busy == {r \in S : expired[r] /\ peers[r] # {}}
    IN  \/ /\ busy = {}
           /\ Skim(S, table, L)
           /\ sweep' = {}
           /\ retiring' = [retiring EXCEPT ![Sweeper] = None]
           /\ todo' = [todo EXCEPT ![Sweeper] = {}]
        \/ \E r \in busy, D \in SUBSET (S \ busy) :
              /\ Skim(D, table, L)
              /\ sweep' = S \ (D \cup {r})
              /\ retiring' = [retiring EXCEPT ![Sweeper] = r]
              /\ todo' = [todo EXCEPT ![Sweeper] = peers[r]]

\* _sweep_expired wakes and takes its snapshot of the rooms.
Sweep ==
    /\ MayExpire /\ retiring[Sweeper] = None
    /\ SweepOn({rooms[h] : h \in Hash} \ {None}, rooms, last)
    /\ UNCHANGED <<ipConns, seq, author, roomVars, connVars, coVars, wireVars, clientVars,
                   expired, frames>>

\* The last turn for a room the sweeper retires: it goes on with the next.
SweepRetired(p) ==
    LET r == retiring[Sweeper]
    IN  /\ todo[Sweeper] = {p}
        /\ line' = CutOff(p)
        /\ Drop(r, {p})
        /\ SweepOn(sweep, Forget(r), [last EXCEPT ![r] = 0])
        /\ UNCHANGED <<seq, author, auth, evict, idle, timer, at, room, id, posting, coVars,
                       wireVars, clientVars, expired, frames>>

-----------------------------------------------------------------------------
\* What a client or the network may do, and need not.
Environment ==
    \E c \in Conn :
        \/ \E h \in Hash : JoinRefused(c, h) \/ Join(c, h) \/ JoinExpired(c, h)
        \/ PostBegins(c) \/ Clip(c) \/ RoomWide(c) \/ Answer(c)
        \/ \E p \in Conn : Forward(c, p)
        \/ \E wanted \in OriginId \cup {id[c]} : Hello(c, wanted)
        \/ \E wanted \in OriginId, renamed \in BOOLEAN : HelloTaken(c, wanted, renamed)
        \/ Vanish(c) \/ Expire(c)

\* What the event loop owes connection c.
Serve(c) ==
    \/ Welcomed(c) \/ FanOutDone(c) \/ ForwardDone(c) \/ Answered(c) \/ PostEnds(c)
    \/ StreamOpens(c) \/ Depart(c) \/ StreamEnds(c)

Farewell(c) == StreamEnded(c) \/ DepartureAnnounced(c)

Write(c) == Deliver(c) \/ Lost(c) \/ WriteFails(c)

Retire(a) == \E p \in Conn :
    \/ RetireOne(a, p)
    \/ a \in Conn /\ JoinRetired(a, p)
    \/ a = Sweeper /\ SweepRetired(p)

Next ==
    \/ Environment
    \/ \E c \in Conn : Serve(c) \/ Farewell(c) \/ Write(c) \/ Evict(c)
    \/ \E a \in Actor : Retire(a)
    \/ Sweep \/ Tick

Spec == Init /\ [][Next]_vars

\* asyncio runs every task that can run and wakes every sleeper; a socket write
\* ends, one way or the other, within PEER_WRITE_TIMEOUT.
Fairness ==
    /\ \A c \in Conn : WF_vars(Serve(c)) /\ WF_vars(Farewell(c)) /\ WF_vars(Write(c))
                       /\ WF_vars(Evict(c))
    /\ \A a \in Actor : WF_vars(Retire(a))
    /\ WF_vars(Sweep) /\ WF_vars(Tick)

FairSpec == Spec /\ Fairness

-----------------------------------------------------------------------------
(* Properties *)

Lines  == {"down", "opening", "up", "closing", "ended"}
Places == {"new", "retiring", "welcome", "read", "fanout", "forward", "answer",
           "rename", "ended"}

(* Types: the tables of the relay, its connections and its tasks.           *)
TypeOK ==
    /\ rooms \in [Hash -> Conn \cup {None}]
    /\ ipConns \in [Ip -> Nat]
    /\ peers \in [Conn -> SUBSET Conn]
    /\ seq \in [Conn -> Nat] /\ last \in [Conn -> Nat]
    /\ author \in [Conn -> Conn \cup {None}]
    /\ auth \in [Conn -> Token \cup {None}]
    /\ evict \in [Conn -> Conn \cup {None}]
    /\ expired \in [Conn -> BOOLEAN]
    /\ idle \in [Conn -> 0..RoomTTL]
    /\ timer \in [Conn -> -1..RoomTTL]
    /\ at \in [Conn -> Hash \cup {None}]
    /\ room \in [Conn -> Conn \cup {None}]
    /\ id \in [Conn -> PeerId]
    /\ line \in [Conn -> Lines]
    /\ pc \in [Conn -> Places]
    /\ leave \in [Conn -> {"no", "due", "fanout", "done"}]
    /\ posting \in [Conn -> BOOLEAN]
    /\ writes \in [Conn -> Seq(Frame)]
    /\ bad \in [Task -> SUBSET Conn]
    /\ told \in [Conn -> SUBSET PeerId]
    /\ held \in [Conn -> Nat]
    /\ retiring \in [Actor -> Conn \cup {None}]
    /\ todo \in [Actor -> SUBSET Conn]
    /\ sweep \in SUBSET Conn
    /\ frames \in Nat

\* A connection has a room from its admission on, and none before.
Placed ==
    \A c \in Conn :
        /\ room[c] = None => /\ pc[c] \in {"new", "retiring", "ended"}
                             /\ leave[c] = "no" /\ line[c] = "down" /\ ~posting[c]
        /\ pc[c] \in {"new", "retiring"} => room[c] = None

\* Whoever has peers left to disconnect is retiring a room.
Underway ==
    /\ \A a \in Actor : todo[a] # {} => retiring[a] # None
    /\ \A c \in Conn : (todo[c] # {} => pc[c] = "retiring")
                        /\ (pc[c] = "retiring" => at[c] # None)

TypeInv == TypeOK /\ Placed /\ Underway

InRoom(c) == room[c] # None /\ c \in peers[room[c]]

\* Every address is charged for exactly the connections of it that are in a
\* room: no way of losing a peer leaks a count (the reason _drop_peer gives
\* for being the only place that removes one).
IpCountsExact ==
    \A i \in Ip : ipConns[i] = Cardinality({c \in Conn : InRoom(c) /\ IpOf[c] = i})

\* In one room an id means one connection, whatever was claimed, dropped and
\* claimed again ("one id means one socket", backend/main.py:46).
PeerIdsUnique ==
    \A r \in Conn : \A p, q \in peers[r] : id[p] = id[q] => p = q

\* Whoever is in a room presented the token the room holds now, although the
\* room takes a new one when it is found empty (_admits, _join).
OneToken == \A r \in Conn : \A p \in peers[r] : TokenOf[p] = auth[r]

\* The ceilings on rooms and on the peers of one hold, although a join that
\* waits for a room to be retired may resume in a relay that has filled up
\* meanwhile: _join looks at them after all it may have waited for.
Ceilings ==
    /\ \A r \in Conn : Cardinality(peers[r]) <= MaxPeers
    /\ Cardinality(Used(rooms)) <= MaxRooms

\* Room objects keep their connections apart, and ids keep to their owners.
Apart ==
    /\ \A r \in Conn : \A c \in peers[r] : room[c] = r
    /\ \A c \in Conn : /\ id[c] \in {c} \cup OriginId
                       /\ room[c] = None => id[c] = c

\* The bookkeeping of who is in a room: its parts need each other to be
\* preserved.
Bookkeeping == Apart /\ IpCountsExact /\ PeerIdsUnique /\ OneToken

\* Whoever is in a room is in the one its name leads to, so the next device to
\* ask for the name meets them: a room is never split (Connection.close).
NoOrphans == \A r \in Conn : peers[r] # {} => Live(r)

\* The name of room r no longer leads to it: it was evicted or retired.
LetGo(r) == room[r] = r /\ ~Live(r)

\* A room that is over has no new peer, and its name does not come back to it.
Empties(r) ==
    /\ LetGo(r) => LetGo(r)'
    /\ LetGo(r) \/ expired[r] => peers'[r] \subseteq peers[r]

\* A room that is past its lifetime, or that its name no longer leads to, only
\* empties: whoever waited in _join for a room to be retired looks the name up
\* again and is let into neither, and no eviction, retirement or join puts a
\* room back.
OnlyEmpties == [][\A r \in Conn : Empties(r)]_vars

\* A peer whose write failed and who is about to be dropped for it.
Failing(p) == \E k \in Task : p \in bad[k]

\* In a room, nothing on the way, not about to be dropped.
UpToDate(p) == InRoom(p) /\ writes[p] = <<>> /\ ~Failing(p) /\ line[p] = "up"

\* Somebody owes the room an announcement.
Owed(r) == \E c \in Conn :
    /\ room[c] = r
    /\ \/ pc[c] \in {"welcome", "rename"}
       \/ leave[c] = "due"
       \/ /\ pc[c] = "forward"
          /\ bad[<<c, "serve">>] # {}

\* Dropped by the relay, with its departure yet to be announced.
Dropped(c) == room[c] # None /\ ~InRoom(c) /\ leave[c] = "no"

\* Once nothing is on its way, a client's roster names everybody in the room,
\* and beyond them only peers the relay dropped without a word.
RostersAgree ==
    \A p \in Conn : UpToDate(p) /\ ~Owed(room[p]) =>
        /\ Roster(peers[room[p]]) \subseteq told[p]
        /\ told[p] \subseteq Roster({q \in Conn : room[q] = room[p] /\ (InRoom(q) \/ Dropped(q))})

\* Once nothing is on its way, whoever did not send the room's newest clip
\* holds it, a late joiner included (FR-3.2, FR-3.3).
NewestClipReachesAll ==
    \A p \in Conn : UpToDate(p) /\ author[room[p]] # p => held[p] = seq[room[p]]

\* FR-3.8, docs/PRD.md:126: last write wins, by the relay's numbers.  Once
\* nothing is on its way everybody holds the newest clip.
LastWriteWins ==
    \A p \in Conn : UpToDate(p) => held[p] = seq[room[p]]

\* A stamped frame reaches a client that was told of its sender, and so can
\* address a reply (_forward).
SenderIsKnown ==
    \A p \in Conn : writes[p] # <<>> /\ line[p] = "up" /\ Head(writes[p]).from # None
                      => Head(writes[p]).from \in told[p]

\* The same, but for senders the relay has dropped and still listens to.
SenderIsKnownOrDropped ==
    \A p \in Conn : writes[p] # <<>> /\ line[p] = "up" /\ Head(writes[p]).from # None
                      => \/ Head(writes[p]).from \in told[p]
                         \/ ~InRoom(Head(writes[p]).by[1])

(* What those in a room are told, taken together: who is there, the newest  *)
(* clip, and who it is that speaks (main.py:981-1007, 1027-1030).           *)
Informed == RostersAgree /\ NewestClipReachesAll /\ SenderIsKnownOrDropped

\* Nobody in a room has a closed stream ("the roster never briefly shows a
\* ghost", backend/main.py:1566).
NoGhosts == \A c \in Conn : line[c] = "ended" => ~InRoom(c)

\* A room that is not past its lifetime goes only after a whole TTL with
\* nobody in it ("once it has been empty for the TTL", _evict_later).
EvictedOnlyAfterTTL ==
    [][\A h \in Hash : rooms[h] # None /\ rooms'[h] # rooms[h]
          => expired[rooms[h]] \/ idle[rooms[h]] = RoomTTL]_vars

\* Every handler gets back to its client, whatever its peers do: a slow reader
\* does not stall the room (_broadcast, _send).
HandlersReturn ==
    \A c \in Conn : pc[c] \in {"welcome", "fanout", "forward", "answer", "rename", "retiring"}
                         ~> pc[c] \in {"read", "ended"}

\* The lifetime cap is one on the session, not on joining it (_sweep_expired,
\* _retire): a room past it goes, and nobody is left in it.
ExpiredRoomsEnd ==
    \A r \in Conn : (Live(r) /\ expired[r]) ~> (~Live(r) /\ peers[r] = {})

\* When every client is gone for good, every room goes too, unless a stream that never
\* opened is still in it.
RoomsDrain ==
    (\A c \in Conn : line[c] = "closing" \/ (line[c] = "ended" /\ (room[c] # None => leave[c] # "no")))
        ~> (\A h \in Hash : rooms[h] = None)

=============================================================================
