---------------------------- MODULE SharedRelay ----------------------------
(***************************************************************************)
(* One room held by several replicas of the relay, joined by the shared    *)
(* backend of backend/shared.py: a publish/subscribe channel for the       *)
(* frames, a hash that lists the room's peers, a value that keeps its last *)
(* clip.  A replica that fails to reach the backend serves its own peers   *)
(* alone, reconnects in the background and subscribes again.               *)
(*                                                                         *)
(* Every await of the backend is a step.  The backend itself, and what a   *)
(* subscription does when its client is closed under it, are external.     *)
(* A definition marked "Fault" is the next one with a bug one could        *)
(* plausibly write.                                                        *)
(***************************************************************************)
EXTENDS Integers, Sequences, FiniteSets, SequencesExt

CONSTANTS
    Replica,
    At,             \* the connections that may join, each once: on which replica
    MaxClips, MaxTrouble, MaxEvents,    \* bounds: clips, faults, and either or a return
    MaxExpiry                           \* bound: expiries of the hash

ASSUME SharedAssumption == At \in [DOMAIN At -> Replica] /\ {MaxClips, MaxTrouble, MaxEvents, MaxExpiry} \subseteq Nat

Guest == DOMAIN At
Pumps == 1..2       \* bound: subscriptions a replica holds at once
NUDGE == 0          \* ROSTER_NUDGE; another frame is the number of its publication

VARIABLES
    reach,          \* the replica can reach the backend
    healthy,        \* what it believes
    recovering,     \* _reconnecting is running
    room,           \* the replica holds the room
    wanted,         \* _subscribers has it
    task,           \* the pump _tasks has for it, or 0
    pump,           \* "off", "new": its task was created, "on", or "cut": its connection was closed
    inbox,          \* what the channel has queued for a pump
    hosted,         \* the replica's peers
    step,           \* where a peer's handler stands
    dropping,       \* drop_peer tasks not run yet
    book,           \* the hash: <<peer, replica>>
    mine,           \* room.last, for each replica
    clipsSent,      \* clips are numbered as they come
    toldOf,         \* history: the peers a replica has told its own of
    unwarned,       \* history: a change of the roster it was not told of, or could not read
    forsaken,       \* history: entries nobody is going to take out of the hash
    handed,         \* history: the publications a replica fanned out
    origin,         \* history: the replica and the clip of each publication of a clip
    trouble, returns, expiries

link == <<reach, healthy, recovering, trouble, returns>>
subs == <<wanted, task, pump, inbox>>
data == <<mine, handed, origin, clipsSent>>
sight == <<toldOf, unwarned, forsaken>>
list == <<step, dropping, book, sight, expiries>>
sharedVars == <<link, room, hosted, subs, data, list>>

Spare(cost) == clipsSent + returns + 2 * (trouble + expiries) + cost <= MaxEvents
Usable(r) == healthy[r] /\ reach[r]

\* publish: every live subscription of the channel, the publisher's own included.
Envelope(r, frame) == [o |-> r, f |-> frame]
Publish(r, frame, boxes) ==
    IF ~Usable(r) THEN boxes
    ELSE [q \in Replica |-> [n \in Pumps |->
            IF pump[q][n] = "on" /\ reach[q] THEN Append(boxes[q][n], Envelope(r, frame))
            ELSE boxes[q][n]]]

\* _degrade, by a call made while the replica still believes in the backend.
Degrades(r) == healthy[r] /\ ~reach[r]
Degrade(r) ==
    /\ healthy' = [healthy EXCEPT ![r] = @ /\ ~Degrades(r)]
    /\ recovering' = [recovering EXCEPT ![r] = @ \/ Degrades(r)]

\* remote_peers: what the hash says the other replicas hold.
Remote(r) == IF Usable(r) THEN {e[1] : e \in {b \in book : b[2] # r}} ELSE {}

\* A roster read, and told to the replica's peers.
Tells(r) ==
    /\ toldOf' = [toldOf EXCEPT ![r] = @ \cup hosted[r] \cup Remote(r)]
    /\ unwarned' = [unwarned EXCEPT ![r] = ~Usable(r)]

\* The place a new pump takes: the first that is free, of those that go on.
FreePump(pumps) == {n \in Pumps : pumps[n] = "off" /\ \A m \in Pumps : pumps[m] = "off" => n <= m}

\* subscribe: a task for a pump of its own, unless one is registered; it runs later.
Subscribed(r, t) ==
    /\ wanted' = [wanted EXCEPT ![r] = TRUE]
    /\ IF t # 0 THEN task' = [task EXCEPT ![r] = t] /\ UNCHANGED <<pump, inbox>>
       ELSE \E n \in FreePump(pump[r]) :
            /\ task' = [task EXCEPT ![r] = n]
            /\ pump' = [pump EXCEPT ![r][n] = "new"]
            /\ UNCHANGED inbox
-----------------------------------------------------------------------------
\* _join: the room is created and subscribed, the peer seated, then registered.
Join(p) == LET r == At[p] IN
    /\ step[p] = "out" /\ step' = [step EXCEPT ![p] = "add"]
    /\ hosted' = [hosted EXCEPT ![r] = @ \cup {p}]
    /\ room' = [room EXCEPT ![r] = TRUE]
    /\ IF room[r] THEN UNCHANGED subs ELSE Subscribed(r, task[r])
    /\ UNCHANGED <<link, data, dropping, book, sight, expiries>>

Add(p) == LET r == At[p] IN
    /\ step[p] = "add" /\ step' = [step EXCEPT ![p] = "read"]
    /\ book' = IF Usable(r) THEN book \cup {<<p, r>>} ELSE book
    /\ forsaken' = forsaken \cup (IF p \in hosted[r] THEN {} ELSE {<<p, r>>} \ dropping)
    /\ Degrade(r)
    /\ UNCHANGED <<reach, trouble, returns, room, hosted, subs, data, dropping, toldOf, unwarned, expiries>>

\* _announce_peers: the rest of the roster is awaited and the replica's peers told, ...
Announce(p) == LET r == At[p] IN
    /\ step[p] \in {"read", "left"}
    /\ step' = [step EXCEPT ![p] = IF @ = "read" THEN "tell" ELSE "leaving"]
    /\ Tells(r)
    /\ Degrade(r)
    /\ UNCHANGED <<reach, trouble, returns, room, hosted, subs, data, dropping, book, forsaken, expiries>>

\* ... then the other replicas are nudged.  Fault: when the room is still empty only.
NudgesEmpty(r) == hosted[r] = {}
Nudges(r) == TRUE
\* The others that do not get it: the replica is out of reach, or they are not subscribed.
Unreached(r) == {q \in Replica \ {r} :
    /\ hosted[q] # {}
    /\ ~(Usable(r) /\ reach[q] /\ \E n \in Pumps : pump[q][n] = "on")}
Nudge(p) == LET r == At[p] IN
    /\ step[p] \in {"tell", "leaving"}
    /\ step' = [step EXCEPT ![p] = IF @ = "tell" THEN "in" ELSE "gone"]
    /\ inbox' = IF Nudges(r) THEN Publish(r, NUDGE, inbox) ELSE inbox
    /\ unwarned' = [q \in Replica |-> unwarned[q] \/ q \in Unreached(r)]
    /\ Degrade(r)
    /\ UNCHANGED <<reach, trouble, returns, room, hosted, wanted, task, pump, data, dropping, book, toldOf,
                   forsaken, expiries>>

\* _drop_peer: the hash is told by a task of its own; the room is told at once.
\* Fault: the last peer to leave is not taken out.
DroppedOthers(p, r) == IF p \in hosted[r] /\ hosted[r] # {p} THEN {<<p, r>>} ELSE {}
Dropped(p, r) == IF p \in hosted[r] THEN {<<p, r>>} ELSE {}
Depart(p) == LET r == At[p] IN
    /\ step[p] = "in"
    /\ step' = [step EXCEPT ![p] = IF hosted[r] \subseteq {p} THEN "gone" ELSE "left"]
    /\ hosted' = [hosted EXCEPT ![r] = @ \ {p}]
    /\ dropping' = dropping \cup Dropped(p, r)
    /\ UNCHANGED <<link, room, subs, data, book, sight, expiries>>

\* A write to a peer fails while its own handler is still in its join.
WriteFails(p) == LET r == At[p] IN
    /\ step[p] \in {"add", "read", "tell"} /\ p \in hosted[r]
    /\ trouble < MaxTrouble /\ Spare(2) /\ trouble' = trouble + 1
    /\ hosted' = [hosted EXCEPT ![r] = @ \ {p}]
    /\ dropping' = dropping \cup Dropped(p, r)
    /\ UNCHANGED <<reach, healthy, recovering, returns, room, subs, data, step, book, sight, expiries>>

DropTask == \E e \in dropping :
    /\ dropping' = dropping \ {e}
    /\ book' = IF Usable(e[2]) THEN book \ {e} ELSE book
    /\ forsaken' = forsaken \cup (IF Usable(e[2]) THEN {} ELSE {e})
    /\ Degrade(e[2])
    /\ UNCHANGED <<reach, trouble, returns, room, hosted, subs, data, step, toldOf, unwarned, expiries>>

\* The client connects again, as another peer.
Return(p) ==
    /\ step[p] = "gone" /\ <<p, At[p]>> \notin dropping \cup book
    /\ Spare(1) /\ returns' = returns + 1
    /\ step' = [step EXCEPT ![p] = "out"]
    /\ toldOf' = [r \in Replica |-> toldOf[r] \ {p}]
    /\ forsaken' = forsaken \ {<<p, At[p]>>}
    /\ UNCHANGED <<reach, healthy, recovering, trouble, room, hosted, subs, data, dropping, book, unwarned, expiries>>

\* unsubscribe.  Fault: the pump is forgotten and not cancelled.
UnsubscribedIdle(r) ==
    /\ wanted' = [wanted EXCEPT ![r] = FALSE] /\ task' = [task EXCEPT ![r] = 0]
    /\ UNCHANGED <<pump, inbox>>
Unsubscribed(r) ==
    /\ wanted' = [wanted EXCEPT ![r] = FALSE] /\ task' = [task EXCEPT ![r] = 0]
    /\ IF task[r] = 0 THEN UNCHANGED <<pump, inbox>>
       ELSE /\ pump' = [pump EXCEPT ![r][task[r]] = "off"]
            /\ inbox' = [inbox EXCEPT ![r][task[r]] = <<>>]

\* _evict_later: the room has been empty for its TTL.
Evict(r) ==
    /\ room[r] /\ hosted[r] = {} /\ room' = [room EXCEPT ![r] = FALSE]
    /\ Unsubscribed(r)
    /\ mine' = [mine EXCEPT ![r] = 0]
    /\ UNCHANGED <<link, hosted, handed, origin, clipsSent, list>>

\* A clip is kept here, kept there, then what is kept here by then is published: two awaits.
\* A stream's posts are handlers of their own, and two may be under way (main.py:1592).
\* Bound: a peer that was dropped sends none.
Clip(p) == LET r == At[p] IN
    /\ step[p] \in {"in", "clip"} /\ p \in hosted[r] /\ clipsSent < MaxClips /\ Spare(1)
    /\ step' = [step EXCEPT ![p] = IF @ = "in" THEN "clip" ELSE "clips"]
    /\ clipsSent' = clipsSent + 1
    /\ mine' = [mine EXCEPT ![r] = clipsSent']
    /\ Degrade(r)
    /\ UNCHANGED <<reach, trouble, returns, room, hosted, subs, handed, origin, dropping, book, sight, expiries>>
FanOut(p) == LET r == At[p] IN
    /\ step[p] \in {"clip", "clips"}
    /\ step' = [step EXCEPT ![p] = IF @ = "clips" THEN "clip" ELSE "in"]
    /\ origin' = Append(origin, [by |-> r, clip |-> mine[r]])
    /\ inbox' = Publish(r, Len(origin'), inbox)
    /\ Degrade(r)
    /\ UNCHANGED <<reach, trouble, returns, room, hosted, wanted, task, pump, mine, handed, clipsSent, dropping, book, sight,
                   expiries>>
-----------------------------------------------------------------------------
\* The pump's task runs: it subscribes, or finds that it cannot.
Listens(r, n) ==
    /\ pump[r][n] = "new"
    /\ pump' = [pump EXCEPT ![r][n] = IF reach[r] THEN "on" ELSE "cut"]
    /\ UNCHANGED <<link, room, hosted, wanted, task, inbox, data, list>>

\* The pump drops its own echo.  Fault: it does not.
EchoNever(r, e) == FALSE
Echo(r, e) == e.o = r

\* The pump's next message: a clip for the replica's peers, or a nudge to count again.
Pump(r, n) ==
    /\ pump[r][n] = "on" /\ inbox[r][n] # <<>>
    /\ LET e == Head(inbox[r][n])
           heard == room[r] /\ ~Echo(r, e) IN
       /\ inbox' = [inbox EXCEPT ![r][n] = Tail(@)]
       /\ IF heard /\ e.f # NUDGE
          THEN handed' = [handed EXCEPT ![r] = Append(@, e.f)]
          ELSE UNCHANGED handed
       /\ IF heard /\ e.f = NUDGE /\ hosted[r] # {}
          THEN Tells(r) /\ Degrade(r)
          ELSE UNCHANGED <<toldOf, unwarned, healthy, recovering>>
    /\ UNCHANGED <<reach, trouble, returns, room, hosted, wanted, task, pump, mine, origin, clipsSent,
                   step, dropping, book, forsaken, expiries>>

\* What is queued for a replica is lost with its connection, a nudge too.
Loses(r, ns) ==
    /\ inbox' = [inbox EXCEPT ![r] = [n \in Pumps |-> IF n \in ns THEN <<>> ELSE @[n]]]
    /\ unwarned' = [unwarned EXCEPT ![r] = @ \/ \E n \in ns : \E i \in DOMAIN inbox[r][n] : inbox[r][n][i].f = NUDGE]

\* A pump whose connection was closed raises: it takes the registration with it,
\* whichever pump's that is, and asks for a recovery.  Fault: it only ends.
PumpDiesQuiet(r, n) ==
    /\ pump[r][n] = "cut"
    /\ pump' = [pump EXCEPT ![r][n] = "off"]
    /\ UNCHANGED <<link, room, hosted, wanted, task, inbox, data, list>>
PumpDies(r, n) ==
    /\ pump[r][n] = "cut"
    /\ pump' = [pump EXCEPT ![r][n] = "off"]
    /\ Loses(r, {n})
    /\ task' = [task EXCEPT ![r] = 0]
    /\ healthy' = [healthy EXCEPT ![r] = FALSE]
    /\ recovering' = [recovering EXCEPT ![r] = TRUE]
    /\ UNCHANGED <<reach, trouble, returns, room, hosted, wanted, data, step, dropping, book, toldOf, forsaken, expiries>>

\* _recover, once its delay is over and the backend answers: the old client is closed,
\* and every room wanted is subscribed again, its old task forgotten and not cancelled.
\* External: a subscription ends with its client while the next connects, or goes on.
Rest(r, kept) == IF kept THEN pump[r] ELSE [n \in Pumps |-> "off"]
Recover(r) ==
    /\ recovering[r] /\ reach[r]
    /\ healthy' = [healthy EXCEPT ![r] = TRUE]
    /\ recovering' = [recovering EXCEPT ![r] = FALSE]
    /\ \E kept \in BOOLEAN :
        /\ IF wanted[r]
           THEN \E n \in FreePump(Rest(r, kept)) :
                /\ pump' = [pump EXCEPT ![r] = [Rest(r, kept) EXCEPT ![n] = "new"]]
                /\ task' = [task EXCEPT ![r] = n]
           ELSE pump' = [pump EXCEPT ![r] = Rest(r, kept)] /\ UNCHANGED task
        /\ Loses(r, IF kept THEN {} ELSE Pumps)
    /\ UNCHANGED <<reach, trouble, returns, room, hosted, wanted, data, step, dropping, book, toldOf, forsaken, expiries>>
-----------------------------------------------------------------------------
\* The link to the backend breaks, and what was queued on it is lost; it comes back.
LinkBreaks(r) ==
    /\ reach[r] /\ trouble < MaxTrouble /\ Spare(2) /\ trouble' = trouble + 1
    /\ reach' = [reach EXCEPT ![r] = FALSE]
    /\ pump' = [pump EXCEPT ![r] = [n \in Pumps |-> IF @[n] = "on" THEN "cut" ELSE @[n]]]
    /\ Loses(r, Pumps)
    /\ UNCHANGED <<healthy, recovering, returns, room, hosted, wanted, task, data, step, dropping, book,
                   toldOf, forsaken, expiries>>
LinkBack(r) ==
    /\ ~reach[r] /\ reach' = [reach EXCEPT ![r] = TRUE]
    /\ UNCHANGED <<healthy, recovering, trouble, returns, room, hosted, subs, data, list>>

\* The hash's time to live, which only a join or a rename winds up again (shared.py:262).
Expire ==
    /\ expiries < MaxExpiry /\ Spare(2) /\ expiries' = expiries + 1
    /\ \A p \in Guest : step[p] \in {"out", "in", "gone"}     \* a join wound it up just now
    /\ book' = {}
    /\ UNCHANGED <<link, room, hosted, subs, data, step, dropping, sight>>
-----------------------------------------------------------------------------
SharedInit ==
    /\ reach = [r \in Replica |-> TRUE] /\ healthy = reach
    /\ recovering = [r \in Replica |-> FALSE]
    /\ room = recovering /\ wanted = recovering
    /\ task = [r \in Replica |-> 0]
    /\ pump = [r \in Replica |-> [n \in Pumps |-> "off"]]
    /\ inbox = [r \in Replica |-> [n \in Pumps |-> <<>>]]
    /\ hosted = [r \in Replica |-> {}]
    /\ step = [p \in Guest |-> "out"]
    /\ dropping = {} /\ book = {} /\ mine = task
    /\ toldOf = hosted /\ unwarned = recovering /\ forsaken = {} /\ handed = [r \in Replica |-> <<>>] /\ origin = <<>>
    /\ clipsSent = 0 /\ trouble = 0 /\ returns = 0 /\ expiries = 0

SharedWork ==
    \/ \E p \in Guest : Add(p) \/ Announce(p) \/ Nudge(p) \/ FanOut(p)
    \/ \E r \in Replica, n \in Pumps : Listens(r, n) \/ Pump(r, n) \/ PumpDies(r, n)
    \/ \E r \in Replica : Recover(r) \/ LinkBack(r)
    \/ DropTask
SharedNext ==
    \/ SharedWork \/ Expire
    \/ \E r \in Replica : Evict(r) \/ LinkBreaks(r)
    \/ \E p \in Guest : Join(p) \/ Depart(p) \/ Return(p) \/ Clip(p) \/ WriteFails(p)

\* A call of the backend returns or raises, a queued message is delivered, a closed
\* connection is noticed, and a link that broke comes back.
SharedSpec == SharedInit /\ [][SharedNext]_sharedVars /\ WF_sharedVars(SharedWork)
-----------------------------------------------------------------------------
\* A replica never fans out its own clip a second time, whatever was cut and
\* subscribed again in between (shared.py:193-195).
NoEcho == \A r \in Replica : \A i \in DOMAIN handed[r] : origin[handed[r][i]].by # r

\* Until a link breaks, a replica fans what another published out once, also when its
\* room was evicted and created again meanwhile (main.py:1099-1103).
OnceUntilTrouble ==
    trouble = 0 => \A r \in Replica : \A i, j \in DOMAIN handed[r] :
                        i # j => handed[r][i] # handed[r][j]

\* Of two clips that cross in the shared write the later is published twice and the first
\* never (main.py:1410-1414): so no replica publishes an older clip behind a newer, ...
NeverGoesBack == \A i, j \in DOMAIN origin :
    i < j /\ origin[i].by = origin[j].by => origin[i].clip <= origin[j].clip

\* ... and when none is on its way, what a replica keeps has been published.
NewestGoesOut == \A r \in Replica :
    mine[r] # 0 => \/ \E p \in Guest : At[p] = r /\ step[p] \in {"clip", "clips"}
                   \/ \E k \in DOMAIN origin : origin[k] = [by |-> r, clip |-> mine[r]]

\* shared.py:193-195, main.py:1410-1414: across replicas what is published is handed over
\* once, to others than its own, the newest always and never an older one behind it.
FannedOutOnce == NoEcho /\ OnceUntilTrouble /\ NeverGoesBack /\ NewestGoesOut

\* A subscription is live, whichever task has it.
OnAir(r) == \E n \in Pumps : pump[r][n] = "on"

\* The peers seated elsewhere and listed, that a replica's own have not been told of.
Unheard(r) == {e \in book : e[2] # r /\ step[e[1]] = "in" /\ hosted[r] # {} /\ e[1] \notin toldOf[r]}

\* Peers that left and are listed still.
Ghosts == {e \in book : e[1] \notin hosted[e[2]]}

\* However links break and pumps die, it comes to this again and again: a replica that holds
\* the room has a live subscription (shared.py:120-126); it has told its peers of those of
\* the others, whichever came first, unless a nudge found it without a subscription, as
\* it does while the pump's task has not run (shared.py:219), or it could not read the
\* roster; and a peer that left is off the list, unless its own replica could not reach
\* the backend to say so, or its connection was dropped before its entry was made
\* (main.py:649-651, 1306).
ComesWhole == []<>(
    /\ \A r \in Replica : room[r] => OnAir(r)
    /\ \A r \in Replica : Unheard(r) = {} \/ unwarned[r]
    /\ Ghosts \subseteq forsaken)

\* A replica that missed a nudge is made good by the next change that is announced
\* anywhere, once every replica is subscribed again and as long as it is
\* (main.py:1005-1021).
InTouch == \A r \in Replica : room[r] => Usable(r) /\ OnAir(r)
HealedByNext ==
    InTouch /\ (\E p \in Guest : step[p] \in {"read", "left"})
        ~> (~InTouch \/ \A r \in Replica : Unheard(r) = {})

\* shared.py:94-130: replicas that lost sight of each other find the room whole again: on
\* the air, aware of each other's peers and rid of those that left.
BackendHeals == ComesWhole /\ HealedByNext

\* What shared.py:253-255 asks of the roster: with nothing broken, every seated peer is on it.
AllListed == trouble = 0 =>
    \A p \in Guest : step[p] = "in" => <<p, At[p]>> \in book
=============================================================================
