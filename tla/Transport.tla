------------------------------ MODULE Transport ------------------------------
(***************************************************************************)
(* A client's connection to the relay: src/transport/relay.js over the     *)
(* channels of ws.js and sse.js.  One attempt at a time, a probe that      *)
(* notices a network which swallows it, failover between WebSocket and     *)
(* event stream, heartbeats, refusals, and the device's own id asked for   *)
(* again while the relay still holds its last connection.                  *)
(*                                                                         *)
(* The client is one event loop: an action is a timer, a call from above,  *)
(* or the handling of one event of the channel.  A channel that was closed *)
(* reports nothing (`done'), so only the channel in use has an inbox.  An  *)
(* epoch is only ever compared with the current one: a timer carries just  *)
(* whether its epoch still is.                                             *)
(*                                                                         *)
(* The relay's side is what a client sees of Relay.tla: a connection is    *)
(* admitted or refused, keeps its place until the relay notices it is      *)
(* gone, and holds an id nobody else in the room holds.                    *)
(*                                                                         *)
(* A definition marked "Fault" belongs to no specification: it is the next *)
(* definition with a bug one could plausibly write.                        *)
(***************************************************************************)
EXTENDS Integers, Sequences

CONSTANTS
    Conn,           \* channels, and the connections the relay has of them
    None,           \* null
    Passes,         \* the transports this network lets through
    SwitchAfter,    \* NET.SWITCH_AFTER
    IdTries,        \* how often an id is asked for again
    MaxSession,     \* bound: calls of connect()
    MaxCalls,       \* bound: calls of close() and setTransport()
    MaxFaults       \* bound: refusals, cuts, silences and lost POSTs

Kind     == {"ws", "sse"}
Terminal == {"AUTH_FAILED", "ROOM_FULL", "ORG_TOKEN_REQUIRED"}
Refusals == {"AUTH_FAILED", "RELAY_BUSY"}     \* one that is Terminal, one that is not

ASSUME TransportAssumption ==
    /\ None \notin Conn \cup Kind \cup Refusals
    /\ Passes \subseteq Kind
    /\ SwitchAfter \in Nat \ {0} /\ IdTries \in Nat
    /\ MaxSession \in Nat /\ MaxCalls \in Nat /\ MaxFaults \in Nat

VARIABLES
    channel,        \* the channel in use, or None
    live,           \* the channels nobody has closed
    opened,         \* the attempt was welcomed
    intent,         \* what its `hello' will say: "create" or "join"
    wantOpen, mode, forced, remembered,
    failures,       \* transport -> attempts that never became usable, up to SwitchAfter
    stuck, refusal,
    probe,          \* the probe is armed
    beat,           \* heartbeat: "off", "on", or "due" while a pong is awaited
    retry,          \* reconnect timers pending: of the current epoch, of a stale one
    idTimer,        \* timers of reclaimIdentity, likewise
    idRetries,
    told,           \* the user was told that the id is taken
    \* The channel in use.
    asking,         \* it failed before its welcome and waits for /health
    inbox, out,     \* what is on its way from and to the relay
    mute,           \* nothing passes through it any more
    lost,           \* a POST of it was dropped
    \* The relay.
    held,           \* our connections that it counts as peers of the room
    named,          \* those it knows by the device's own id
    late,           \* closed ones whose `hello' is still to be handled
    \* History and bounds.
    welcomes,       \* how often the session was welcomed, up to 2
    collided,       \* it raised KEY_COLLISION
    spent           \* how often the bounded things have happened

life    == <<intent, wantOpen, mode, forced, remembered, failures, stuck>>
attempt == <<channel, live, opened>>
ids     == <<idRetries, told, welcomes, collided>>
line    == <<asking, mute, lost>>
relay   == <<held, named, late>>
vars    == <<life, attempt, probe, beat, retry, idTimer, ids, refusal, line, inbox, out, relay, spent>>

Pending     == SUBSET {"current", "stale"}
Aged(timer) == IF timer = {} THEN {} ELSE {"stale"}
Other(k)    == CHOOSE o \in Kind : o # k
IsOpen      == channel # None /\ opened

MaxSpent    == [session |-> MaxSession, calls |-> MaxCalls, faults |-> MaxFaults]
Spend(what) == spent[what] < MaxSpent[what] /\ spent' = [spent EXCEPT ![what] = @ + 1]

(***************************************************************************)
(* Attempts.                                                               *)
(***************************************************************************)

\* Closing the channel in use: it reports nothing any more, while what it sent
\* may still arrive.
Closed == live \ {channel}
Quiet  == /\ inbox' = <<>> /\ out' = <<>>
          /\ asking' = FALSE /\ mute' = FALSE /\ lost' = FALSE

Lingers == IF channel \in held /\ "hello" \in {out[i] : i \in DOMAIN out}
           THEN late \cup {channel} ELSE late

Preferred(pin) ==
    IF pin # None THEN {pin}
    ELSE {"ws"} \cup ({remembered} \ {None})     \* the memory may have expired

\* start(): a new channel, beside those in `before', and a new epoch.
Start(before) == LET busy == before \cup held IN
    /\ Conn \ busy # {}
    /\ channel' = CHOOSE c \in Conn \ busy : TRUE
    /\ live' = before \cup {channel'}
    /\ opened' = FALSE
    /\ probe' = TRUE /\ beat' = "off"
    /\ idTimer' = Aged(idTimer)
    /\ Quiet

Anew == failures' = [k \in Kind |-> 0]

\* connect(), to the room we were in or to another one, where the relay has
\* nothing of us.  It replaces whatever is there, and leaves `stuck' and
\* `refusal' as they are.
Connect(as) ==
    /\ Spend("session")
    /\ intent' = as /\ wantOpen' = TRUE /\ Anew
    /\ mode' \in Preferred(forced)
    /\ Start(Closed) /\ retry' = Aged(retry)
    /\ welcomes' = 0 /\ collided' = FALSE
    /\ \/ as = "join" /\ late' = Lingers /\ UNCHANGED <<held, named>>
       \/ held' = {} /\ named' = {} /\ late' = {}
    /\ UNCHANGED <<forced, remembered, stuck, refusal, idRetries, told>>

\* What close() does.
Leave ==
    /\ wantOpen' = FALSE
    /\ channel' = None /\ live' = Closed
    /\ probe' = FALSE /\ beat' = "off"
    /\ retry' = Aged(retry) /\ idTimer' = Aged(idTimer)
    /\ Quiet

Close ==
    /\ Spend("calls")
    /\ Leave /\ late' = Lingers
    /\ UNCHANGED <<intent, mode, forced, remembered, failures, stuck, opened, ids, refusal,
                   held, named>>

SetTransport(pin) ==
    /\ pin # forced /\ forced' = pin
    /\ Spend("calls")
    /\ \/ /\ ~wantOpen
          /\ UNCHANGED <<intent, wantOpen, mode, remembered, failures, stuck, attempt, probe, beat,
                         retry, idTimer, line, inbox, out, late>>
       \/ /\ wantOpen
          /\ stuck' = FALSE /\ Anew
          /\ mode' \in Preferred(pin)
          /\ Start(Closed) /\ retry' = Aged(retry) /\ late' = Lingers
          /\ UNCHANGED <<intent, wantOpen, remembered>>
    /\ UNCHANGED <<ids, refusal, held, named>>

\* down(): the channel has finished, or was closed for it.  It is not called once
\* wantOpen is false: close() has retired the callbacks.
GivesUp   == ~opened /\ refusal \in Terminal
Failed    == [failures EXCEPT ![mode] = IF opened \/ @ = SwitchAfter THEN @ ELSE @ + 1]
Blocked   == \A k \in Kind : Failed[k] >= SwitchAfter
Exhausted == ~opened /\ Failed[mode] >= SwitchAfter
\* Fault: a pinned transport fails over.  Fault: once both have failed it stays
\* where it is.
SwitchesPinned == Exhausted
SwitchesOnce   == Exhausted /\ forced = None /\ ~Blocked
Switches  == Exhausted /\ forced = None

\* Fault: no more reconnects once both transports are blocked.
NextTryUntilStuck ==
    /\ intent' = IF opened THEN "join" ELSE intent
    /\ stuck' = (stuck \/ (Exhausted /\ Blocked))
    /\ remembered' = IF Exhausted /\ Blocked THEN None ELSE remembered
    /\ mode' = IF Switches THEN Other(mode) ELSE mode
    /\ failures' = IF Switches THEN [Failed EXCEPT ![Other(mode)] = 0] ELSE Failed
    /\ retry' = IF stuck' THEN retry ELSE retry \cup {"current"}
    /\ UNCHANGED <<wantOpen, refusal>>
NextTry ==
    /\ intent' = IF opened THEN "join" ELSE intent
    /\ stuck' = (stuck \/ (Exhausted /\ Blocked))
    /\ remembered' = IF Exhausted /\ Blocked THEN None ELSE remembered
    /\ mode' = IF Switches THEN Other(mode) ELSE mode
    /\ failures' = IF Switches THEN [Failed EXCEPT ![Other(mode)] = 0] ELSE Failed
    /\ retry' = retry \cup {"current"}
    /\ UNCHANGED <<wantOpen, refusal>>

Down ==
    /\ channel' = None /\ live' = Closed
    /\ probe' = FALSE /\ beat' = "off"
    /\ Quiet /\ late' = Lingers
    /\ \/ /\ GivesUp
          /\ wantOpen' = FALSE /\ refusal' = None
          /\ UNCHANGED <<intent, stuck, remembered, mode, failures, retry>>
       \/ ~GivesUp /\ NextTry
    /\ UNCHANGED <<opened, forced, idTimer, ids, held, named, spent>>

ProbeFires == probe /\ ~opened /\ Down

\* Fault: the epoch of a reconnect timer is not looked at.
RetryFiresEver ==
    /\ retry # {} /\ wantOpen
    /\ Start(live) /\ retry' = {}
    /\ UNCHANGED <<life, ids, refusal, relay, spent>>
RetryFires ==
    \/ /\ "current" \in retry /\ wantOpen
       /\ Start(live) /\ retry' = Aged(retry \ {"current"})
       /\ UNCHANGED <<life, ids, refusal, relay, spent>>
    \/ /\ "stale" \in retry /\ retry' = retry \ {"stale"}
       /\ UNCHANGED <<life, attempt, probe, beat, idTimer, ids, refusal, line, inbox, out, relay,
                      spent>>

(***************************************************************************)
(* What the channel in use reports.                                        *)
(***************************************************************************)
Arrives(what) == channel # None /\ ~mute /\ inbox # <<>> /\ Head(inbox).t = what
Consumed      == inbox' = Tail(inbox)

\* handle(PONG) and handle(ERROR): a refusal is remembered until something opens.
ReceivePong ==
    /\ Arrives("pong") /\ Consumed
    /\ beat' = "on"
    /\ UNCHANGED <<life, attempt, probe, retry, idTimer, ids, refusal, line, out, relay, spent>>

ReceiveError ==
    /\ Arrives("error") /\ Consumed
    /\ refusal' = IF opened THEN refusal ELSE Head(inbox).code
    /\ UNCHANGED <<life, attempt, probe, beat, retry, idTimer, ids, line, out, relay, spent>>

\* The welcome: up(), then handle(WELCOME).  A key that somebody else uses is
\* given up, which closes the connection on the spot (src/main.js, leaveRoom).
Up == /\ stuck' = FALSE /\ refusal' = None /\ idRetries' = 0 /\ told' = FALSE
      /\ failures' = [failures EXCEPT ![mode] = 0]
      /\ remembered' = IF forced = None THEN mode ELSE remembered
      /\ opened' = TRUE
      /\ welcomes' = IF welcomes = 2 THEN 2 ELSE welcomes + 1

Collides == intent = "create" /\ Head(inbox).existing

ReceiveWelcome ==
    /\ Arrives("welcome") /\ Up
    /\ \/ /\ Collides
          /\ collided' = TRUE
          /\ Leave /\ late' = late \cup ({channel} \cap held)
       \/ /\ ~Collides /\ Consumed
          /\ probe' = FALSE /\ beat' = "on"
          /\ out' = Append(out, "hello")
          /\ UNCHANGED <<collided, wantOpen, channel, live, retry, idTimer, line, late>>
    /\ UNCHANGED <<intent, mode, forced, held, named, spent>>

\* onclose, or onerror of a stream that was welcomed.
ReceiveEnd == Arrives("end") /\ (mode = "ws" \/ IsOpen) /\ Down

\* onerror of a stream that was not: the browser connects it again by itself,
\* while /health is asked what to make of the failure.
StreamRefused ==
    /\ Arrives("end") /\ mode = "sse" /\ ~IsOpen
    /\ Consumed
    /\ asking' = TRUE
    /\ UNCHANGED <<life, attempt, probe, beat, retry, idTimer, ids, refusal, mute, lost, out, relay,
                   spent>>

\* The verdict ends the channel, whatever has become of it meanwhile.
Verdict == channel # None /\ asking /\ Down

\* A POST answered 404: the relay has forgotten the stream.
SessionExpired == IsOpen /\ mode = "sse" /\ channel \notin held /\ out # <<>> /\ Down

Beat ==
    /\ beat = "on" /\ beat' = "due"
    /\ out' = Append(out, "ping")
    /\ UNCHANGED <<life, attempt, probe, retry, idTimer, ids, refusal, line, inbox, relay, spent>>

PongOverdue == beat = "due" /\ Down

(***************************************************************************)
(* The device's own id.                                                    *)
(***************************************************************************)
\* Fault: no limit.
MayReclaimEver == TRUE
MayReclaim == idRetries < IdTries

ReceiveTaken ==
    /\ Arrives("taken") /\ Consumed
    /\ \/ MayReclaim  /\ idRetries' = idRetries + 1 /\ idTimer' = idTimer \cup {"current"}
                      /\ UNCHANGED told
       \/ ~MayReclaim /\ told' = TRUE /\ UNCHANGED <<idRetries, idTimer>>
    /\ UNCHANGED <<life, attempt, probe, beat, retry, welcomes, collided, refusal, line, out, relay,
                   spent>>

\* Fault: the epoch check the wrong way round.
AsksAgainStale(e) == e = "stale" /\ IsOpen
AsksAgain(e) == e = "current" /\ IsOpen

ReclaimFires == \E e \in idTimer :
    /\ idTimer' = idTimer \ {e}
    /\ out' = IF AsksAgain(e) THEN Append(out, "hello") ELSE out
    /\ UNCHANGED <<life, attempt, probe, beat, retry, ids, refusal, line, inbox, relay, spent>>

(***************************************************************************)
(* The relay and the network.                                              *)
(***************************************************************************)
client == <<life, attempt, probe, beat, retry, idTimer, ids, refusal>>

Ended  == inbox # <<>> /\ inbox[Len(inbox)].t = "end"
Trying == channel # None /\ ~opened /\ channel \notin held /\ inbox = <<>>
Placed == channel # None /\ channel \in held
Fault  == Spend("faults")

\* A room with our last connection still in it is not empty, and any room may
\* have other devices in it.
Admit ==
    /\ Trying /\ mode \in Passes
    /\ held' = held \cup {channel}
    /\ \E existing \in BOOLEAN :
        /\ held # {} => existing
        /\ inbox' = <<[t |-> "welcome", existing |-> existing]>>
    /\ UNCHANGED <<client, line, out, named, late, spent>>

Refuse ==
    /\ Trying /\ mode \in Passes
    /\ Fault
    /\ \E code \in Refusals : inbox' = <<[t |-> "error", code |-> code], [t |-> "end"]>>
    /\ UNCHANGED <<client, line, out, relay>>

\* A blocked transport may be turned down rather than swallowed.
TurnedDown ==
    /\ Trying /\ mode \notin Passes
    /\ inbox' = <<[t |-> "end"]>>
    /\ UNCHANGED <<client, line, out, relay, spent>>

Cut ==
    /\ Placed /\ ~Ended
    /\ Fault
    /\ inbox' = Append(inbox, [t |-> "end"])
    /\ UNCHANGED <<client, line, out, relay>>

Silence ==
    /\ Placed /\ ~mute
    /\ Fault
    /\ mute' = TRUE
    /\ UNCHANGED <<client, asking, lost, inbox, out, relay>>

\* A POST and its retry came to nothing, and the batch is dropped.
LosePost ==
    /\ IsOpen /\ mode = "sse" /\ out # <<>>
    /\ Fault
    /\ lost' = TRUE /\ out' = <<>>
    /\ UNCHANGED <<client, asking, mute, inbox, relay>>

\* What the relay does with a `hello' (Relay!Answered).
Taken(c) == named \ {c} # {}

TakeFrame ==
    /\ Placed /\ ~mute /\ ~Ended /\ out # <<>>
    /\ out' = Tail(out)
    /\ \/ Head(out) = "ping" /\ inbox' = Append(inbox, [t |-> "pong"]) /\ UNCHANGED named
       \/ Head(out) = "hello" /\ ~Taken(channel) /\ named' = named \cup {channel} /\ UNCHANGED inbox
       \/ Head(out) = "hello" /\ Taken(channel) /\ inbox' = Append(inbox, [t |-> "taken"])
          /\ UNCHANGED named
    /\ UNCHANGED <<client, line, held, late, spent>>

TakeLate(c) ==
    /\ c \in late /\ late' = late \ {c}
    /\ named' = IF Taken(c) THEN named ELSE named \cup {c}
    /\ UNCHANGED <<client, line, inbox, out, held, spent>>

\* The relay notices that a connection is gone.
Reap(c) ==
    /\ c \in held
    /\ c = channel => mute \/ Ended
    /\ held' = held \ {c} /\ named' = named \ {c} /\ late' = late \ {c}
    /\ UNCHANGED <<client, line, inbox, out, spent>>
-----------------------------------------------------------------------------
Init ==
    /\ channel = None /\ live = {} /\ opened = FALSE
    /\ intent = "join" /\ wantOpen = FALSE /\ mode = "ws"
    /\ forced \in Kind \cup {None} /\ remembered \in Kind \cup {None}
    /\ failures = [k \in Kind |-> 0] /\ stuck = FALSE /\ refusal = None
    /\ probe = FALSE /\ beat = "off" /\ retry = {} /\ idTimer = {}
    /\ idRetries = 0 /\ told = FALSE /\ welcomes = 0 /\ collided = FALSE
    /\ asking = FALSE /\ inbox = <<>> /\ out = <<>> /\ mute = FALSE /\ lost = FALSE
    /\ held = {} /\ named = {} /\ late = {}
    /\ spent = [session |-> 0, calls |-> 0, faults |-> 0]

App     == (\E as \in {"create", "join"} : Connect(as)) \/ Close
           \/ \E pin \in Kind \cup {None} : SetTransport(pin)
Timer   == ProbeFires \/ RetryFires \/ Beat \/ PongOverdue \/ ReclaimFires
Receive == ReceivePong \/ ReceiveError \/ ReceiveTaken \/ ReceiveEnd \/ StreamRefused
           \/ Verdict \/ SessionExpired
Network == Refuse \/ TurnedDown \/ Cut \/ Silence \/ LosePost

Next == \/ App \/ Timer \/ Receive \/ ReceiveWelcome \/ Network \/ Admit \/ TakeFrame
        \/ \E c \in Conn : TakeLate(c) \/ Reap(c)

Spec == Init /\ [][Next]_vars

\* Timers fire and events are handled; the relay answers and notices who has
\* gone.  A transport the network lets through is, now and then, admitted and
\* welcomed before the probe gives up on it.
FairSpec ==
    /\ Spec
    /\ WF_vars(ProbeFires) /\ WF_vars(RetryFires) /\ WF_vars(Beat) /\ WF_vars(PongOverdue)
    /\ WF_vars(ReclaimFires) /\ WF_vars(Receive) /\ WF_vars(TakeFrame)
    /\ \A c \in Conn : WF_vars(Reap(c))
    /\ SF_vars(Admit) /\ SF_vars(ReceiveWelcome)
-----------------------------------------------------------------------------
\* Types: what the client, the network and the relay hold.
TypeOK ==
    /\ channel \in Conn \cup {None} /\ live \subseteq Conn /\ opened \in BOOLEAN
    /\ intent \in {"create", "join"} /\ wantOpen \in BOOLEAN
    /\ mode \in Kind /\ forced \in Kind \cup {None} /\ remembered \in Kind \cup {None}
    /\ failures \in [Kind -> 0..SwitchAfter] /\ stuck \in BOOLEAN
    /\ refusal \in Refusals \cup {None}
    /\ probe \in BOOLEAN /\ beat \in {"off", "on", "due"}
    /\ retry \in Pending /\ idTimer \in Pending
    /\ idRetries \in 0..IdTries /\ told \in BOOLEAN
    /\ welcomes \in 0..2 /\ collided \in BOOLEAN
    /\ asking \in BOOLEAN /\ mute \in BOOLEAN /\ lost \in BOOLEAN
    /\ \A i \in DOMAIN inbox : inbox[i].t \in {"welcome", "taken", "pong", "error", "end"}
    /\ \A i \in DOMAIN out : out[i] \in {"hello", "ping"}
    /\ held \subseteq Conn /\ named \subseteq held /\ late \subseteq held
    /\ spent \in [{"session", "calls", "faults"} -> Nat]

\* A device is never in a room twice: the channel in use is the only one that is
\* not closed, though reconnect timers of replaced attempts are still to fire
\* (relay.js:76-83).
OneChannel == live = {channel} \ {None}

\* While a connection is wanted something is bound to happen to it: a probe or a
\* heartbeat watches the channel, or a reconnect of this epoch is due.
NeverStranded ==
    wantOpen => IF channel = None THEN "current" \in retry ELSE probe \/ beat # "off"

\* A pinned transport does not fail over, and a new pin takes effect at once
\* (relay.js:146-163).
PinHolds == channel # None /\ forced # None => mode = forced

\* When nothing is under way any more the relay knows the device by its own id,
\* or the user was told that it is taken, or the request itself was lost
\* (relay.js:351-370).
IdSettles ==
    IsOpen /\ ~mute /\ inbox = <<>> /\ out = <<>> /\ "current" \notin idTimer
    => channel \in named \/ told \/ lost

\* relay.js:73-83: taken together, that attempts do not get into each other's way: one
\* channel, always something to come, the pinned kind, and one id.
AttemptsInOrder == TypeOK /\ OneChannel /\ NeverStranded /\ PinHolds /\ IdSettles

Usable == IsOpen /\ ~mute
\* Whatever the network blocks, a client that wants a connection and is not
\* pinned to what is blocked gets one that works, or is refused for good: two
\* failures switch, and a silent channel is noticed (relay.js:14-20).
FindsWhatWorks == wantOpen ~> (Usable \/ ~wantOpen \/ forced \in Kind \ Passes)

\* "A reconnect is never a create, or a transient drop would look like a key
\* collision and needlessly rotate the user's key" (relay.js:295-297): a key is
\* given up at its first welcome or never.
RotatesOnlyAtFirst == collided => welcomes = 1
=============================================================================
