------------------------------ MODULE Notices -------------------------------
(***************************************************************************)
(* What a device is told about who else is in its session, in two small    *)
(* machines:                                                               *)
(*  - the roster (src/core/state.js, fed by src/transport/relay.js), the   *)
(*    arrivals announced from it, and the banner that doubts a locked      *)
(*    session nobody else is in (src/ui/shell/banners.js);                 *)
(*  - the arrival banner and the clock it leaves by, which stops while it  *)
(*    is being read (src/ui/shell/banners.js, src/ui/primitives/dom.js).   *)
(* A connection the relay still holds for a device that left is another    *)
(* device here.                                                            *)
(*                                                                         *)
(* A definition marked "Fault" is the next one with a bug one could        *)
(* plausibly write.                                                        *)
(***************************************************************************)
EXTENDS Integers, Sequences, FiniteSets

CONSTANTS
    Others,                             \* the other devices
    MaxRosterMoves,                     \* bound: arrivals, departures, drops and new rooms
    MaxBanners                          \* bound: arrivals announced

ASSUME NoticesAssumption ==
    /\ IsFiniteSet(Others) /\ "self" \notin Others
    /\ {MaxRosterMoves, MaxBanners} \subseteq Nat

-----------------------------------------------------------------------------
(* The roster.  A device is in the room under the id of its welcome,       *)
(* "temp", until its hello gives it its "own".                             *)

VARIABLES
    devices,        \* at the relay: each other device "out", "temp" or "own"
    self,           \* and this one
    pipe,           \* this device's connection: "none", "down" or "up"
    frames,         \* rosters on their way to it
    knownIds,       \* state.js's roster, or NoRoster
    peers,          \* state.peers
    locked, verified,
    lockDoubt,      \* the timer of the doubt is armed
    doubt,          \* its banner is up
    moves,
    announced,      \* history: the ids the last frame announced
    standing,       \* history: ids in the room since this roster began
    owed            \* history: ids that came since, not announced yet

rosterVars == <<devices, self, pipe, frames, knownIds, peers, locked, verified, lockDoubt, doubt,
                moves, announced, standing, owed>>
lockVars == <<peers, locked, verified, lockDoubt, doubt>>

NoRoster == {<<"none", "none">>}
Provisional == <<"self", "temp">>       \* state.peerId: set from welcome.you, never renamed

Members(d, s) == {<<o, d[o]>> : o \in {x \in Others : d[x] # "out"}}
                 \cup (IF s = "out" THEN {} ELSE {<<"self", s>>})
Room == Members(devices, self)

RosterMoves == moves < MaxRosterMoves /\ moves' = moves + 1

\* _announce_peers(): the room as it is now, to all that are in it.
Told(list) == frames' = IF pipe = "up" THEN Append(frames, list) ELSE frames

Becomes(o, place) ==
    /\ devices' = [devices EXCEPT ![o] = place]
    /\ LET room == Members(devices', self) IN
       /\ Told(room)
       /\ standing' = standing \cap room
       /\ owed' = (owed \cap room) \cup (IF pipe = "up" THEN room \ Room ELSE {})
    /\ UNCHANGED <<self, pipe, knownIds, lockVars, announced>>

Arrives(o) == devices[o] = "out" /\ Becomes(o, "temp") /\ RosterMoves
Renamed(o) == devices[o] = "temp" /\ Becomes(o, "own") /\ UNCHANGED moves
Departs(o) == devices[o] # "out" /\ Becomes(o, "out") /\ RosterMoves

\* This device joins: the welcome lists the room with it in it.
Welcome ==
    /\ pipe = "down"
    /\ pipe' = "up" /\ self' = "temp"
    /\ frames' = <<Members(devices, "temp")>>
    /\ IF knownIds = NoRoster
       THEN standing' = Members(devices, "temp") /\ owed' = {}
       ELSE UNCHANGED <<standing, owed>>
    /\ announced' = {}
    /\ UNCHANGED <<devices, knownIds, lockVars, moves>>

\* Its hello is adopted, and the sender is told too.
Hello ==
    /\ self = "temp" /\ self' = "own"
    /\ frames' = Append(frames, Members(devices, "own"))
    /\ standing' = standing \cap Members(devices, "own")
    /\ UNCHANGED <<devices, pipe, knownIds, lockVars, moves, announced, owed>>

\* PEERS_CHANGED: the doubt may not outlive its solitude.  Fault: it is left to the timer.
CompanyUnheard == UNCHANGED <<lockDoubt, doubt>>
Company ==
    IF peers' > 1 THEN lockDoubt' = FALSE /\ doubt' = FALSE ELSE UNCHANGED <<lockDoubt, doubt>>

\* setPeers(): the roster becomes the list.  Fault: who was ever in it stays.
ListedEver == Head(frames) \cup knownIds
Listed == Head(frames)

Hears ==
    /\ frames # <<>>
    /\ frames' = Tail(frames)
    /\ peers' = Cardinality(Head(frames))
    /\ knownIds' = Listed
    /\ announced' = IF knownIds = NoRoster THEN {}
                    ELSE (Head(frames) \ knownIds) \ {Provisional}
    /\ owed' = owed \ announced'
    /\ Company
    /\ UNCHANGED <<devices, self, pipe, locked, verified, moves, standing>>

\* resetRoster().  Fault: the roster of the last connection is kept.
ForgottenNot == knownIds
Forgotten == NoRoster

Unplugs(place) == pipe' = place /\ self' = "out" /\ frames' = <<>> /\ announced' = {}

\* The connection drops: "reconnecting", and the roster starts anew.
Drops ==
    /\ pipe = "up" /\ RosterMoves
    /\ Unplugs("down")
    /\ knownIds' = Forgotten
    /\ UNCHANGED <<devices, lockVars, standing, owed>>

\* setTransport() reconnects under the roster it has: who is in it is no arrival.
SwitchesPipe ==
    /\ pipe = "up" /\ RosterMoves
    /\ Unplugs("down")
    /\ owed' = owed \ knownIds
    /\ UNCHANGED <<devices, knownIds, lockVars, standing>>

\* leaveRoom(): clearKey() says "unlocked", which takes the banner and not its timer.
LeavesRoom ==
    /\ pipe # "none" /\ RosterMoves
    /\ Unplugs("none")
    /\ knownIds' = Forgotten
    /\ locked' = FALSE /\ verified' = FALSE /\ doubt' = FALSE
    /\ UNCHANGED <<devices, peers, lockDoubt, standing, owed>>

\* openSession(), of a room with others in it or none; a locked one arms the doubt.
OpensRoom(l) ==
    /\ pipe = "none"
    /\ \E d \in [Others -> {"out", "own"}] : devices' = d
    /\ pipe' = "down"
    /\ locked' = l /\ verified' = FALSE
    /\ lockDoubt' = (lockDoubt \/ l)
    /\ doubt' = (doubt /\ l)
    /\ UNCHANGED <<self, frames, knownIds, peers, moves, announced, standing, owed>>

\* Something of this room opened under this key.
Verifies ==
    /\ locked /\ ~verified /\ pipe = "up"
    /\ \E o \in Others : devices[o] # "out"
    /\ verified' = TRUE /\ doubt' = FALSE
    /\ UNCHANGED <<devices, self, pipe, frames, knownIds, peers, locked, lockDoubt, moves,
                   announced, standing, owed>>

\* LOCK_DOUBT_MS after the locked session began.
DoubtFires ==
    /\ lockDoubt /\ lockDoubt' = FALSE
    /\ doubt' = (doubt \/ (locked /\ ~verified /\ pipe = "up" /\ peers <= 1))
    /\ UNCHANGED <<devices, self, pipe, frames, knownIds, peers, locked, verified, moves,
                   announced, standing, owed>>

RosterInit ==
    /\ devices = [o \in Others |-> "out"] /\ self = "out" /\ pipe = "none" /\ frames = <<>>
    /\ knownIds = NoRoster /\ peers = 1
    /\ locked = FALSE /\ verified = FALSE /\ lockDoubt = FALSE /\ doubt = FALSE
    /\ moves = 0 /\ announced = {} /\ standing = {} /\ owed = {}

RosterNext ==
    \/ \E o \in Others : Arrives(o) \/ Renamed(o) \/ Departs(o)
    \/ Welcome \/ Hello \/ Hears \/ Drops \/ SwitchesPipe \/ LeavesRoom
    \/ \E l \in BOOLEAN : OpensRoom(l)
    \/ Verifies \/ DoubtFires
RosterSpec == RosterInit /\ [][RosterNext]_rosterVars

\* state.js:239-243: an id that was in the room when this roster began, and has been since,
\* is never announced, whatever drops and switches come between.  That is less than the
\* comment's "devices": one that was there under the id of its welcome is announced once,
\* when its hello gives it another (state.js:254 compares ids).
NoCryWolf == announced \cap standing = {}

\* banners.js:122-126: an arrival is the only moment another holder of the key is
\* noticeable: once its frames are heard, every device that came has been announced.
ArrivalsAnnounced == pipe = "up" /\ frames = <<>> => owed = {}

\* banners.js:207-216: the doubt claims solitude and no proof; with every frame heard
\* nobody else is in the room it stands over.
DoubtIsTrue ==
    doubt => /\ locked /\ ~verified
             /\ pipe = "up" /\ frames = <<>> => \A o \in Others : devices[o] = "out"

\* state.js:239-243: what is announced is another device.  Not so: the device's own
\* hello renames it to an id that is neither in its roster nor state.peerId.
NeverItself == \A x \in announced : x[1] # "self"

-----------------------------------------------------------------------------
(* The arrival banner: banners are numbered, and a new one takes the place *)
(* of the last.                                                            *)

VARIABLES
    bannerUp,       \* the banner that is up, or 0
    shown,          \* how many there have been
    clocks,         \* those whose timer runs
    hovering,       \* those whose closure saw the pointer enter and not leave
    focused,        \* the focus is in the one that is up
    refocus,        \* those whose focusout waits for the next frame
    orphaned,       \* history: those whose timer was started after they were gone
    snatched        \* history: a banner went while read, or by the timer of another

bannerVars == <<bannerUp, shown, clocks, hovering, focused, refocus, orphaned, snatched>>

\* dismiss(): the timer of the banner that goes is cancelled.  Fault: it runs on.
StoppedNot == clocks
Stopped == clocks \ {bannerUp}

\* A browser may or may not report the focus that goes with a removed element.
Removes ==
    /\ focused' = FALSE
    /\ \E reported \in {FALSE, focused} :
           refocus' = IF reported THEN refocus \cup {bannerUp} ELSE refocus

\* show("joined").
ShowsBanner ==
    /\ shown < MaxBanners /\ shown' = shown + 1
    /\ Removes
    /\ bannerUp' = shown'
    /\ clocks' = Stopped \cup {shown'}
    /\ UNCHANGED <<hovering, orphaned, snatched>>

ClosesBanner ==
    /\ bannerUp # 0 /\ bannerUp' = 0
    /\ Removes
    /\ clocks' = Stopped
    /\ UNCHANGED <<shown, hovering, orphaned, snatched>>

\* The pointer and the focus stop the clock.
PointerEnters ==
    /\ bannerUp # 0 /\ bannerUp \notin hovering
    /\ hovering' = hovering \cup {bannerUp} /\ clocks' = Stopped
    /\ UNCHANGED <<bannerUp, shown, focused, refocus, orphaned, snatched>>

PointerLeaves ==
    /\ bannerUp \in hovering
    /\ hovering' = hovering \ {bannerUp}
    /\ clocks' = IF focused THEN clocks ELSE clocks \cup {bannerUp}
    /\ UNCHANGED <<bannerUp, shown, focused, refocus, orphaned, snatched>>

FocusEnters ==
    /\ bannerUp # 0 /\ ~focused
    /\ focused' = TRUE /\ clocks' = Stopped
    /\ UNCHANGED <<bannerUp, shown, hovering, refocus, orphaned, snatched>>

FocusLeaves ==
    /\ focused /\ focused' = FALSE
    /\ refocus' = refocus \cup {bannerUp}
    /\ UNCHANGED <<bannerUp, shown, clocks, hovering, orphaned, snatched>>

Held(n) == n \in hovering \/ (n = bannerUp /\ focused)

\* A frame later the clock starts, unless attention came back.
Restarts(n) ==
    /\ n \in refocus /\ refocus' = refocus \ {n}
    /\ clocks' = IF Held(n) THEN clocks ELSE clocks \cup {n}
    /\ orphaned' = IF n # bannerUp /\ ~Held(n) THEN orphaned \cup {n} ELSE orphaned
    /\ UNCHANGED <<bannerUp, shown, hovering, focused, snatched>>

\* A timer dismisses whatever banner has the key.
ClockFires(n) ==
    /\ n \in clocks
    /\ clocks' = Stopped \ {n}
    /\ bannerUp' = 0
    /\ Removes
    /\ snatched' = (snatched \/ (bannerUp # 0 /\ n \notin orphaned /\ (n # bannerUp \/ Held(n))))
    /\ UNCHANGED <<shown, hovering, orphaned>>

BannerInit ==
    /\ bannerUp = 0 /\ shown = 0 /\ clocks = {} /\ hovering = {} /\ focused = FALSE
    /\ refocus = {} /\ orphaned = {} /\ snatched = FALSE

BannerNext ==
    \/ ShowsBanner \/ ClosesBanner \/ PointerEnters \/ PointerLeaves \/ FocusEnters \/ FocusLeaves
    \/ \E n \in refocus : Restarts(n)
    \/ \E n \in clocks : ClockFires(n)
BannerSpec == BannerInit /\ [][BannerNext]_bannerVars

\* dom.js:107-116: a banner goes by its own clock, and never from under the pointer or
\* the focus, but for a clock that a focusout started once its banner was gone.
StaysWhileRead == ~snatched

\* What the user is told of the others is so, and stays to be read.
NoticesAreTrue == NoCryWolf /\ ArrivalsAnnounced /\ DoubtIsTrue /\ StaysWhileRead
=============================================================================
