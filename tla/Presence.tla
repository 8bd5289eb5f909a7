------------------------------ MODULE Presence ------------------------------
(***************************************************************************)
(* What a device says of its user as he works: the text he types           *)
(* (src/ui/panels/editor.js) and where his pointer is                      *)
(* (src/ui/features/cursors.js).  Both throttle what they send with a      *)
(* timer for the rest of the interval.  Two small machines of one event    *)
(* loop, timers and the other devices' frames in any order.                *)
(*                                                                         *)
(* A definition marked "Fault" is the next one with a bug one could        *)
(* plausibly write.                                                        *)
(***************************************************************************)
EXTENDS Integers

CONSTANTS
    MaxTyped, MaxTyping,    \* bounds: texts typed here, texts and clips from a peer
    MaxPointer              \* bound: moves of the pointer and changes of its gates

ASSUME PresenceAssumption == {MaxTyped, MaxTyping, MaxPointer} \subseteq Nat

-----------------------------------------------------------------------------
(* The editor, on a rung that shares.  A text is who wrote it, which it is *)
(* and its size: "small" may be streamed (STREAM_MAX_BYTES), "large" only  *)
(* sent as a clip, and "huge" not even that (MAX_BYTES).  The empty text   *)
(* and white space have no author.                                         *)

Empty == [by |-> "none", n |-> 0, size |-> "small"]
Space == [by |-> "none", n |-> 1, size |-> "small"]

VARIABLES
    ta,             \* the textarea's value
    applied,        \* lastAppliedText
    streamed,       \* what was streamed last, or need not be
    idleFor,        \* the text the idle timer was armed on, or NoText
    streamTimer,    \* the throttle's timer is set
    lastClip,       \* state.lastSent: the session's current clip
    offer,          \* the clip main.js offers, or NoText
    idleCommits,    \* history: <<text committed by the idle timer, text it was armed on>>
    lastBy,         \* history: who changed the textarea last
    told,           \* history: what the room last heard of this text, or this text came from
    typedTexts, peerTexts

editorVars == <<ta, applied, streamed, idleFor, streamTimer, lastClip, offer, idleCommits, lastBy,
                told, typedTexts, peerTexts>>

NoText == [by |-> "none", n |-> -1, size |-> "small"]
Blank(text) == text \in {Empty, Space}

\* isDirty.  Fault: what peers have seen counts as sent.
DirtyUnseen == ~Blank(ta) /\ ta # applied /\ ta # streamed
Dirty == ~Blank(ta) /\ ta # applied

\* onInput: the idle timer again, and a flush if none is due.
Input(text) ==
    /\ ta' = text /\ idleFor' = text /\ streamTimer' = TRUE /\ lastBy' = "user"
    /\ UNCHANGED <<applied, streamed, lastClip, offer, idleCommits, told, peerTexts>>
Types(bulk) == typedTexts < MaxTyped /\ typedTexts' = typedTexts + 1
               /\ Input([by |-> "me", n |-> typedTexts', size |-> bulk])
TypesBlank == ta # Space /\ typedTexts < MaxTyped /\ typedTexts' = typedTexts + 1 /\ Input(Space)
TypesBack == ta # applied /\ typedTexts < MaxTyped /\ typedTexts' = typedTexts + 1 /\ Input(applied)

\* setText(), from Clear, from a clip or an accepted offer.
Filled(text) == ta' = text /\ applied' = text /\ idleFor' = NoText
\* Fault: emptying the editor is not streamed.
EmptiedQuiet == streamTimer
Emptied == TRUE
Clears ==
    /\ typedTexts < MaxTyped /\ typedTexts' = typedTexts + 1
    /\ Filled(Empty) /\ streamTimer' = Emptied /\ lastBy' = "user"
    /\ UNCHANGED <<streamed, lastClip, offer, idleCommits, told, peerTexts>>
Accepts ==
    /\ offer # NoText /\ offer' = NoText
    /\ Filled(offer) /\ streamed' = offer /\ told' = offer /\ lastBy' = "user"
    /\ UNCHANGED <<streamTimer, lastClip, idleCommits, typedTexts, peerTexts>>

\* commit(), by the idle timer or on blur: the session's clip is not sent again, and one
\* over the limit not at all, which leaves it unsent.
Commit(how) ==
    /\ idleFor' = NoText
    /\ \/ /\ Blank(ta) \/ (ta # lastClip /\ ta.size = "huge")
          /\ UNCHANGED <<applied, lastClip, idleCommits, told>>
       \/ /\ ~Blank(ta) /\ ta = lastClip
          /\ applied' = ta /\ UNCHANGED <<lastClip, idleCommits, told>>
       \/ /\ ~Blank(ta) /\ ta # lastClip /\ ta.size # "huge"
          /\ applied' = ta /\ lastClip' = ta /\ told' = ta
          /\ idleCommits' = IF how = "idle" THEN idleCommits \cup {<<ta, idleFor>>} ELSE idleCommits
    /\ UNCHANGED <<ta, streamed, streamTimer, offer, lastBy, typedTexts, peerTexts>>
IdleFires == idleFor # NoText /\ Commit("idle")
Blur == Commit("blur")

\* flushStream: no text twice, and none that is larger than a stream may be.
StreamFires ==
    /\ streamTimer /\ streamTimer' = FALSE
    /\ IF ta # streamed /\ ta.size = "small" THEN streamed' = ta /\ told' = ta
       ELSE UNCHANGED <<streamed, told>>
    /\ UNCHANGED <<ta, applied, idleFor, lastClip, offer, idleCommits, lastBy, typedTexts, peerTexts>>

\* onStreamed: dropped over unsent work, and else it stops the idle timer.
\* Fault: it does not stop it.
IdleKept == idleFor
IdleStopped == NoText
PeerTypes ==
    /\ peerTexts < MaxTyping /\ peerTexts' = peerTexts + 1
    /\ IF Dirty THEN UNCHANGED <<ta, applied, streamed, idleFor, told, lastBy>>
       ELSE /\ ta' = [by |-> "peer", n |-> peerTexts', size |-> "small"]
            /\ applied' = ta' /\ streamed' = ta' /\ told' = ta'
            /\ idleFor' = IdleStopped /\ lastBy' = "peer"
    /\ UNCHANGED <<streamTimer, lastClip, offer, idleCommits, typedTexts>>

\* TEXT_RECEIVED: the clip is applied, or offered over unsent work.
ClipComes(onClipboard, bulk) ==
    /\ peerTexts < MaxTyping /\ peerTexts' = peerTexts + 1
    /\ LET text == [by |-> "peer", n |-> peerTexts', size |-> bulk] IN
       /\ lastClip' = IF onClipboard THEN text ELSE lastClip
       /\ IF Dirty THEN offer' = text /\ UNCHANGED <<ta, applied, streamed, idleFor, told, lastBy>>
          ELSE /\ Filled(text) /\ streamed' = text /\ told' = text
               /\ offer' = NoText /\ lastBy' = "peer"
    /\ UNCHANGED <<streamTimer, idleCommits, typedTexts>>

EditorInit == ta = Empty /\ applied = Empty /\ streamed = Empty /\ idleFor = NoText
    /\ streamTimer = FALSE /\ lastClip = Empty /\ offer = NoText /\ idleCommits = {}
    /\ lastBy = "user" /\ told = Empty /\ typedTexts = 0 /\ peerTexts = 0
EditorWork == IdleFires \/ StreamFires
EditorNext == EditorWork \/ TypesBlank \/ TypesBack \/ Clears \/ Accepts \/ Blur \/ PeerTypes
    \/ (\E bulk \in {"small", "large", "huge"} : Types(bulk))
    \/ \E onClipboard \in BOOLEAN, bulk \in {"small", "large"} : ClipComes(onClipboard, bulk)

\* What the idle timer makes a clip of is the text this device's typing left there, and
\* not what a peer put in its place (editor.js:261-266).
IdleCommitsOwn == \A c \in idleCommits : c[1] = c[2]

Unsent == ~Blank(ta) /\ ta # applied
\* A peer's keystrokes and clips never take away text that was not sent (editor.js:257-259).
PeerNeverOverwrites == [][Unsent /\ ta' # ta => lastBy' = "user"]_editorVars

\* What is on screen goes out by itself: what may be streamed and was not last, and what
\* may be sent and is not the session's clip.
GoesOut == (ta.size = "small" /\ ta # streamed) \/ (~Blank(ta) /\ ta.size # "huge" /\ ta # lastClip)
\* The last keystroke reaches the room (editor.js:148-152), as a stream or, above the limit
\* of streams, as a clip (editor.js:164-166): text that goes out was heard in the end, unless
\* other text takes its place.
KeystrokesArrive == told # ta /\ GoesOut ~> told = ta \/ ~GoesOut

\* An emptied editor empties the far window (editor.js:102-104).  Not so if the text went
\* out as a clip before its stream was due, or was too large for one: what was streamed
\* last is then still the empty text, and it is not streamed again.
EmptyArrives == ta = Empty /\ told # Empty ~> told = Empty \/ ta # Empty

\* What editor.js:261-266 calls the bug: a peer's unfinished line sent as a clip of ours.
CommitIsOurs == [][lastClip' # lastClip /\ peerTexts' = peerTexts => lastClip'.by = "me"]_editorVars
-----------------------------------------------------------------------------
(* The pointer: what this device sends of it, and what a peer draws.       *)

VARIABLES
    at,             \* where the pointer is; positions are numbered
    inside, focusedWin, shownTab, wantCursors,      \* what canSend() asks for
    pendingPos,     \* the newest position not sent, or 0
    due,            \* the interval since the last send is over
    flushTimer, rafPending,
    lastPos,        \* what peers last heard, or 0
    broadcasting,
    sweeping,       \* the sweep's interval runs
    linkUp,         \* the connection is open
    drawn,          \* where a peer draws this pointer, or 0
    owedPos,        \* history: a move that may be sent has not been
    pointerMoves

pointerVars == <<at, inside, focusedWin, shownTab, wantCursors, pendingPos, due, flushTimer,
                 rafPending, lastPos, broadcasting, sweeping, linkUp, drawn, owedPos, pointerMoves>>

CanSend == wantCursors /\ shownTab /\ focusedWin /\ inside
Moves == pointerMoves < MaxPointer /\ pointerMoves' = pointerMoves + 1

\* schedule(): a frame if it is due, or a timer for the rest.  Fault: only a frame.
ScheduleDropping == rafPending' = (rafPending \/ due) /\ UNCHANGED flushTimer
Schedule ==
    IF rafPending \/ flushTimer THEN UNCHANGED <<rafPending, flushTimer>>
    ELSE rafPending' = due /\ flushTimer' = ~due

\* onPointerMove.
PointerMoves ==
    /\ Moves /\ at' = at + 1 /\ inside' = TRUE
    /\ IF wantCursors /\ shownTab /\ focusedWin THEN pendingPos' = at' /\ owedPos' = TRUE /\ Schedule
       ELSE UNCHANGED <<pendingPos, owedPos, rafPending, flushTimer>>
    /\ UNCHANGED <<focusedWin, shownTab, wantCursors, due, lastPos, broadcasting, sweeping, linkUp, drawn>>
Interval ==
    /\ ~due /\ due' = TRUE
    /\ IF flushTimer THEN flushTimer' = FALSE /\ rafPending' = TRUE
       ELSE UNCHANGED <<flushTimer, rafPending>>
    /\ UNCHANGED <<at, inside, focusedWin, shownTab, wantCursors, pendingPos, lastPos, broadcasting,
                   sweeping, linkUp, drawn, owedPos, pointerMoves>>

\* flush(), in the frame: the gates are asked again.  Fault: the sweep is not started.
SweepAsIs == sweeping
SweepRuns == TRUE
FlushPointer ==
    /\ rafPending /\ rafPending' = FALSE /\ pendingPos' = 0 /\ owedPos' = FALSE
    /\ IF pendingPos # 0 /\ CanSend
       THEN /\ lastPos' = pendingPos /\ due' = FALSE /\ broadcasting' = TRUE /\ sweeping' = SweepRuns
            /\ drawn' = IF linkUp THEN pendingPos ELSE drawn
       ELSE UNCHANGED <<lastPos, due, broadcasting, sweeping, drawn>>
    /\ UNCHANGED <<at, inside, focusedWin, shownTab, wantCursors, flushTimer, linkUp, pointerMoves>>

\* stopBroadcast(): "gone" is said once, and only if peers believe in a pointer.
StopBroadcast ==
    /\ flushTimer' = FALSE /\ pendingPos' = 0 /\ lastPos' = 0 /\ broadcasting' = FALSE /\ owedPos' = FALSE
    /\ drawn' = IF broadcasting /\ linkUp THEN 0 ELSE drawn
Leaves(focus, shown) ==
    /\ Moves /\ inside' = FALSE /\ focusedWin' = focus /\ shownTab' = shown /\ StopBroadcast
    /\ UNCHANGED <<at, wantCursors, due, rafPending, sweeping, linkUp>>
Blurs == focusedWin /\ Leaves(FALSE, shownTab)
HidesTab == shownTab /\ Leaves(focusedWin, FALSE)
LeavesWindow == inside /\ Leaves(focusedWin, shownTab)
ComesBack ==
    /\ ~focusedWin \/ ~shownTab
    /\ focusedWin' = TRUE /\ shownTab' = TRUE
    /\ UNCHANGED <<at, inside, wantCursors, pendingPos, due, flushTimer, rafPending, lastPos,
                   broadcasting, sweeping, linkUp, drawn, owedPos, pointerMoves>>

\* The setting changes, and nobody is told: the sweep finds out.
TogglesCursors ==
    /\ Moves /\ wantCursors' = ~wantCursors
    /\ UNCHANGED <<at, inside, focusedWin, shownTab, pendingPos, due, flushTimer, rafPending, lastPos,
                   broadcasting, sweeping, linkUp, drawn, owedPos>>
Sweep ==
    /\ sweeping
    /\ IF ~wantCursors THEN StopBroadcast /\ sweeping' = FALSE
       ELSE sweeping' = broadcasting
            /\ UNCHANGED <<flushTimer, pendingPos, lastPos, broadcasting, owedPos, drawn>>
    /\ UNCHANGED <<at, inside, focusedWin, shownTab, wantCursors, due, rafPending, linkUp, pointerMoves>>

\* The connection ends: the relay's roster takes the pointer off the others' screens.
LinkDrops ==
    /\ linkUp /\ Moves /\ linkUp' = FALSE /\ drawn' = 0
    /\ broadcasting' = FALSE /\ lastPos' = 0 /\ owedPos' = FALSE
    /\ UNCHANGED <<at, inside, focusedWin, shownTab, wantCursors, pendingPos, due, flushTimer, rafPending, sweeping>>
LinkReturns ==
    /\ ~linkUp /\ linkUp' = TRUE
    /\ UNCHANGED <<at, inside, focusedWin, shownTab, wantCursors, pendingPos, due, flushTimer, rafPending,
                   lastPos, broadcasting, sweeping, drawn, owedPos, pointerMoves>>
\* A peer's own sweep drops a pointer that has been silent for twelve seconds.
PeerForgets ==
    /\ drawn # 0 /\ due /\ pendingPos = 0 /\ drawn' = 0
    /\ UNCHANGED <<at, inside, focusedWin, shownTab, wantCursors, pendingPos, due, flushTimer, rafPending,
                   lastPos, broadcasting, sweeping, linkUp, owedPos, pointerMoves>>

PointerInit == at = 0 /\ inside = FALSE /\ focusedWin = TRUE /\ shownTab = TRUE /\ wantCursors = TRUE
    /\ pendingPos = 0 /\ due = TRUE /\ flushTimer = FALSE /\ rafPending = FALSE /\ lastPos = 0
    /\ broadcasting = FALSE /\ sweeping = FALSE /\ linkUp = TRUE /\ drawn = 0 /\ owedPos = FALSE
    /\ pointerMoves = 0
PointerWork == Interval \/ FlushPointer \/ (~wantCursors /\ Sweep) \/ LinkReturns
PointerNext == Interval \/ FlushPointer \/ Sweep \/ LinkReturns \/ PointerMoves \/ Blurs \/ HidesTab
    \/ LeavesWindow \/ ComesBack \/ TogglesCursors \/ LinkDrops \/ PeerForgets

\* The position a pointer comes to rest at is sent, or the pointer is gone
\* (cursors.js:171-173).
RestIsSent == owedPos ~> ~owedPos

GhostPointer == drawn # 0 /\ ~CanSend
\* A device that stopped showing its pointer is not drawn for long: not when it left
\* (cursors.js:206-208), and not when the setting was switched off with nobody told.
NoGhostStays == GhostPointer ~> ~GhostPointer

\* editor.js:148-152, 257-266 and cursors.js:171-208: what is typed and pointed at is what
\* the others end up with, and never at the cost of what they have typed.
PresenceSettles ==
    /\ []IdleCommitsOwn /\ PeerNeverOverwrites
    /\ KeystrokesArrive /\ RestIsSent /\ NoGhostStays
=============================================================================
