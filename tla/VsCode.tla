------------------------------- MODULE VsCode -------------------------------
(***************************************************************************)
(* The VS Code extension's room (room.mjs), commands (ui/commands.mjs),    *)
(* remembered key (secrets.mjs) and settings.  The commands await key      *)
(* derivations, the relay's welcome, prompts and seals, and nothing counts *)
(* the openings: any of them may overlap.                                  *)
(*                                                                         *)
(* A room is a share key and whether a PIN locks it.  Sealing and opening  *)
(* are external, and so is the keychain, whose writes are taken in order.  *)
(***************************************************************************)
EXTENDS Naturals, Sequences, FiniteSets, SequencesExt

CONSTANTS
    MaxVsKeys,              \* share keys
    MaxVsOpens,             \* bound: openings, and windows loaded again
    MaxVsFrames             \* bound: frames that arrive

ASSUME VsAssumption == {MaxVsKeys, MaxVsOpens, MaxVsFrames} \subseteq Nat

NoVsRoom == [key |-> 0, locked |-> FALSE]
VsRooms == [key : 1..MaxVsKeys, locked : BOOLEAN]

VARIABLES
    vsSession,      \* room.mjs's session
    vsLink,         \* the room relay.js connects to
    vsWelcomed,     \* and whether it is in it
    vsDeriving,     \* openings whose keys are derived: [n, room, saves]
    vsLinking,      \* openings that wait for "connected", as they subscribed
    vsParting,      \* lock and unlock while the eviction is sealed: [room, then]
    vsResuming,     \* the session resume() has loaded and asks the PIN of
    vsOpens,
    vsRemember, vsKeychain,     \* settings.rememberKey; the key on disk
    vsReported,     \* history: the room a command reported live, while it is
    vsLeft,         \* history: nothing was opened since the user left
    vsEvictions, vsEvictionsIn  \* EVICT frames being opened: [n, room]; how many came

vsRoomVars == <<vsSession, vsLink, vsWelcomed>>
vsOpenVars == <<vsDeriving, vsLinking, vsParting, vsResuming, vsOpens>>
vsKeepVars == <<vsRemember, vsKeychain, vsReported, vsLeft>>
vsFrameVars == <<vsEvictions, vsEvictionsIn>>
vsVars == <<vsRoomVars, vsOpenVars, vsKeepVars, vsFrameVars>>

-----------------------------------------------------------------------------
\* close(): nothing without a session.
VsClose ==
    IF vsSession = NoVsRoom THEN UNCHANGED <<vsRoomVars, vsReported>>
    ELSE vsSession' = NoVsRoom /\ vsLink' = NoVsRoom /\ vsWelcomed' = FALSE /\ vsReported' = NoVsRoom

\* start() and resume(): open() as far as the derivation.
VsStart(room, saves) ==
    /\ vsOpens < MaxVsOpens /\ vsOpens' = vsOpens + 1
    /\ VsClose
    /\ vsDeriving' = vsDeriving \cup {[n |-> vsOpens', room |-> room, saves |-> saves]}

\* newSession, joinSession.
VsOpenCommand(room) ==
    /\ VsStart(room, TRUE)
    /\ UNCHANGED <<vsLinking, vsParting, vsResuming, vsRemember, vsKeychain, vsLeft, vsFrameVars>>

\* resume(): a locked session waits for its PIN, or for the prompt to be dismissed.
VsResume ==
    /\ vsResuming # NoVsRoom /\ vsResuming' = NoVsRoom
    /\ VsStart(vsResuming, FALSE)
    /\ UNCHANGED <<vsLinking, vsParting, vsRemember, vsKeychain, vsLeft, vsFrameVars>>
VsResumeDismissed ==
    /\ vsResuming.locked /\ vsResuming' = NoVsRoom
    /\ UNCHANGED <<vsRoomVars, vsDeriving, vsLinking, vsParting, vsOpens, vsKeepVars, vsFrameVars>>

\* The rest of open(): whichever derivation ends last has the room.
VsDerived(d) ==
    /\ vsDeriving' = vsDeriving \ {d}
    /\ vsSession' = d.room /\ vsLink' = d.room /\ vsWelcomed' = FALSE
    /\ vsLinking' = Append(vsLinking, d)
    /\ vsReported' = NoVsRoom /\ vsLeft' = FALSE
    /\ UNCHANGED <<vsParting, vsResuming, vsOpens, vsRemember, vsKeychain, vsFrameVars>>
\* derive() throws: the PIN is too short.
VsDeriveThrows(d) ==
    /\ d.room.locked /\ vsDeriving' = vsDeriving \ {d}
    /\ UNCHANGED <<vsRoomVars, vsLinking, vsParting, vsResuming, vsOpens, vsKeepVars, vsFrameVars>>

\* "connected" ends every opening that waits, in order: what the last of them saves.
VsLastSaving ==
    {i \in DOMAIN vsLinking : vsLinking[i].saves /\ \A j \in DOMAIN vsLinking : vsLinking[j].saves => j <= i}
VsWelcome ==
    /\ vsLink # NoVsRoom /\ ~vsWelcomed /\ vsWelcomed' = TRUE
    /\ vsLinking' = <<>>
    /\ vsKeychain' \in IF vsRemember /\ VsLastSaving # {} THEN {vsLinking[i].room : i \in VsLastSaving}
                       ELSE {vsKeychain}
    /\ vsReported' = IF vsLinking # <<>> /\ Last(vsLinking).saves THEN Last(vsLinking).room
                     ELSE vsReported
    /\ UNCHANGED <<vsSession, vsLink, vsDeriving, vsParting, vsResuming, vsOpens, vsRemember, vsLeft, vsFrameVars>>
\* relay.js connects again by itself.
VsLinkDrops ==
    /\ vsWelcomed /\ vsWelcomed' = FALSE
    /\ UNCHANGED <<vsSession, vsLink, vsOpenVars, vsKeepVars, vsFrameVars>>
\* Timers of one length: the oldest opening gives up first.
VsOpenTimesOut ==
    /\ vsLinking # <<>> /\ vsLinking' = Tail(vsLinking)
    /\ UNCHANGED <<vsRoomVars, vsDeriving, vsParting, vsResuming, vsOpens, vsKeepVars, vsFrameVars>>

VsLeave ==
    /\ VsClose
    /\ vsKeychain' = NoVsRoom /\ vsLeft' = (vsDeriving = {})
    /\ UNCHANGED <<vsOpenVars, vsRemember, vsFrameVars>>

\* lockSession, unlockSession: the room is told before it is left.
VsPart(then) ==
    /\ vsSession # NoVsRoom /\ (then = "unlock" => vsSession.locked)
    /\ vsParting' = vsParting \cup {[room |-> vsSession, then |-> then]}
    /\ UNCHANGED <<vsRoomVars, vsDeriving, vsLinking, vsResuming, vsOpens, vsKeepVars, vsFrameVars>>
\* Locking reads the session again, unlocking kept it.
VsParted(part) ==
    /\ vsParting' = vsParting \ {part}
    /\ \/ part.then = "lock" /\ vsSession = NoVsRoom
          /\ UNCHANGED <<vsRoomVars, vsDeriving, vsOpens, vsReported>>
       \/ part.then = "lock" /\ vsSession # NoVsRoom
          /\ VsStart([key |-> vsSession.key, locked |-> TRUE], TRUE)
       \/ part.then = "unlock" /\ VsStart([key |-> part.room.key, locked |-> FALSE], TRUE)
    /\ UNCHANGED <<vsLinking, vsResuming, vsRemember, vsKeychain, vsLeft, vsFrameVars>>

\* settings.apply(): switching the memory off forgets.
VsSetRemember ==
    /\ vsRemember' = ~vsRemember
    /\ vsKeychain' = IF vsRemember' THEN vsKeychain ELSE NoVsRoom
    /\ UNCHANGED <<vsRoomVars, vsOpenVars, vsReported, vsLeft, vsFrameVars>>

\* The window is loaded again: whatever ran is gone, the keychain is not.
VsReload ==
    /\ vsOpens < MaxVsOpens /\ vsOpens' = vsOpens + 1
    /\ vsSession' = NoVsRoom /\ vsLink' = NoVsRoom /\ vsWelcomed' = FALSE /\ vsReported' = NoVsRoom
    /\ vsDeriving' = {} /\ vsLinking' = <<>> /\ vsParting' = {}
    /\ vsEvictions' = {}
    /\ vsResuming' = IF vsRemember THEN vsKeychain ELSE NoVsRoom
    /\ UNCHANGED <<vsRemember, vsKeychain, vsLeft, vsEvictionsIn>>
VsEvictArrives ==
    /\ vsWelcomed /\ vsEvictionsIn < MaxVsFrames /\ vsEvictionsIn' = vsEvictionsIn + 1
    /\ vsEvictions' = vsEvictions \cup {[n |-> vsEvictionsIn', room |-> vsLink]}
    /\ UNCHANGED <<vsRoomVars, vsOpenVars, vsKeepVars>>
\* An eviction shuts the connection and onEvicted() drops the session, of whatever room
\* it was.
VsEvictOpens(f) ==
    /\ vsEvictions' = vsEvictions \ {f}
    /\ vsSession' = NoVsRoom
    /\ vsLink' = NoVsRoom /\ vsWelcomed' = FALSE /\ vsReported' = NoVsRoom
    /\ UNCHANGED <<vsOpenVars, vsRemember, vsKeychain, vsLeft, vsEvictionsIn>>
-----------------------------------------------------------------------------
VsInit ==
    /\ vsSession = NoVsRoom /\ vsLink = NoVsRoom /\ vsWelcomed = FALSE
    /\ vsDeriving = {} /\ vsLinking = <<>> /\ vsParting = {} /\ vsOpens = 0
    /\ vsRemember = TRUE /\ vsKeychain \in {NoVsRoom} \cup VsRooms /\ vsResuming = vsKeychain
    /\ vsReported = NoVsRoom /\ vsLeft = FALSE
    /\ vsEvictions = {} /\ vsEvictionsIn = 0

VsNext ==
    \/ \E room \in VsRooms : VsOpenCommand(room)
    \/ VsResume \/ VsResumeDismissed
    \/ \E d \in vsDeriving : VsDerived(d) \/ VsDeriveThrows(d)
    \/ VsWelcome \/ VsLinkDrops \/ VsOpenTimesOut \/ VsLeave
    \/ \E then \in {"lock", "unlock"} : VsPart(then)
    \/ \E part \in vsParting : VsParted(part)
    \/ VsSetRemember \/ VsReload
    \/ VsEvictArrives \/ \E f \in vsEvictions : VsEvictOpens(f)

VsSpec == VsInit /\ [][VsNext]_vsVars
-----------------------------------------------------------------------------
\* The session the commands and the status bar speak of is the room the connection is
\* in, through overlapping openings, evictions and reloads (room.mjs:49-51).
VsOneRoom == vsSession = vsLink

\* When a command has reported its session live, the keychain holds that session or
\* nothing: the next window resumes the room one is in, also after openings that
\* overlapped, were given up or were welcomed late (commands.mjs:197-206).
VsKeychainFollows ==
    vsReported # NoVsRoom => vsReported = vsSession /\ vsKeychain \in {NoVsRoom, vsSession}

\* Having left with nothing under way, no session comes back, not even with the next
\* window (commands.mjs:148-154); and nothing is kept while the memory is off.
VsForgets ==
    /\ vsLeft => vsSession = NoVsRoom /\ vsKeychain = NoVsRoom
    /\ ~vsRemember => vsKeychain = NoVsRoom

-----------------------------------------------------------------------------
(* The clips it received, and copying them.                                *)

VARIABLES
    vsRung,         \* settings.syncMode
    vsOpening, vsClipsIn,       \* clips being opened: [n, risky]; how many came
    vsHistory,      \* clips received, by the same records
    vsAsking,       \* those whose warning is up
    vsCopied        \* history: clips copied: [n, risky, shown]

vsClipVars == <<vsRung, vsOpening, vsClipsIn, vsHistory, vsAsking, vsCopied>>

VsSetRung(rung) ==
    /\ vsRung # rung /\ vsRung' = rung
    /\ UNCHANGED <<vsOpening, vsClipsIn, vsHistory, vsAsking, vsCopied>>

VsClipArrives(risky) ==
    /\ vsClipsIn < MaxVsFrames /\ vsClipsIn' = vsClipsIn + 1
    /\ vsOpening' = vsOpening \cup {[n |-> vsClipsIn', risky |-> risky]}
    /\ UNCHANGED <<vsRung, vsHistory, vsAsking, vsCopied>>
\* onClip(): nothing arrives while the rung is Off.
VsClipOpens(clip) ==
    /\ vsOpening' = vsOpening \ {clip}
    /\ vsHistory' = IF vsRung = "off" THEN vsHistory ELSE vsHistory \cup {clip}
    /\ UNCHANGED <<vsRung, vsClipsIn, vsAsking, vsCopied>>

\* putOnClipboard(): the Live rung only.
VsPut(clip, shown) ==
    vsCopied' = IF vsRung # "live" THEN vsCopied
                ELSE vsCopied \cup {[n |-> clip.n, risky |-> clip.risky, shown |-> shown]}
\* copyClip(), of the latest clip or of one picked.
VsCopyClip(clip) ==
    /\ IF clip.risky THEN vsAsking' = vsAsking \cup {clip} /\ UNCHANGED vsCopied
       ELSE VsPut(clip, 0) /\ UNCHANGED vsAsking
    /\ UNCHANGED <<vsRung, vsOpening, vsClipsIn, vsHistory>>
\* The warning was about this clip.
VsCopyAnyway(clip, agreed) ==
    /\ vsAsking' = vsAsking \ {clip}
    /\ IF agreed THEN VsPut(clip, clip.n) ELSE UNCHANGED vsCopied
    /\ UNCHANGED <<vsRung, vsOpening, vsClipsIn, vsHistory>>

VsCopyInit ==
    /\ vsRung = "live"
    /\ vsOpening = {} /\ vsClipsIn = 0 /\ vsHistory = {} /\ vsAsking = {} /\ vsCopied = {}
VsCopyNext ==
    \/ \E rung \in {"live", "manual", "off"} : VsSetRung(rung)
    \/ \E risky \in BOOLEAN : VsClipArrives(risky)
    \/ \E clip \in vsOpening : VsClipOpens(clip)
    \/ \E clip \in vsHistory : VsCopyClip(clip)
    \/ \E clip \in vsAsking, agreed \in BOOLEAN : VsCopyAnyway(clip, agreed)

VsCopySpec == VsCopyInit /\ [][VsCopyNext]_vsClipVars

\* A received clip that reads like a command is copied only once its own text was shown
\* and agreed to, whatever arrived meanwhile (commands.mjs:208-244).
VsConsent == \A c \in vsCopied : c.risky => c.shown = c.n

\* room.mjs:49-51, commands.mjs:208-244: one room, remembered as long as it is wanted,
\* and no command copied unread.
VsCodeKeepsItsWord == VsOneRoom /\ VsKeychainFollows /\ VsForgets /\ VsConsent
=============================================================================
