------------------------------- MODULE Store --------------------------------
(***************************************************************************)
(* What a browser keeps for the client, in three small machines:           *)
(*  - the history of clips of a tab (src/core/history.js), in memory and   *)
(*    in sessionStorage, through room changes, reloads and refused writes; *)
(*  - the settings two tabs share through localStorage (src/core/state.js, *)
(*    src/core/storage.js), each with a copy of its own and the storage    *)
(*    events of the other on their way, the rung that binds the clipboard  *)
(*    (src/ui/features/syncMode.js) and the remembered key.                *)
(*                                                                         *)
(* A definition marked "Fault" is the next one with a bug one could        *)
(* plausibly write.                                                        *)
(***************************************************************************)
EXTENDS Integers, Sequences

CONSTANTS
    MaxClipsKept,                       \* MAX_CLIPS
    MaxHistClips, MaxHistMoves,         \* bounds: clips; room changes, clears and reloads
    MaxSets                             \* bound: changes of settings, opens and reloads

ASSUME StoreAssumption ==
    /\ {MaxHistClips, MaxHistMoves, MaxSets} \subseteq Nat
    /\ MaxClipsKept \in Nat \ {0}

-----------------------------------------------------------------------------
(* The history of one tab.  Rooms 1 and 2 are one share key, locked with   *)
(* two PINs; room 3 is another key's.  0 is no room.                       *)

VARIABLES
    clips,          \* newest first, as <<room it was captured in, number>>
    roomId, sealed,
    record,         \* the stored record, or NoRecord
    now,            \* the room of the session, 0 until it has identified itself
    histClips, histMoves,
    wiped           \* history: clips the user or a move has cleared

historyVars == <<clips, roomId, sealed, record, now, histClips, histMoves, wiped>>

HistRoom == 1..3
NoRecord == [room |-> 0, clips |-> <<>>]
HistMoves == histMoves < MaxHistMoves /\ histMoves' = histMoves + 1

\* persist(): the browser may refuse the write, and the old record stays.
Persists(before, r, list) ==
    \E taken \in BOOLEAN : record' =
        IF list = <<>> /\ r = 0 THEN NoRecord
        ELSE IF taken THEN [room |-> r, clips |-> list] ELSE before

\* add(), of a clip copied here or received; texts are distinct.
AddsClip ==
    /\ histClips < MaxHistClips /\ histClips' = histClips + 1
    /\ LET list == <<<<now, histClips'>>>> \o clips
           kept == IF Len(list) > MaxClipsKept THEN MaxClipsKept ELSE Len(list)
       IN clips' = SubSeq(list, 1, kept) /\ Persists(record, roomId, clips')
    /\ UNCHANGED <<roomId, sealed, now, histMoves, wiped>>

Wiped(list) == wiped' = wiped \cup {list[i] : i \in DOMAIN list}

\* clear(): removed first, so that a refused write leaves nothing.  Fault: it is only written over.
RemovedNot == record
Removed == NoRecord
Clear == clips' = <<>> /\ sealed' = FALSE /\ Wiped(clips)
ClearsHistory ==
    /\ HistMoves /\ Clear
    /\ IF roomId # 0 THEN Persists(Removed, roomId, <<>>) ELSE record' = Removed
    /\ UNCHANGED <<roomId, now, histClips>>

\* What the list is scoped to.  Fault: the share key.
NextIdByKey(room) == IF room = 3 THEN 3 ELSE 1
NextId(room) == room

\* onKeyChanged.
KeyChanged(room) ==
    /\ HistMoves /\ now' = room /\ roomId' = NextId(room)
    /\ IF roomId \notin {0, NextId(room)} THEN Clear /\ Persists(Removed, roomId', <<>>)
       ELSE sealed' = FALSE /\ UNCHANGED <<clips, wiped>> /\ Persists(record, roomId', clips)
    /\ UNCHANGED histClips

\* The tab reloads: hydrate().
Reloads ==
    /\ HistMoves /\ now' = 0
    /\ roomId' = record.room
    /\ clips' = IF record.room = 0 THEN <<>> ELSE record.clips
    /\ sealed' = (clips' # <<>>)
    /\ record' = IF record.room = 0 THEN NoRecord ELSE record
    /\ UNCHANGED <<histClips, wiped>>

HistoryInit == clips = <<>> /\ roomId = 0 /\ sealed = FALSE /\ record = NoRecord /\ now = 0
    /\ histClips = 0 /\ histMoves = 0 /\ wiped = {}
HistoryNext == AddsClip \/ ClearsHistory \/ (\E room \in HistRoom : KeyChanged(room)) \/ Reloads
HistorySpec == HistoryInit /\ [][HistoryNext]_historyVars

\* What all() returns.
Shown == IF sealed THEN {} ELSE {clips[i] : i \in DOMAIN clips}

\* A clip is shown in the room it is from, and in no other, whatever share key they have in
\* common, and before the session has said which room it is none is, but the tab's own
\* (history.js:153-163).
ShownOfThisRoom == \A c \in Shown : c[1] \in {0, now}

\* A clip that was cleared, or left behind, never comes back: not by a reload either, when
\* the browser has refused to write the empty list.
ClearedStaysCleared == Shown \cap wiped = {}

\* history.js:153-163: the history of a room is that room's, and no more than was kept.
HistoryIsOfItsRoom == ShownOfThisRoom /\ ClearedStaysCleared
-----------------------------------------------------------------------------
(* The settings of two tabs.  disk is the record both share.               *)

Tab == {1, 2}
Other(t) == 3 - t
Rung == {"off", "live"}

VARIABLES
    settings,       \* each tab's copy: [rung, remember]
    disk,           \* the stored one
    events,         \* storage events on their way to a tab: what disk was after a write
    binding,        \* the tab reads and writes the system's clipboard
    sessionOf,      \* the key of the tab's session
    lastKey,        \* the remembered key, or 0
    chosen,         \* history: what the user last set of each, in any tab
    crossed,        \* history: a tab wrote while it was owed an event
    sets

settingsVars == <<settings, disk, events, binding, sessionOf, lastKey, chosen, crossed, sets>>

Sets(t) == sets < MaxSets /\ sets' = sets + 1 /\ crossed' = (crossed \/ events[t] # <<>>)

\* saveSetting: merged into what is on disk.  Fault: the tab's whole object is written.
MergedWhole(t, name, value) == [settings[t] EXCEPT ![name] = value]
Merged(t, name, value) == [disk EXCEPT ![name] = value]
SaveSetting(t, name, value) ==
    /\ settings' = [settings EXCEPT ![t][name] = value]
    /\ disk' = Merged(t, name, value)
    /\ events' = IF disk' = disk THEN events
                 ELSE [events EXCEPT ![Other(t)] = Append(@, disk')]
    /\ chosen' = [chosen EXCEPT ![name] = value]

\* syncMode.js set(): applyMode() binds the clipboard on the top rung.
SetsRung(t, rung) ==
    /\ settings[t].rung # rung /\ Sets(t) /\ SaveSetting(t, "rung", rung)
    /\ binding' = [binding EXCEPT ![t] = rung = "live"]
    /\ UNCHANGED <<sessionOf, lastKey>>

\* The switch acts on the key already saved, too.  Fault: on later ones alone.
KeyKept(t, remember) == lastKey
KeyAfter(t, remember) == IF remember THEN sessionOf[t] ELSE 0
SetsRemember(t) ==
    /\ Sets(t) /\ SaveSetting(t, "remember", ~settings[t].remember)
    /\ lastKey' = KeyAfter(t, ~settings[t].remember)
    /\ UNCHANGED <<binding, sessionOf>>

\* openSession: saveLastKey, as the tab's own copy says.
OpensKey(t, key) ==
    /\ key # sessionOf[t] /\ Sets(t)
    /\ sessionOf' = [sessionOf EXCEPT ![t] = key]
    /\ lastKey' = IF settings[t].remember THEN key ELSE 0
    /\ UNCHANGED <<settings, disk, events, binding, chosen>>

\* watchSettings: what another tab saved is adopted, and the rung applied.
\* Fault: it is adopted and not applied.
AppliedNot(t, rung) == binding[t]
Applies(t, rung) == rung = "live"
HearsSettings(t) ==
    /\ events[t] # <<>>
    /\ LET saved == Head(events[t]) IN
       /\ settings' = [settings EXCEPT ![t] = saved]
       /\ binding' = [binding EXCEPT ![t] =
                        IF saved.rung = settings[t].rung THEN @ ELSE Applies(t, saved.rung)]
    /\ events' = [events EXCEPT ![t] = Tail(@)]
    /\ UNCHANGED <<disk, sessionOf, lastKey, chosen, crossed, sets>>

\* restore(), in a tab that starts again.
Restores(t) ==
    /\ sets < MaxSets /\ sets' = sets + 1
    /\ settings' = [settings EXCEPT ![t] = disk] /\ events' = [events EXCEPT ![t] = <<>>]
    /\ binding' = [binding EXCEPT ![t] = disk.rung = "live"]
    /\ UNCHANGED <<disk, sessionOf, lastKey, chosen, crossed>>

SettingsInit ==
    /\ disk = [rung |-> "live", remember |-> TRUE] /\ settings = [t \in Tab |-> disk]
    /\ events = [t \in Tab |-> <<>>] /\ binding = [t \in Tab |-> TRUE]
    /\ sessionOf = [t \in Tab |-> 1] /\ lastKey = 1 /\ chosen = disk /\ crossed = FALSE /\ sets = 0
SettingsNext == \E t \in Tab :
    \/ \E rung \in Rung : SetsRung(t, rung)
    \/ SetsRemember(t)
    \/ \E key \in {1, 2} : OpensKey(t, key)
    \/ HearsSettings(t)
    \/ Restores(t)
SettingsSpec == SettingsInit /\ [][SettingsNext]_settingsVars

\* What is on disk is what the user last asked for, in whichever tab: no tab writes its own
\* stale copy of another setting over it (state.js:121-126).
NothingReverted == disk = chosen

\* Two tabs with nothing on its way agree with the disk on every setting, and read the
\* clipboard on the top rung alone (syncMode.js:104-113); unless writes have crossed.
TabsAgree == (\A t \in Tab : events[t] = <<>>) /\ ~crossed =>
    \A t \in Tab : settings[t] = disk /\ binding[t] = (disk.rung = "live")

\* With the switch off, no key is on disk (storage.js:99-102); unless a tab had not heard.
KeyForgotten == ~disk.remember /\ ~crossed => lastKey = 0

\* state.js:121-152: what tabs share is what the user last asked for, in all of them.
SettingsAgree == NothingReverted /\ TabsAgree /\ KeyForgotten

\* What a device keeps between visits, in either store, is what the user left there
\* (history.js:153-184, state.js:121-152).
StoreAgrees == HistoryIsOfItsRoom /\ SettingsAgree
=============================================================================
