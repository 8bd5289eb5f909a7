------------------------------- MODULE Files -------------------------------
(***************************************************************************)
(* What a session shows of its files: the tiles (src/files/registry.js and *)
(* the announcements of transfer.js), the prompts of the device that holds *)
(* them and the grants given from one (ui/panels/filesPanel.js), and the   *)
(* object URLs a save leaves behind, and the images copied here.  Four      *)
(* small machines; the transfer of the bytes is module Transfer.           *)
(*                                                                         *)
(* A definition marked "Fault" is the next one with a bug one could        *)
(* plausibly write.                                                        *)
(***************************************************************************)
EXTENDS Integers, Sequences, FiniteSets, SequencesExt

CONSTANTS
    MaxFiles,       \* bound: files the holder adds
    Slots,          \* FILES.MAX_COUNT
    MaxHops,        \* bound: departures of the viewer and drops of the holder
    MaxAsks, MaxSwaps,  \* bounds: requests; connections that take the asker's id
    MaxSaves,       \* bound: saves
    MaxImages       \* bound: reads of an image, and sessions

ASSUME FilesAssumption ==
    /\ MaxFiles \in Nat /\ Slots \in Nat /\ MaxHops \in Nat /\ MaxAsks \in Nat
    /\ MaxSwaps \in Nat /\ MaxSaves \in Nat /\ MaxImages \in Nat

-----------------------------------------------------------------------------
(* The tiles.  A holder of files, a viewer who may reload its tab, and the *)
(* relay between them, which passes on what it is given in order.          *)

File == 1..MaxFiles

VARIABLES
    items,          \* the holder's local entries
    thumbing,       \* files whose thumbnail is awaited in add()
    online,         \* the holder is connected
    knownPeers,     \* transfer.js's count
    toHolder,       \* counts the relay has told it and it has not handled
    viewing,        \* the viewer is in the room
    tiles,          \* the entries it has for the holder's files
    toViewer,       \* <<"meta" or "gone", file>>
    added,          \* the files added so far
    slipped,        \* history: removed under their thumbnail, or retracted unheard
    missed,         \* history: told to nobody, the holder being away, or to a viewer with no room
    hops

tilesVars == <<items, thumbing, online, knownPeers, toHolder, viewing, tiles, toViewer,
               added, slipped, missed, hops>>

Count == IF viewing THEN 2 ELSE 1

\* signal(): what is said offline is lost, and so is what is said to nobody.
Say(frames) == toViewer' = IF online /\ viewing THEN toViewer \o frames ELSE toViewer
Metas(fs) == SetToSeq({<<"meta", f>> : f \in fs})

\* add(): the slot is taken before the thumbnail is awaited.  Fault: after it.
SlotSoonLate(f) == {}
SlotSoon(f) == {f}
AddFile(f) ==
    /\ f = added + 1 /\ added' = f
    /\ IF Cardinality(items) >= Slots THEN UNCHANGED <<items, thumbing>>
       ELSE items' = items \cup SlotSoon(f) /\ thumbing' = thumbing \cup {f}
    /\ UNCHANGED <<online, knownPeers, toHolder, viewing, tiles, toViewer, slipped, missed, hops>>

\* The thumbnail is there: FILE_ADDED, and the file is announced, removed or not.
ThumbDone(f) ==
    /\ f \in thumbing /\ thumbing' = thumbing \ {f}
    /\ items' = IF f \in SlotSoon(f) THEN items ELSE items \cup {f}
    /\ Say(<<<<"meta", f>>>>)
    /\ missed' = IF online THEN missed ELSE missed \cup {f}
    /\ UNCHANGED <<online, knownPeers, toHolder, viewing, tiles, added, slipped, hops>>

TakenOut(fs) ==
    /\ items' = items \ fs
    /\ slipped' = slipped \cup (IF online THEN fs \cap thumbing ELSE fs)
    /\ UNCHANGED <<thumbing, online, knownPeers, toHolder, viewing, tiles, added, missed, hops>>
RemoveFile(f) == f \in items /\ TakenOut({f}) /\ Say(<<<<"gone", f>>>>)

\* clear(): the same for every entry.  Fault: it tells nobody.
Retracted(fs) == SetToSeq({<<"gone", f>> : f \in fs})
ClearedQuiet(fs) == <<>>
Cleared(fs) == Retracted(fs)
ClearAll == items # {} /\ TakenOut(items) /\ Say(Cleared(items))

\* PEERS_CHANGED: announce everything again when the room grew.
\* Fault: the count is only ever raised.
KnownMost(count) == IF count > knownPeers THEN count ELSE knownPeers
Known(count) == count
HearsCount ==
    /\ toHolder # <<>> /\ toHolder' = Tail(toHolder)
    /\ LET count == Head(toHolder) IN
       /\ knownPeers' = Known(count)
       /\ IF count > knownPeers THEN Say(Metas(items)) /\ missed' = missed \ items
          ELSE UNCHANGED <<toViewer, missed>>
    /\ UNCHANGED <<items, thumbing, online, viewing, tiles, added, slipped, hops>>

\* onFileMeta: the cap, and addRemote: no second entry for an id.
NoRoomForTile == Cardinality(tiles) >= Slots
Tiled(f) == tiles \cup {f}
\* The viewer hears an announcement, or a retraction: applyGone.
ViewerHears ==
    /\ toViewer # <<>> /\ toViewer' = Tail(toViewer)
    /\ LET m == Head(toViewer) IN
       IF m[1] = "gone" THEN tiles' = tiles \ {m[2]} /\ UNCHANGED missed
       ELSE /\ tiles' = IF NoRoomForTile THEN tiles ELSE Tiled(m[2])
            /\ missed' = IF NoRoomForTile THEN missed \cup ({m[2]} \ tiles) ELSE missed
    /\ UNCHANGED <<items, thumbing, online, knownPeers, toHolder, viewing, added, slipped, hops>>

\* The viewer comes with a fresh tab, and goes; each is told to the holder.
ViewerMoves ==
    /\ viewing' = ~viewing
    /\ viewing => hops < MaxHops
    /\ hops' = IF viewing THEN hops + 1 ELSE hops
    /\ tiles' = {} /\ toViewer' = <<>>
    /\ toHolder' = IF online THEN Append(toHolder, IF viewing THEN 1 ELSE 2) ELSE toHolder
    /\ missed' = IF online THEN missed ELSE missed \cup items
    /\ UNCHANGED <<items, thumbing, online, knownPeers, added, slipped>>

\* The holder's connection drops and comes back; counts it had not heard are lost.
HolderDrops ==
    /\ online /\ hops < MaxHops /\ hops' = hops + 1 /\ online' = FALSE
    /\ toHolder' = <<>> /\ missed' = missed \cup (IF toHolder = <<>> THEN {} ELSE items)
    /\ UNCHANGED <<items, thumbing, knownPeers, viewing, tiles, toViewer, added, slipped>>
HolderBack ==
    /\ ~online /\ online' = TRUE /\ toHolder' = <<Count>>
    /\ UNCHANGED <<items, thumbing, knownPeers, viewing, tiles, toViewer, added, slipped, missed, hops>>

TilesInit ==
    /\ items = {} /\ thumbing = {} /\ online = TRUE /\ knownPeers = 1 /\ toHolder = <<>>
    /\ viewing = FALSE /\ tiles = {} /\ toViewer = <<>>
    /\ added = 0 /\ slipped = {} /\ missed = {} /\ hops = 0
TilesWork == HearsCount \/ ViewerHears \/ HolderBack \/ \E f \in File : ThumbDone(f)
TilesNext ==
    \/ TilesWork \/ ClearAll \/ ViewerMoves \/ HolderDrops
    \/ \E f \in File : AddFile(f) \/ RemoveFile(f)
TilesSpec == TilesInit /\ [][TilesNext]_tilesVars

\* Neither side ever holds more files than the session allows, however many adds
\* overlap in their thumbnails (registry.js:69-74).
CapHolds == Cardinality(items) <= Slots /\ Cardinality(tiles) <= Slots

Calm == online /\ thumbing = {} /\ toHolder = <<>> /\ toViewer = <<>>
\* Once everything said was heard, a tile names a file its holder has (registry.js:243-244),
\* those removed under their thumbnail or while offline apart.
TileIsBacked == Calm => tiles \subseteq items \cup slipped

\* And the viewer knows every file of the room, also one that joined late
\* (transfer.js:1023-1024), unless it had no room or the holder was away.
KnowsTheFiles == Calm /\ viewing => items \subseteq tiles \cup missed
-----------------------------------------------------------------------------
(* The prompts.  The holder answers a peer known by an id alone; the id    *)
(* passes from one device to the next when its connection ends.            *)

VARIABLES
    device,         \* the device that has the id, or 0; devices are numbered
    lastDevice,     \* the last of them
    heard,          \* what the relay has told and the holder has not handled
    roster,         \* the id is in it: "yes", "no"; "none": it was reset
    granted,        \* the id is in allowances
    grantees,       \* history: the devices the user gave it to
    heirs,          \* history: those its departure is not heard before
    prompts,        \* open prompts: the devices that asked
    ticking,        \* the interval of sweep() runs
    unasked,        \* history: the devices served with no prompt, on the grant
    swaps, asks

grantsVars == <<device, lastDevice, heard, roster, granted, grantees, heirs, prompts, ticking,
                unasked, swaps, asks>>

\* The id's connection ends, or another device asks for it and is given it.
IdGoes ==
    /\ device # 0 /\ device' = 0 /\ heard' = Append(heard, <<"peers", FALSE>>)
    /\ UNCHANGED <<lastDevice, roster, granted, grantees, heirs, prompts, ticking, unasked, swaps, asks>>
IdComes ==
    /\ device = 0 /\ swaps < MaxSwaps /\ swaps' = swaps + 1
    /\ device' = lastDevice + 1 /\ lastDevice' = device'
    /\ heard' = Append(heard, <<"peers", TRUE>>)
    /\ UNCHANGED <<roster, granted, grantees, heirs, prompts, ticking, unasked, asks>>
AsksForFile ==
    /\ device # 0 /\ asks < MaxAsks /\ asks' = asks + 1
    /\ heard' = Append(heard, <<"req", device>>)
    /\ UNCHANGED <<device, lastDevice, roster, granted, grantees, heirs, prompts, ticking, unasked, swaps>>

\* forgetPeer on PEER_LEFT.  Fault: the grant outlives the connection.
ForgetsNot(left) == granted
Forgets(left) == granted /\ ~left

\* setPeers: the first roster after a reset is taken as it is, and nobody has left.
HearsRoster ==
    /\ heard # <<>> /\ Head(heard)[1] = "peers" /\ heard' = Tail(heard)
    /\ LET now == Head(heard)[2]  left == roster = "yes" /\ ~now IN
       /\ roster' = IF now THEN "yes" ELSE "no"
       /\ granted' = Forgets(left)
    /\ UNCHANGED <<device, lastDevice, grantees, heirs, prompts, ticking, unasked, swaps, asks>>

\* onFileReq: allowed() serves on the grant, or asks.
HearsRequest ==
    /\ heard # <<>> /\ Head(heard)[1] = "req" /\ heard' = Tail(heard)
    /\ LET d == Head(heard)[2] IN
       IF granted THEN unasked' = unasked \cup {d} /\ UNCHANGED <<prompts, ticking>>
       ELSE prompts' = Append(prompts, d) /\ ticking' = TRUE /\ UNCHANGED unasked
    /\ UNCHANGED <<device, lastDevice, roster, granted, grantees, heirs, swaps, asks>>

\* settle(): the interval stops with the last prompt.  Fault: with any.
TicksQuits(left) == FALSE
Ticks(left) == left # <<>>
Settled(left) == prompts' = left /\ ticking' = Ticks(left)
AnswerOne(i) ==
    /\ Settled(RemoveAt(prompts, i))
    /\ UNCHANGED <<device, lastDevice, heard, roster, granted, grantees, heirs, unasked, swaps, asks>>

\* The id is free, and there is no departure of it left to hear of.
NoDepartureToCome ==
    device = 0 /\ roster # "yes" /\ \A j \in DOMAIN heard : heard[j] # <<"peers", TRUE>>
LastToHave == IF NoDepartureToCome THEN lastDevice + 1 ELSE lastDevice

\* "Allow all": the grant, and every prompt queued from the same device.
AnswerAlways(i) ==
    /\ Settled(<<>>)
    /\ granted' = TRUE
    /\ grantees' = grantees \cup {prompts[i]}
    /\ heirs' = heirs \cup prompts[i]..LastToHave
    /\ UNCHANGED <<device, lastDevice, heard, roster, unasked, swaps, asks>>

Sweeps ==
    /\ ticking /\ prompts # <<>> /\ Settled(Tail(prompts))
    /\ UNCHANGED <<device, lastDevice, heard, roster, granted, grantees, heirs, unasked, swaps, asks>>

\* The holder's own connection drops: resetRoster, then the roster of the welcome.
HolderReconnects ==
    /\ swaps < MaxSwaps /\ swaps' = swaps + 1
    /\ heard' = <<<<"peers", device # 0>>>>
    /\ roster' = "none"
    /\ heirs' = heirs \cup (IF granted THEN {IF device = 0 THEN lastDevice + 1 ELSE device} ELSE {})
    /\ UNCHANGED <<device, lastDevice, granted, grantees, prompts, ticking, unasked, asks>>

GrantsInit ==
    /\ device = 0 /\ lastDevice = 0 /\ heard = <<>> /\ roster = "no"
    /\ granted = FALSE /\ grantees = {} /\ heirs = {}
    /\ prompts = <<>> /\ ticking = FALSE /\ unasked = {} /\ swaps = 0 /\ asks = 0
GrantsWork == Sweeps \/ HearsRoster \/ HearsRequest
GrantsNext ==
    \/ GrantsWork \/ IdGoes \/ IdComes \/ AsksForFile \/ HolderReconnects
    \/ \E i \in DOMAIN prompts : AnswerOne(i) \/ AnswerAlways(i)

\* No device is served without a prompt but those the user allowed, and those whose
\* predecessor's departure the holder does not hear after the grant: one that has the id,
\* or is next to have it, when the holder's own connection comes back, and one that had
\* it before "Allow all" was pressed.  Whoever comes after them is asked about
\* (transfer.js:1055-1059, which excepts nobody).
GrantFollowsDevice == unasked \subseteq grantees \cup heirs

\* A prompt nobody answers expires (filesPanel.js:374-377).
PromptsEnd == prompts # <<>> ~> prompts = <<>>

\* transfer.js:1050-1059: consent is of a person, for the device it was given to: no other
\* is served unasked, those apart that GrantFollowsDevice names, and what nobody answers ends.
ConsentHolds == []GrantFollowsDevice /\ PromptsEnd
-----------------------------------------------------------------------------
(* The object URLs.  save() makes one and sets a timer of its own.         *)

VARIABLES
    held,           \* the entry is in the list
    url,            \* f.url, or 0; URLs are numbered
    live,           \* URLs not revoked
    timers,         \* those whose timer has not fired
    saves

urlsVars == <<held, url, live, timers, saves>>

\* revokeUrl(f), before a second save.  Fault: it is not called.
RevokedNot == live
Revoked == live \ {url}
SaveFile ==
    /\ held /\ saves < MaxSaves /\ saves' = saves + 1
    /\ url' = saves' /\ live' = Revoked \cup {saves'} /\ timers' = timers \cup {saves'}
    /\ UNCHANGED held

\* The timer revokes the entry's URL if it is still its own.  Fault: whichever it is.
TimedAny(u) == url # 0
Timed(u) == url = u
UrlTimer(u) ==
    /\ u \in timers /\ timers' = timers \ {u}
    /\ IF Timed(u) THEN live' = live \ {url} /\ url' = 0 ELSE UNCHANGED <<live, url>>
    /\ UNCHANGED <<held, saves>>

\* release(), from remove(), clear() and dropRemote().
Release ==
    /\ held /\ held' = FALSE /\ live' = live \ {url} /\ url' = 0
    /\ UNCHANGED <<timers, saves>>

UrlsInit == held = TRUE /\ url = 0 /\ live = {} /\ timers = {} /\ saves = 0
UrlsNext == SaveFile \/ Release \/ \E u \in timers : UrlTimer(u)
UrlsSpec == UrlsInit /\ [][UrlsNext]_urlsVars

\* A live URL, which keeps five megabytes, has a listed file and a timer to end it.
NoUrlLeaks == live \subseteq timers /\ (~held => live = {})

\* The newest save's URL lasts until its own timer, though an older save's fires meanwhile.
SaveKeepsItsUrl == held /\ saves \in timers => saves \in live
-----------------------------------------------------------------------------
(* Images copied on this device, which capture.js hands to the files: a    *)
(* focus or a click reads the clipboard, and two reads may overlap.        *)

VARIABLES
    imgBoard,       \* the image on the clipboard, or 0
    imgBound,       \* the rung binds the clipboard
    imgReads,       \* reads under way: [n, img], img 0 until it is read
    imgAsked,
    imgLast,        \* lastImageKey
    imgRoom,        \* the sessions so far
    imgShared       \* history: announced: [img, room, bound]

imagesVars == <<imgBoard, imgBound, imgReads, imgAsked, imgLast, imgRoom, imgShared>>

CopiesImage(img) ==
    /\ imgBoard' = img
    /\ UNCHANGED <<imgBound, imgReads, imgAsked, imgLast, imgRoom, imgShared>>
SetsImageRung ==
    /\ imgBound' = ~imgBound
    /\ UNCHANGED <<imgBoard, imgReads, imgAsked, imgLast, imgRoom, imgShared>>
AsksForImage ==
    /\ imgBound /\ imgAsked < MaxImages /\ imgAsked' = imgAsked + 1
    /\ imgReads' = imgReads \cup {[n |-> imgAsked', img |-> 0]}
    /\ UNCHANGED <<imgBoard, imgBound, imgLast, imgRoom, imgShared>>
\* os.readImage() answers, and the image is hashed if the rung still binds.
ReadsImage(r) ==
    /\ r.img = 0
    /\ imgReads' = (imgReads \ {r}) \cup
           (IF imgBound /\ imgBoard # 0 THEN {[r EXCEPT !.img = imgBoard]} ELSE {})
    /\ UNCHANGED <<imgBoard, imgBound, imgAsked, imgLast, imgRoom, imgShared>>
\* imageKey() answers: no await from the comparison on.
HashesImage(r) ==
    /\ r.img # 0 /\ imgReads' = imgReads \ {r}
    /\ IF imgBound /\ r.img # imgLast
       THEN /\ imgLast' = r.img
            /\ imgShared' = Append(imgShared, [img |-> r.img, room |-> imgRoom, bound |-> imgBound])
       ELSE UNCHANGED <<imgLast, imgShared>>
    /\ UNCHANGED <<imgBoard, imgBound, imgAsked, imgRoom>>
\* forgetSession()
ForgetsImage ==
    /\ imgRoom < MaxImages /\ imgRoom' = imgRoom + 1 /\ imgLast' = 0
    /\ UNCHANGED <<imgBoard, imgBound, imgReads, imgAsked, imgShared>>

ImagesInit ==
    /\ imgBoard = 0 /\ imgBound = TRUE /\ imgReads = {} /\ imgAsked = 0
    /\ imgLast = 0 /\ imgRoom = 1 /\ imgShared = <<>>
ImagesNext ==
    \/ SetsImageRung \/ AsksForImage \/ ForgetsImage
    \/ \E img \in 1..2 : CopiesImage(img)
    \/ \E r \in imgReads : ReadsImage(r) \/ HashesImage(r)
ImagesSpec == ImagesInit /\ [][ImagesNext]_imagesVars

\* An image is shared once: a session announces it again only after another, however
\* many reads of it overlap, and none once the rung came down (capture.js:201-232).
ImageSharedOnce == \A i \in DOMAIN imgShared :
    /\ imgShared[i].bound
    /\ i > 1 /\ imgShared[i].room = imgShared[i - 1].room => imgShared[i].img # imgShared[i - 1].img

\* registry.js:69-74: files stay bounded and agreed: no more than the session allows, each
\* tile of the others backed, each file known to them, no URL kept or lost, and no image
\* announced twice.
FilesKept ==
    CapHolds /\ TileIsBacked /\ KnowsTheFiles /\ NoUrlLeaks /\ SaveKeepsItsUrl /\ ImageSharedOnce
=============================================================================
