# RealtimeClipboard in TLA+

RealtimeClipboard keeps the clipboards of a person's devices in step. A device
derives a room name (`room_hash`) and a key from a short code; it seals every
clip with the key and hands it to a relay, which passes it to the other devices
of the room and never sees the text. This directory holds specifications of the
program, the TLC instances that check them, and TLAPS proofs about them. All
line numbers refer to the repository this directory stands beside.

* [The system](#the-system): its parts, their state, what is hard about them
* [Modules](#modules): which module models which part, what it composes
* [Relay](#relay-the-model-of-one-relay-process), [Client](#client-the-models-of-a-device),
  [Small machines](#small-machines): how state and actions correspond to the code
* [Fairness](#fairness), [Runs](#runs)
* [Findings](#findings), and [other divergences](#other-divergences) that no run shows
* [Proofs](#proofs)
* [Not modelled](#not-modelled)

## The system

### Relay (`backend/main.py`, `backend/shared.py`)

One FastAPI process on one asyncio loop. State: the tables `rooms` (name ->
`Room`) and `ip_conns` (address -> live connections); per `Room` its peers, the
sequence number and last clip, the admission token, the eviction task, the time
of creation; per `Peer` its id, nickname, connection and rate buckets; per
connection a `WsConnection` or an `SseConnection` with a bounded queue.

| operation | code | what it does |
|---|---|---|
| join | `_join` | door checks; retire an expired room; find or make the room; refuse or admit; welcome with roster and last clip; announce |
| inbound frame | `_handle_raw` | clip: number, keep, fan out. cursor, stream, verify, file-meta, file-gone: stamp, fan out. rtc-*, file-*: stamp, forward to one. hello: claim an id, announce. ping: answer |
| fan-out | `_broadcast`, `_send`, `_forward` | concurrent writes, each with a deadline; whoever misses it is dropped |
| departure | `_depart`, the generator of `sse()` with its detached task | drop the peer, then announce or start the eviction clock |
| eviction | `_evict_later` | after the TTL, forget the room if nobody is in it |
| lifetime cap | `_retire`, `_sweep_expired` | cut off every peer of an expired room and forget it |
| shared backend | `shared.py` | publish and subscribe across replicas, shared roster and last clip, degradation and recovery |

Hard: every `await` is an interleaving point. Removals race (a departure, a
failed fan-out, a retirement of the same peer); tasks hold on to `Room` objects
whose name may have passed to another; a write to a peer may hang; a stream may
end before it starts; limits are looked at before a suspension and relied on
after it. Correct means: exact accounts, one id per connection, one token per
room, nobody stranded in a room its name does not lead to, an empty room on its
way out and no occupied one, everybody told who is there and sent the newest
clip, no handler stuck.

### Client connection (`src/transport/`)

`relay.js` owns one attempt at a time: an epoch number, a channel (`ws.js` or
`sse.js`), a probe timer, a heartbeat, a backoff, a count of failures per
transport, `refusal`, `stuck` and `blocked`. It connects, probes, fails over to
the other transport, retries, reclaims its peer id with `hello`, and gives up on
refusals that will not change. `sse.js` adds an outbox, one POST in flight, and
one retry of a batch. Hard: callbacks of attempts that are over, timers against
answers, duplicated frames. Correct means: at most one live channel, nothing an
old attempt does matters, a usable transport is found in the end, a refusal is
final only for the session it was given to, frames arrive at least once and in
order.

### Clipboard capture (`src/clipboard/capture.js`, `guard.js`, `os.js`)

Watches the operating system's clipboard and writes received clips to it. State:
`lastSent` (loop suppression), a pending slot for a clip that could not be
written without a gesture, arrival and write counters, the clipboard generation.
Hard: writes finish out of order, a refused write takes back its claim, a pending
clip competes with newer ones and with other sessions. Correct means: no clip is
echoed, the newest received clip is the one left on the clipboard, and what was
pending in one session never surfaces in another.

### Session pipeline (`src/main.js`, `core/verify.js`, `core/frames.js`, `core/crypto.js`, `core/state.js`)

Opens a session (derive keys, connect), seals and sends, opens and applies,
queues what is sent while the connection opens, verifies that both ends hold one
key. State: the session generation, keys, `queuedClip`, `receivedSeq`, the probe's
nonce and epoch. Hard: every `await` of WebCrypto lets another session begin.
Correct means: nothing sealed for, queued in or received by one session acts in
another, and received clips are applied in the order they arrived.

### Files (`src/files/`)

`transfer.js` runs request, approval, a direct WebRTC path or chunks through the
relay, digests and receipts; `registry.js` the slots; `chunker.js` splitting and
reassembly. Hard: cancellation, time-outs and repeated requests around the
digest's `await`, and the handover between paths. Correct means: a file is
delivered whole or reported failed on both ends, an ended transfer never removes
a later one, and the number of files never exceeds the limit.

### The interface around them

`editor.js` streams what is typed and commits it when the user rests; `cursors.js`
does the same with a pointer; `history.js`, `state.js` and `storage.js` keep clips and
settings, the latter shared by tabs; `filesPanel.js` asks for approvals; `modal.js`,
`gate.js`, `toast.js` and `banners.js` compete for the screen; `install.js` and `sw.js`
bring a new build in. Each is a handful of variables and timers. Hard: timers against
what replaced their subject, tabs that write one object, workers whose life the
browser decides. Correct means: what the user typed, set, cleared or was asked ends
where they left it, and nothing is shown of another room.

### Agents

The command line client, the MCP server, VS Code and the browser extension share
`cli/session.mjs`, a session without a page. Hard: no page means no generation counter
to compare with; requests time out while a clip arrives; a worker is stopped and
started at any moment. Correct means: answers go to the room that asked, a clip is not
lost between the calls that ask for one, an exit code is the truth unless a signal came,
and nothing is written that was not reviewed.

### How they interact

The relay and the clients share nothing but frames. In the client, modules call
each other and publish on an event bus (`core/bus.js`): `relay.js` emits frames
and states, `main.js` opens them and drives capture, editor and transfer, and
those send through `relay.js`. On the relay the handlers share the two tables and
the `Room` objects; with a shared backend, replicas share Redis keys and channels.

## Modules

| modules | of | composition, abstract specification |
|---|---|---|
| `Relay`, `MCRelay` | `main.py`, one process | instances and symmetry in `MCRelay` |
| `Membership`, `RelayRefinement` | what the relay promises: who is where, under which id and token | `Relay` implements it (`INSTANCE ... WITH`) |
| `SharedRelay`, `FramePolicy` | `shared.py` between replicas; the rate limits | in `MCParts` |
| `Transport` | `relay.js`, `ws.js`, `sse.js` | against what a client sees of `Relay` |
| `SseChannel` | the outbox of `sse.js` | in `MCLive` |
| `Capture` | `capture.js`, `guard.js`, `os.js` | with the editor's side of an arrival |
| `Session` | `main.js`, `verify.js`, `frames.js`, `crypto.js`, `state.js`, `lockDialog.js` | against a connection that opens and drops |
| `Transfer` | `transfer.js`, `chunker.js`, one file | both ends, and the relay between them |
| `Files` | `registry.js`, announcements, grants, `filesPanel.js`, the images of `capture.js` | tiles, URLs and images in `MCParts`, grants in `MCLive` |
| `Agents` | `cli/`, `mcp/`, `browser/`, `vscode/src/host.mjs` | room, MCP, worker, command line and one run of it in `MCParts`, host in `MCLive` |
| `VsCode` | `vscode/src/`: `room.mjs`, `commands.mjs`, `secrets.mjs`, `settings.mjs` | `Agents` extends it; in `MCParts` |
| `Presence` | `editor.js`, `cursors.js` | in `MCLive` |
| `Store` | `history.js`, `state.js`, `storage.js` | in `MCParts` |
| `Shell` | `sw.js`, `install.js`, `toast.js`, `modal.js`, `gate.js`, the dialog of `qr.js` | worker and toasts in `MCLive`, dialogs in `MCParts` |
| `Notices` | rosters and lock doubt (`state.js`, `banners.js`), the self-dismissing banner (`dom.js`) | in `MCParts` |
| `QrCode` | the encoder of `qr.js`, and a scanner to read its symbols | in `MCParts` |
| `RelayProofs`, `RefinementProofs` | theorems about `Relay` and its refinement of `Membership` | |
| `TransportProofs`, `CaptureProofs`, `SessionProofs`, `TransferProofs` | theorems about the module each is named for | |
| `AgentsProofs` | theorems about `Agents` and `VsCode` | |
| `PartsProofs` | theorems about the other small machines | |

The order they were written in is this one: the relay first, because every client
depends on it and its concurrency is the least tested; then the client from the wire
upwards; then what hangs on it. No module declares a RECURSIVE operator, so any of them
can be proved about.

## Relay: the model of one relay process

An action is what a coroutine does from one suspension to the next. With no
shared backend the awaits on `shared` return without suspending, so the
suspension points are socket writes and closes, queue reads and sleeps.

| in the code | in `Relay` |
|---|---|
| `rooms`, `ip_conns` | `rooms`, `ipConns` |
| a `Room` object | the connection whose join made it, an index into `peers`, `seq`, `last`, `auth`, `evict`, `expired`. Several objects of one name can exist, which is the point |
| `Room.evict_task` and the tasks themselves | `evict[r]` names a task by the connection that left; `timer` is what each has left to sleep, so a task that was overwritten sleeps on |
| a connection and the `Room` its handler captured | `at`, `room`, `id`, `line` (`down`, `opening`, `up`, `closing`, `ended`) |
| where `ws()` or a POST is suspended | `pc`: `new`, `retiring`, `welcome`, `read`, `fanout`, `forward`, `answer`, `rename`, `ended` |
| the departure, detached for `sse()` | `leave`: `no`, `due`, `fanout`, `done` |
| writes under way, the SSE queue | `writes`, in order, each with the task that waits for it |
| the failures a gather collects | `bad`, per task |
| `_retire`'s `list(room.peers)`, the sweep's `list(rooms.items())` | `todo`, `sweep` with `retiring` |
| what a client was last told and last sent | `told`, `held` (observers of the wire) |
| how long a reachable room has been empty | `idle` (an observer of the clock) |

Actions: `JoinRefused`, `Join`, `JoinExpired`, `Welcomed` (`_join`); `Clip`,
`RoomWide`, `Forward`, `ForwardDone`, `Answer`, `Answered`, `Hello`, `HelloTaken`,
`FanOutDone` (`_handle_raw`, `_broadcast`, `_forward`, `_send`); `PostBegins`,
`PostEnds` (`pub`); `Deliver`, `Lost`, `WriteFails` (a socket write taken, taken by
nobody, failed or late); `Vanish`, `StreamOpens`, `Depart`, `StreamEnds`,
`StreamEnded`, `DepartureAnnounced` (leaving); `Evict`, `Tick`; `Expire`,
`RetireOne`, `JoinRetired`, `Sweep`, `SweepRetired` (the cap). `Enter` is the part
of `_join` that runs without suspending, from the look-up of the room to the
welcome; both ways into a room use it.

Definitions marked "Fault" are plausible bugs, used to show that each property
notices one; no specification uses them.

### Abstractions

* A clip is its number and a roster a set of ids; sealed text, nicknames, nonces and
  sizes do not matter to routing. An error frame is an `Answer`. Rate limits only turn
  a frame into an answer and are left out, as are log lines and statistics.
* A connection is used once. Provisional ids never coincide with each other or with
  a claimed one (they are 32 random bits, `_join`).
* Writes to one socket are taken in order, and the oldest is the first to run out of
  time (they queue on the connection's lock, each with the same deadline). Only
  sockets of `Flaky` miss a deadline.
* An event stream's client has one POST at a time (`sse.js` serialises its outbox);
  frames an ended stream still drains are ignored.
* In a retirement, the notice, the close and the drop of one peer are one step. A
  retired room's frames reach its peers or do not, and nothing is claimed of them.
* `Tick` happens only when no handler is part-way (`Quiet`): a tick is minutes, a
  write's deadline five seconds. `Expire` waits for the retirement of an earlier room
  of the name, for the same reason: `MAX_SESSION_SECONDS` is long next to it.
* Every run says `CHECK_DEADLOCK FALSE`: when every connection of the instance has
  been used, and no clock runs, the relay rightly waits for ever.

### The abstract specification

`Membership` says what all this is for, without rooms, tasks or frames: a
connection is `Enter`ed under a name if those there presented the same token and
the ceilings allow it, takes an id nobody there has (`Claim`), and is gone for good
together with others of its room (`Lose`). Each is one step. `RelayRefinement`
maps `Relay` to it: a connection is a member of the name it asked for while the
`Room` object its handler captured has it in its table. `KeepsMembership` is checked in
`relay_rooms`, and proved. It holds without a lifetime cap; with one it
does not, because a name can lead past the room its members are in (`relay_split`).

## Client: the models of a device

JavaScript runs one handler at a time, so an action is a handler up to its next
`await`, a timer, or the arrival of a frame. Where the code compares a generation or
an epoch after an `await`, the model keeps what the continuation captured and compares
the same two numbers; where it does not, it does not.

**`Transport`.** `relay.js`'s module variables are the variables: `wantOpen`, `kind`,
`forced`, `attempts`, `failures`, `refusal`, `stuck`, `channel`, the timers with
whether their epoch is still the current one. A channel that was closed reports
nothing (`done` in `ws.js` and `sse.js`), so only the one in use has an inbox. The
network lets through the kinds in `Passes`. `MaxFaults` faults may each drop the
connection, mute it (frames vanish and nobody is told), or lose a frame; the relay
holds the id of a connection until it notices that it has gone (`Reap`).

**`SseChannel`.** The outbox, the batch in flight, its time-out, its one retry. A POST
given up is not stopped: it joins `late` and may reach the relay afterwards.

**`Capture`.** `apply`, `putOnClipboard`, `flushPending`, the poll and focus reads,
`lastSent`, `pending` with the generation it was taken in, `arrivalSeq` and
`writtenSeq`. The system takes writes in the order they were made, applies or refuses
each, and answers in any order; a read answers with what was there when it was taken.
Suppression and grace are windows that end when they like.

**`Session`.** One device. A session is the value of `sessionGen` it was opened with,
and the same number stands for its key, room and entry on disk (cryptography is ideal:
a frame opens with the key it was sealed with). Derivations, seals, openings, prompts
and clipboard writes that are under way are records with what they captured; they end
in any order, except where the code chains them.

**`Transfer`.** Both ends of one file. A transfer object outlives its entry in `live`,
because a prompt, a digest or a stream still holds it, so `h[b]` and `r[a]` are the
objects and `hLive`, `rLive` the entries. Relayed frames carry the file's id and nothing
of the attempt they belong to; the relay loses `MaxLost` and repeats `MaxTwice` of them. A
direct connection is named by the offer and the answer that made it, and its frames by
the connection: a receiver whose entry was replaced goes on reading its own
channel, and an offer answered twice makes two. An answer is taken across an `await`
(`setRemoteDescription`), so `answers[b]` holds the one being applied and those that came
meanwhile: the first is applied, the others are rejected, which fails the live transfer.
A connection that is closed settles none of them.

## Small machines

Several components are a few variables and timers that nothing else depends on. Each is
a machine of its own with its own `Init` and `Next`, and `MCParts` and `MCLive` check
them together: a behaviour of a run is one of them from its start (`part`), the others
never move. This is a union of state spaces, not a product; no property relates two of
them.

| machine | state and actions of the code |
|---|---|
| `SharedRelay` | `subscribe` with the task of its `pump`, which listens later, `publish`, `_degrade`, `_recover`, the roster hash with its expiry, the nudges that make replicas read it, a clip kept and then read again to be published |
| `FramePolicy` | `RateBuckets.allow` and the class each kind of frame is charged to, beside a log of what came, when, and whether it passed |
| `Files`: tiles, grants, URLs, images | `addFiles` across its thumbnails, announce, retract, the viewer's tiles; the prompt queue and "Allow all"; `save` and its timers; the image that a poll and a focus read at once, its digest and `forgetSession` |
| `Agents`: room, MCP, worker, command line, host | `open`, `hello` and verification; `wait_for_clip`, its cap and lists that are too short; the worker's stored clip, review and paste over restarts; lines of stdin to the exit code, signals included; one run of `send` and `watch` from the key to the exit code; the clipboard poll against own writes |
| `VsCode` | openings that overlap, each a derivation and then a wait for "connected"; lock and unlock with the goodbye between; resume, keychain, reload, evictions; a received clip and the warning before it is copied |
| `Presence`: editor, pointer | `onInput`, `flushStream` up to its limit, the idle commit up to its own, a peer's line and clip; `onMove`, the throttle, the leave, the sweep |
| `Store`: history, settings | `add`, `clear`, `hydrate`, `persist` with a refused write; two tabs, `patch`, storage events, the remembered key |
| `Shell`: worker, toasts, dialogs | install, wait, `skipWaiting`, `controllerchange`, reload, the kill switch; the queue and its three timers; `show`, `close`, `raise`, `drop`, `showQr` and `inert` |
| `Notices`: roster, banner | `setPeers`, arrivals, `checkLockDoubt`; `show`, the clock that stops under pointer or focus |
| `QrCode` | a pure function of the link's length and a mask: `chooseVersion`, `buildCodewords`, `rsRemainder`, `interleave`, the function patterns, the zigzag, the masks. `SymbolReads` reads every symbol back as a scanner does, from the standard's format and version words, its reading order and the roots of its code, and finds the link |

## Fairness

Nothing is assumed of people, peers or networks: nobody need type, send, leave, read,
answer or come back, except where said here.

* `Relay!FairSpec` is weakly fair to what the event loop owes: a task that can run does
  (`Serve`, `Farewell`, `Retire`, `Sweep`), a sleeper wakes (`Evict`, `Tick`), and a
  socket write ends one way or another, because `_send` bounds it by
  `PEER_WRITE_TIMEOUT`, the socket's own close, or the client reading (`Write`).
* `Transport` is weakly fair to timers, to events on their way to a handler and to the
  relay noticing a dead connection. It is strongly fair to a connection that the
  network lets through being welcomed: an attempt can be overtaken by its own probe, and
  a network in which the probe always wins is one that does not let it through.
* `Capture`: what the system was asked it answers, and windows end. Nothing is assumed of
  polls: they run on one tier only, with permission, and not in the native host
  (`capture.js:117-124`, 139-152), so whatever hangs on the next read is a premise of the
  property.
* `Session`: WebCrypto ends, a lock that was confirmed goes on, a connection opens.
  Prompts need not be answered; the liveness property excuses what waits for one.
* `Transfer`: timers, frames on their way, the digest, an answer being applied and a
  prompt's own clock.
* `MCParts` is weakly fair to `SharedRelay`'s replicas and pumps, whose `_recover` loop
  runs for ever; `MCLive` to every timer and frame of the machine it runs, and to
  nothing the user does.

## Runs

Each pass run is complete: no state constraint, every bound is a constant of its `.cfg`
and a guard of an action, and every run ends when its bounded inputs are used up. All
say `CHECK_DEADLOCK FALSE`, because a relay with nobody left to connect and a client
with nobody to use it rightly wait for ever. A property named for a group is the
conjunction of parts named in the module, each with its own comment.

| run | instance | shows |
|---|---|---|
| `relay_rooms` | 4 sockets, 2 names, room for 1 room of 2, one connection per address, one id to claim | `PeerIdsUnique`, `OneToken`, `EvictedOnlyAfterTTL`, and the refinement `KeepsMembership`: three different limits that refuse three different joins, ids claimed and claimed back, rooms that empty and are entered again |
| `relay_flaky` | 3 sockets, one of which misses deadlines, 1 frame | `NoOrphans`; `Informed`: once nothing is on its way, rosters name who is there (`RostersAgree`), whoever did not send the newest clip holds it (`NewestClipReachesAll`), and a stamped frame comes from somebody its reader was told of, or whom the relay has dropped (`SenderIsKnownOrDropped`) |
| `relay_streams` | a slow socket and a stream, a queue of 1, the cap, 1 frame, fair | `TypeOK`; `IpCountsExact` through overflow, POSTs that outlive a stream, detached departures and retirements; `RoomsDrain`: when everybody has gone every room goes; `ExpiredRoomsEnd`, `HandlersReturn`, with joins and the sweeper retiring the same room |
| `relay_cap` | 3 sockets, 2 names, room for 1 room, the cap | `Ceilings`, of joins that wait for a retirement in a relay that fills up meanwhile; `OnlyEmpties`: nobody is let into a room that is over, and its name does not come back to it |
| `relay_split` | 3 sockets, the cap | a finding |
| `transport` | WebSockets blocked; a session and a rejoin, a pin or a close, one fault at any moment | `AttemptsInOrder`: `OneChannel`, `NeverStranded` (always something under way), `PinHolds`, `IdSettles`; `FindsWhatWorks` |
| `capture` | 2 arrivals of 3 texts (one flagged, one junk), 1 copy, 1 refused write, 1 change of session or mode | `OnlyWhatMayLand`: consent for what is risky, nothing of a session that was left; `EditorHasNewest`; `PendingGoesOut`: a clip held back by a local copy does not wait for ever, as long as copying pauses, and a refused one waits no longer than the user keeps coming back to the page |
| `capture_rollback` | the same, none flagged | a finding |
| `session` | 4 generations, 2 clips or frames, a drop, a change of rung | `StaysInItsRoom`: `NothingCrosses`, `QuietWhenOff`, `ReceivedInRoom`, `VerifiedHonestly`; `NothingForgotten`: `DiskRemembers`, `NoneWaitsOnline`; `InOrder`: `SentInOrder`, `EditorInOrder`; `SettlesOnLastRequest` |
| `transfer` | 2 requests, 2 holder's transfers, a frame lost, one twice, one cancel; two chunks by relay and one directly | `EndsHonestly`: `SentMeansHeld`, `StoppedStaysStopped`, `HarmlessRepeats`; `ArrivesWhole`: `OnePath`, `HeldIsWhole`; `NothingHangs` |
| `parts` | eighteen machines, one per behaviour | `FannedOutOnce`, `BackendHeals` (2 replicas, 2 clips, 1 fault, 1 expiry); `FairlyMetered`; `FilesKept`; `AgentsAreHonest`; `StoreAgrees`: `HistoryIsOfItsRoom`, `SettingsAgree`; `DialogsSettle`; `NoticesAreTrue`; `SymbolReads` (lengths on both sides of the versions' limits, eight masks each) |
| `live` | seven machines, one per behaviour, fair | `ConsentHolds`, `HostListens`, `PresenceSettles`, `UpdatesOnAsking`, `ToastsAreShown`, `OutboxIsHonest` |

Why these bounds are enough. On the relay a race takes one connection that leaves,
fails or retires, one that joins or sends meanwhile, and one that watches: three; two
names and a fourth connection where the limits on a room, an address and the relay must
each bite without the others hiding it; a TTL of two ticks tells "the whole TTL" from
"some of it". A queue of one holds a welcome, and the next frame overflows it. One frame
in `relay_flaky` means that two clips do not cross there: with two the run does not
finish, and `EveryoneIsInformed` is proved for any number. In
`Transport` a second session is what makes something of the first stale, `SWITCH_AFTER`
of two tells "counted" from "counted and reset", one fault may fall anywhere. Two arrivals make a
pair that can cross, which is all that capture's rules speak of. Four generations are a
session, one that overtakes it, and a rotation with the goodbye of the one before it.
Two requests make one that can be confused with the other; two chunks one that can be
missing. In the small machines each bound is the smallest at which every action fires
and every pair of its actions that can cross does; the names in the `.cfg` say what each
bounds.

`RostersAgree` and `NewestClipReachesAll` speak of a client once nothing is on its way to
it, it is not about to be dropped, and (for rosters) nobody owes the room an
announcement: in between, the relay promises nothing. `RostersAgree` lets a roster name
a peer the relay dropped without a word: `_broadcast` says nothing, and the peer's own
departure does later. `TabsAgree` excuses settings whose storage events have crossed
(below), `ComesWhole` a replica that missed a nudge and entries whose removal had no backend
to reach or came before them, `StaysWhileRead` a clock that a
`focusout` started once its banner was gone.

Definitions marked "Fault" are plausible bugs of the code (a dropped guard, a missing
reset, a swapped order). No specification uses them; each shows that a property notices.

## Findings

Each is a run that TLC ends with a counterexample to something the repository says.

| run | what happens |
|---|---|
| `relay_split` | `_retire` forgets a room by name (`main.py:1147`). Two joins that retire one expired room: the second forgets the first one's new room, and two devices with one code never meet. The module calls that a fault (`main.py:484-487`) |
| `capture_rollback` | "Nothing older than `writtenSeq` may be written after it" (`capture.js:404-407`), but `writtenSeq` moves when a write is answered, not when it is made. A clip held back by a local copy is written behind a newer one whose write is under way, and stays (`capture.js:462`) |

### Other divergences

Met while modelling. Where a definition states the rule that fails it is named; the
others are read from the code, and the properties above are worded to leave them out
rather than to hide them.

**Relay.**
* "Last-write-wins ordering using a monotonic per-room sequence number"
  (`docs/PRD.md:126`): numbers are assigned and nobody compares them. Two clips that
  cross leave the newer one's sender with the older (`LastWriteWins`, `main.py:1402`).
* `_after_departure` overwrites `evict_task` without cancelling the task it held
  (`main.py:1342`): two streams that end together leave a task nobody can cancel, and
  the room goes before its TTL (`EvictedOnlyAfterTTL` with streams). `_retire` does not
  cancel the task either, and it looks its room up by name when it wakes: a room of the
  same name made since goes early. `RoomsOutlastTheTTL` says that these, and the second
  retirement of `relay_split`, are the only ways to go early (`Stray`).
* The first `yield` of the generator in `sse()` is outside its `try` (`main.py:1541`): a
  client that goes before it stays in the roster (`NoGhosts`), and if a fan-out drops
  the last such ghost no clock starts and the empty room stays.
* A peer dropped for a slow write keeps its socket, and its frames reach clients that were
  never told of it (`main.py:849`).
* The per-address limit is looked at before a join suspends to retire a room, and charged
  after (`main.py:1238`): it can be exceeded with a lifetime cap (`IpCeiling`, proved
  without one as `AddressesStayWithin`).

**Shared backend.**
* A replica connected for longer than `ROOM_TTL` without a join loses the roster hash:
  remote peers vanish from rosters and cannot be addressed (`main.py:1041-1048`).
* The clip that is fanned out is read from the room after the shared write
  (`main.py:1414`): a second clip meanwhile is sent twice, once to its own sender, and the
  first never. `FannedOutOnce` says what holds: what a replica publishes never goes back,
  and ends with the newest.
* A pump subscribes in a task of its own (`shared.py:184-185, 219`): a nudge or a clip that
  another replica publishes before is lost to it. Two devices that join at the same time
  may not see each other until the next change; `ComesWhole` excepts a replica that missed
  a nudge, and `HealedByNext` says what makes it good.
* `remote_peers` lists `id` where the client reads `peerId` (`shared.py:292`,
  `state.js:250`): devices of another replica have no id in a roster, which
  `main.py:986-988` means them to have.
* The count and the list of an announcement are two reads (`main.py:995`). Replicas
  number clips independently. The entries of a replica that crashed stay until the hash
  expires. A drop in the middle of a join leaves a ghost. Recovery may leave two live
  pumps of one room, and clips then arrive twice (`shared.py:125-126`).

**Connection.**
* `setTransport` reconnects without `down()`, so the intent stays "create", and a welcome
  that finds peers raises `KEY_COLLISION` (`relay.js:139-161, 382`), though "a reconnect
  is never a create" (`relay.js:295-297`; `RotatesOnlyAtFirst`).
* `refusal` and `stuck` survive `connect()`: the first failure of the next session can be
  final (`relay.js:415-417`). A `hello` lost with a dropped POST is not asked again.

**Capture.** Two refused writes that overlap leave `lastSent` on a text that was never
written (`capture.js:347-359`). The focus flush does not look at the window of a local copy.

**Session.**
* A clip whose seal ends while the connection is down takes the one slot though a newer
  one has it (`main.js:479`), against "the newest supersedes" (`main.js:441`;
  `NewestSupersedes`).
* A second lock that is confirmed while the first one's goodbye is being sent opens a
  session beside the one that the first opens, without leaving it (`main.js:704-729`,
  812-846): one key, two derivations. The guards of `Ask` and `Lock` leave this out, and say so.
* The gate that a cancelled collision prompt raises reads `state.key ?? pendingLock.key`
  after `clearKey` has made the key `""` (`main.js:215`): it answers nothing, against
  "Backing out must not be a dead end" (`main.js:196`).
* A lock computes who else is there before its prompt and not again; its continuation
  after the flush replaces whatever session is current. The rung of streams, file frames
  and cursors is looked at before their seal and not after. The result of `relay.send` is
  not looked at.

**Files.**
* The denial path ends a cancelled transfer again and deletes the entry of the next request
  (`transfer.js:360-368`), against "every exit route goes through finish()"
  (`transfer.js:155-156`; `EveryTransferIsLive`). A digest that ends after a cancel still
  completes the transfer, and may delete a newer entry. A late denial marks a finished
  tile. A prompt of a request that was cancelled stays until its clock.
* "A second answer is the SSE transport's at-least-once retry" that must not be applied
  (`transfer.js:804-807`), but the flag it looks at is set after an `await`
  (`transfer.js:810-814`). A second answer in between is rejected by the browser, and the
  rejection fails whatever transfer is live and not on the relay (`transfer.js:281-291`;
  `AnsweredOnce`). `HarmlessRepeats` excepts it.
* A transfer cancelled while its user is asked is not accepted, but a late "Deny" is still
  sent (`transfer.js:365-368`).
* A second device that asks for the same file is dropped by the check for the wrong peer.
  The receiver's `onclose` after a fallback ends the fallback too.
* A file removed while its thumbnail is made is announced after its retraction. Files
  added offline, and those of a holder that reconnects with as many as before, are not
  announced (`transfer.js:1023-1028`). A retraction made offline is lost. A late "Allow
  all" grants a device that has gone.

**Agents.** The worker's "new" (`worker.js:141-147`) and the shared session's frame
handler (`session.mjs:118-153`) decrypt without looking at the epoch afterwards: a clip
opened late is shown in the next room, against `worker.js:81-84` (`ClipOfThisRoom`). An
eviction of the old room closes the new one. A join of the MCP server that times out
leaves its `room`, and during a join its tools still name the old one. The host bounces
its own write when it is older than 30 seconds. `watch --once` that is evicted exits 0,
and an eviction is acted on with the rung Off. `recent_clips` marks every unread clip read
and shows only as many as it was asked for ("reading the list is reading them",
`server.mjs:205`): the older ones are swallowed. A signal ends `watch` and the two-way mode
with 0, whatever was printed or is unsent (`realtimeclipboard.mjs:342-348`), where
`cli/README.md:13` has scripts branch on the code and 328-331 calls such a 0 a success that
did not happen. `NoClipSwallowed`, `ExitIsHonest` and `RunCodeTells` except just these.

**VS Code.** `room.mjs` compares no generation. The promise of an `open` resolves on the
"connected" of another opening; a leave during a derivation is undone by it; an eviction
of an old room whose opening ended late closes the new one, and the keychain keeps the key
of the room that evicted; a room that connects after its time-out is not remembered; a
modal of `notify.mjs` confirms whatever clip is pending when it is answered. `VsCode`
has these behaviours but the modal's. Its properties hold through them because they speak
of the room that a command reported and of a leave with no derivation under way.

**Images.** An image read for one session may be announced in the next: the read's
continuation looks at the mode, not at the session.

**Editor.** A blur commits a peer's half-typed line as this device's clip (`CommitIsOurs`),
against `editor.js:261-266`. Clear empties the far window only if what was streamed last is
not the empty text already (`EmptyArrives`, `editor.js:102-104`): after a text that went out
as a clip alone, pasted and cleared within the throttle or too large to stream, it is, and
the others keep the text. A large clip that is typed back over what was streamed meanwhile
is the session's clip already and does not go out either. `KeystrokesArrive` speaks of text
that `flushStream` or `commit` will send, which these are not, and a text over the limit
is not.

**Store.** A storage event that carries an older snapshot reverts a newer rung
(`state.js:141-151`), against `state.js:135-137`. Desktop clips from before a session are
shown in the first room as sent.

**Shell.** A worker's `activate` deletes the cache of a newer one that is installing, and
`cacheFirst` puts files of a newer build into an older one's cache. The QR code's dialog
keeps no count (`qr.js:428-446`): when a gate goes up while it is open, closing it hands
the page back behind the gate, which is what `modal.js:110-119` says a plain boolean did.
`DialogsSettle` excepts that overlap (`overlapped`), and holds that it never leaves the
page out of reach with nothing before it.

**Notices.** A device's own `hello` is announced to it as "A device joined this session"
(`state.js:254`, against 239-243; `NeverItself`), and every other device twice, under its
provisional id and its own. A `focusout` of a banner that was replaced starts the dead
banner's clock, which dismisses its successor (`dom.js:129`). The lock's doubt is looked
at once.

## Proofs

Every safety property that a run checks is proved except one (below), for all values of
the constants that satisfy the modules' assumptions, which TLC evaluates in every run.
Each theorem is about the module's `Spec`, without its fairness: safety needs none.

**The relay** (`RelayProofs`, `RefinementProofs`):

| theorem | property | argument |
|---|---|---|
| `TypeCorrect` | `TypeOK` | `TypeInv`: `TypeOK` needs `Placed` (who has a `Room`) and `Underway` (who is retiring one), or `peers[room[c]]` in a handler means nothing |
| `CountsExact`, `IdsUnique`, `TokensAgree` | `IpCountsExact`, `PeerIdsUnique`, `OneToken` | `Bookkeeping`, below |
| `CeilingsHold` | `Ceilings` | a join compares with the tables it finds when it resumes, and every other step only loses peers and rooms |
| `NeverSplit` | `NoOrphans`, where `~MayExpire` | `Capless`: with no cap, a name is forgotten by `Evict` only, which looks first |
| `RoomsOutlastTheTTL` | a room goes when its lifetime is over, when it was empty for the whole TTL, or by a `Stray` (all transports, with and without the cap) | `KnownClocks`: the clock a room knows of has slept no longer than the room has been empty; `Condemned`: a retirement is of an expired room |
| `RoomsEndForGood` | `OnlyEmpties` | `TrueToName`, `OwnRetired`, below |
| `EveryoneIsInformed` | `Informed`, slow peers and lifetime caps included | `Informing`, below |
| `Implements` | `KeepsMembership`, where `~MayExpire` | all of the above, and `NamesAgree`: a connection and its `Room` asked for one name |

None of the bookkeeping properties is inductive by itself: a drop discharges an
address exactly only if no connection is in two rooms, an id is fresh on joining only
if provisional ids stay with their owners, and the token of a room found empty may be
replaced only if "empty" means of this `Room` object. `Bookkeeping` is their
conjunction with `Apart`. Every action is one of four kinds: it leaves the books
alone (`Calm`), it loses some peers of one room and discharges them (`LosesPeers`),
it admits one (`Enter`), or it changes one id (`Hello`); one lemma for each kind
shows the invariant preserved, and the step theorem only classifies. `DropCounts`
says that discharging a set, clamped at zero as the code clamps, subtracts exactly its
members present, whether or not some of them had gone before.

`OnlyEmpties` is what remains of `NoOrphans` under a lifetime cap. Two joins that retire
one room may leave peers in a room that no name leads to (`relay_split`), but nobody else
is ever let into it, nor into one past its lifetime, and its name does not come back to
it. Every step thins the relay out (`Thins`) or lets one connection in (`Enters`). Letting
in goes to the room the table has, which is of that name (`TrueToName`); a join that
waited retired the room of the name it asked for (`OwnRetired`), so `_join` finds none
when it resumes and makes a new one. `relay_cap` checks the property.

`Informing` says where the truth is while it is under way. `Delivery` is about the
relay's own tasks: frames and failures stay in one room, the task that wrote waits where
its frames are due, whoever departs has no line, a room that is not being retired keeps
its newest clip for late joiners. `Tidings` is about each reader that still listens:
what its queue and its own welcome will show it names everybody who is there (or who
waits to say so itself) and no stranger, has the newest clip last, and introduces every
sender before its first frame, unless the relay has dropped that sender since.

`EvictedOnlyAfterTTL` itself is false where a task is overwritten or outlives its room (see
[other divergences](#other-divergences)); `SocketsOutlastTheTTL` proves it of sockets that
answer in a relay without a cap, and `RoomsOutlastTheTTL` says of every instance what can
make a room go early. `~MayExpire` is a premise of `NoOrphans` for the same reason.
`MembersAre` turns the peers of the room a name leads to into
the members of the name; after that an entry maps to `Enter`, a claim to `Claim` or,
from a dropped peer, to nothing, a drop to `Lose`, and everything else to nothing.

**The client:**

| theorem | property | inductive invariant |
|---|---|---|
| `AttemptsKeepApart` (`TransportProofs`) | `AttemptsInOrder` | `TransportInv`: a reconnect of this epoch is due only while there is no channel; a pin binds the mode as soon as a connection is wanted; the request for the device's own id is always somewhere: answered, on its way, due again, or lost |
| `ClipboardIsGuarded`, `EditorFollows` (`CaptureProofs`) | `OnlyWhatMayLand`, `EditorHasNewest` | `CaptureInv`: a flagged text is among the writes under way only once agreed to (`Fit`), and waits only under its flag (`PendingSound`); a write made for a session since left has nothing to show |
| `SessionsKeepApart`, `NothingIsForgotten`, `OrderIsKept` (`SessionProofs`) | `StaysInItsRoom`, `NothingForgotten`, `InOrder` | `SessionInv`: the key is that of the newest session or there is none; what waits for its seal, opening or turn has that key or is of an older session; the chains hold older sessions first and each in order; a derivation still wanted is the only one of its session (`Derivings`) |
| `TransfersEndHonestly`, `FilesArriveWhole` (`TransferProofs`) | `EndsHonestly`, `ArrivesWhole` | `TransferInv`: `Solid`, which always holds, and `Quiet`, which holds until something is lost, cancelled, denied or timed out, or an answer is rejected: until then there was one request, and the queues to the receiver have the accept before any piece (`Led`) and the end after every piece (`Last`), and none behind an offer whose race is open |

**The small machines** (`AgentsProofs`, `PartsProofs`). Where a property is a conjunction
over several machines, the theorem's premise is the conjunction of their specifications,
which `MCParts` satisfies: the machines that do not move are in their initial states.

| theorem | property | what the invariant adds |
|---|---|---|
| `AgentsKeepTheirWord`, from `RoomAnswers`, `LinesGo`, `RunTells`, `ClipsAreGiven`, `PastesAreConsented`, `VsCodeRemembers`, `VsCodeAsks` | `AgentsAreHonest` | an answer of the current epoch is for the room there is; lines that are done are older than the one being sealed, and that one than the rest; a waiting call has been given nothing and waits once; the flush is `send`'s alone and follows the clip; openings that wait for "connected" wait for the room of the last of them, and nothing is reported meanwhile |
| `HostHears` | `NoBounce` | an own text that is on the board, on its way there or being read back is in the ring, or its time in the ring is over |
| `FansOutOnce` | `FannedOutOnce` | `SharedInv`: what a subscription holds was published (`Genuine`), and until something breaks, each holds in order what it has not fanned out (`Untroubled`); a replica about to publish keeps a clip no older than any it published (`KeptBound`) |
| `MetersFairly` | `FairlyMetered` | `PolicyInv`: the counter is what came since the window began; no more than `Limit` of it passed, nor in as long a time before it |
| `FilesStay`, from `TilesTell`, `UrlsKept`, `ImagesShared` | `FilesKept` | a tile without a file has its retraction under way behind its announcement; at most the newest save's URL is live; the last image shared, if in this session, is `lastImageKey` |
| `StoreStays`, from `HistoryStays`, `SettingsStay` | `StoreAgrees` | a tab that is behind hears the disk's settings last |
| `DialogsAnswer` | `DialogsSettle` | `inertDepth` counts the dialog and the gate that stand before the page |
| `NoticesStay`, from `RosterTells`, `BannersStay` | `NoticesAreTrue` | the last roster on the line is the room's; a clock that runs is an orphan's, or of the banner that is up with nobody on it |
| `GrantsStay` | `GrantFollowsDevice` | `GrantInv`: before a request of a device that may not be served unasked the holder hears a departure of an id it knows (`Parting`); the last it hears of the id is whether somebody has it (`EndsWith`); requests and prompts stay in the order of the devices |
| `BurstsDropOldest` | `BurstKeepsNewest` | `ToastInv`: the queue is in the order the messages were made |
| `TypingIsKept` | `IdleCommitsOwn`, `PeerNeverOverwrites` | `EditorInv`: an idle timer that runs was armed on what is still on screen |
| `SwitchStays` | `NoSurpriseReload`, `SwitchIsFinal` (stated in `PartsProofs`) | `SwitchInv`: once the switch waits nothing is being installed, and only a site that serves the switch has handed it out |
| `OutboxInTurn` | `AtMostTwice`, `OvertakenOnlyIfDropped` | `SseInv`: a frame has two tries between those that got through, the POSTs on their way and the batch; what may still come, and was not given up, comes after every POST it is not in |

Assumptions beyond "the bounds are numbers": there is a first session (`BootsSomewhere`);
the other devices of a roster are finitely many and the device itself is none of them
(`NoticesAssumption`); what is copied on a device is a text of its own, so neither junk
nor flagged (`CaptureAssumption`), and not one the host writes (`AgentsAssumption`); a
batch, a rate window, a history and a count of failures hold at least one. Each theorem
holds, in particular, for any number of clips, frames, sessions, requests and faults.

"The least", "the first" and "the newest" in these arguments come from the least element
of a non-empty set of numbers, which the library states without an operator as parameter; so
queues are reasoned about by position, never by recursion.

### What the proofs changed

* Four generations of `Session` are too few for a lock that is confirmed during the
  goodbye of an earlier one: TLC found nothing, and `Derivings` was not inductive. The overlap
  is the code's (see [other divergences](#other-divergences)); the guards of the lock
  now name it and leave it out.
* `Transfer` named a direct connection by its attempt. `Solid` failed for an offer
  that is answered twice, and for a receiver that goes on reading a channel its
  entry no longer owns: both are in the code, and now in the model.
* `FramePolicy` kept counters as history, from which nothing about an interval across two
  windows follows; it keeps a log of what came, and `FairlyMetered` speaks of any
  window's length of it.

### Only model-checked

* Liveness: `RoomsDrain`, `ExpiredRoomsEnd`, `HandlersReturn`, `FindsWhatWorks`,
  `PendingGoesOut`, `SettlesOnLastRequest`, `NothingHangs`, `BackendHeals`, and the halves
  of `live`'s properties that say something happens in the end. The prover reasons
  neither about ENABLED nor, so, about fairness.
* `SymbolReads`: a computation on given lengths, with nothing to hold for all of them
  but the encoder's correctness, an induction over its data, which is out of reach.

## Not modelled

* Cryptography and formatting of keys: ideal. Random ids never coincide.
* Of the relay: health and statistics; wording of errors; size caps, which choose which
  error answers; `_open_shared`'s retries at start; targeted frames and the shared last
  clip across replicas; CORS and keep-alive comments.
* The JSON-RPC framing of the MCP server; argument parsing and output of the command
  line client; the status bar, the tree and the wording of VS Code's prompts.
* The browser's own part in `Shell` (when a worker is installed, waits and activates) and
  Redis' part in `SharedRelay` are external, taken from their documentation through how
  the code uses them.
* The penalty by which the QR encoder chooses a mask: `QrCode` allows all eight.
* Drawing, focus traps, the PIN pad, translations, landing page,
  packaging, deployment and the native shell (`desktop/`): display, pure functions of
  their input, or calls into a platform, with no state over time.
