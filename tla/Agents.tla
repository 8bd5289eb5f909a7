------------------------------- MODULE Agents -------------------------------
(***************************************************************************)
(* The surfaces without a page: the room adapter they share                *)
(* (cli/session.mjs), the MCP server, the browser extension's worker, VS   *)
(* Code's clipboard host and the command line.  Six small machines, beside *)
(* the two of VsCode.                                                      *)
(*                                                                         *)
(* Every await is a step of its own; sealing, opening and the relay are    *)
(* external.  A definition marked "Fault" is the next one with a bug one   *)
(* could plausibly write.                                                  *)
(***************************************************************************)
EXTENDS Integers, Sequences, FiniteSets, SequencesExt, VsCode

CONSTANTS
    MaxOpens, MaxFrames,    \* bounds: rooms opened; frames that arrive in them
    MaxMcpClips, MaxWaits, McpCap,      \* bounds: clips, calls of wait_for_clip; MAX_CLIPS
    MaxWorkerClips, MaxWorkerMoves,     \* bounds: clips; rooms and restarts of the worker
    UserText, OwnText, MaxHostSteps,    \* texts the user copies, and the host writes; bound
    MaxLines                \* bound: lines typed

ASSUME AgentsAssumption ==
    /\ {MaxOpens, MaxFrames, MaxMcpClips, MaxWaits, McpCap, MaxWorkerClips, MaxWorkerMoves,
        MaxHostSteps, MaxLines} \subseteq Nat
    /\ UserText \cap OwnText = {}

-----------------------------------------------------------------------------
(* A locked room's verification, answered from inside the frame handler.   *)

VARIABLES
    roomEpoch,      \* epoch
    roomLinked,     \* the room the transport is in, or 0; rooms are numbered by open()
    roomsOpened,
    sharingOn,      \* what sharing() answers
    answering,      \* answers under way: [room, mine, at], at "open" or "seal"
    answersSent,    \* history: <<room it was sealed for, room it went to, sharing then>>
    framesIn

roomVars == <<roomEpoch, roomLinked, roomsOpened, sharingOn, answering, answersSent, framesIn>>

OpenRoom ==
    /\ roomsOpened < MaxOpens
    /\ roomsOpened' = roomsOpened + 1 /\ roomLinked' = roomsOpened'
    /\ roomEpoch' = roomEpoch + 1
    /\ UNCHANGED <<sharingOn, answering, answersSent, framesIn>>
CloseRoom ==
    /\ roomLinked # 0 /\ roomLinked' = 0 /\ roomEpoch' = roomEpoch + 1
    /\ UNCHANGED <<roomsOpened, sharingOn, answering, answersSent, framesIn>>
FlipSharing == sharingOn' = ~sharingOn
    /\ UNCHANGED <<roomEpoch, roomLinked, roomsOpened, answering, answersSent, framesIn>>

\* The gate, read again after each await.  Fault: the room is checked once, on arrival.
StillAskedOnce(job) == sharingOn
StillAsked(job) == sharingOn /\ job.mine = roomEpoch

VerifyArrives ==
    /\ roomLinked # 0 /\ framesIn < MaxFrames /\ framesIn' = framesIn + 1
    /\ sharingOn
    /\ answering' = answering \cup {[room |-> roomLinked, mine |-> roomEpoch, at |-> "open"]}
    /\ UNCHANGED <<roomEpoch, roomLinked, roomsOpened, sharingOn, answersSent>>
Answers(job) ==
    /\ answering' = (answering \ {job}) \cup
           (IF StillAsked(job) /\ job.at = "open" THEN {[job EXCEPT !.at = "seal"]} ELSE {})
    /\ answersSent' =
           IF StillAsked(job) /\ job.at = "seal" /\ roomLinked # 0
           THEN answersSent \cup {<<job.room, roomLinked, sharingOn>>} ELSE answersSent
    /\ UNCHANGED <<roomEpoch, roomLinked, roomsOpened, sharingOn, framesIn>>

RoomInit == roomEpoch = 0 /\ roomLinked = 0 /\ roomsOpened = 0 /\ sharingOn = TRUE
    /\ answering = {} /\ answersSent = {} /\ framesIn = 0
RoomNext == OpenRoom \/ CloseRoom \/ FlipSharing \/ VerifyArrives \/ \E job \in answering : Answers(job)
RoomSpec == RoomInit /\ [][RoomNext]_roomVars

\* An answer goes to the room that asked, from a device that still shares, whatever
\* was opened, closed or switched off while it was made (session.mjs:36-40).
AnswersWhereAsked == \A a \in answersSent : a[1] = a[2] /\ a[3]
-----------------------------------------------------------------------------
(* The MCP server's clips: a waiter takes the next one, or it is kept.     *)

VARIABLES
    mcpClips,       \* clips arrived, numbered
    unread,         \* the queue
    waiters,        \* the calls waiting, in order
    waitsMade, given,   \* history: <<call, clip or 0>> answered
    listed,         \* history: clips recent_clips has shown
    lists           \* history: <<clips arrived by then, how many were shown>> of each list

mcpVars == <<mcpClips, unread, waiters, waitsMade, given, listed, lists>>

McpClip ==
    /\ mcpClips < MaxMcpClips /\ mcpClips' = mcpClips + 1
    /\ IF waiters # <<>>
       THEN /\ waiters' = Tail(waiters)
            /\ given' = IF \E g \in given : g[1] = Head(waiters) THEN given
                        ELSE given \cup {<<Head(waiters), mcpClips'>>}
            /\ UNCHANGED unread
       ELSE LET queue == Append(unread, mcpClips') IN
            /\ unread' = IF Len(queue) > McpCap THEN Tail(queue) ELSE queue
            /\ UNCHANGED <<waiters, given>>
    /\ UNCHANGED <<waitsMade, listed, lists>>

WaitForClip ==
    /\ waitsMade < MaxWaits /\ waitsMade' = waitsMade + 1
    /\ IF unread # <<>>
       THEN given' = given \cup {<<waitsMade', Head(unread)>>} /\ unread' = Tail(unread) /\ UNCHANGED waiters
       ELSE waiters' = Append(waiters, waitsMade') /\ UNCHANGED <<given, unread>>
    /\ UNCHANGED <<mcpClips, listed, lists>>

\* The call gives up and is taken off the list.  Fault: it stays on it.
StillWaitingAll(i) == waiters
StillWaiting(i) == RemoveAt(waiters, i)
WaitTimesOut(i) ==
    /\ ~\E g \in given : g[1] = waiters[i]
    /\ given' = given \cup {<<waiters[i], 0>>} /\ waiters' = StillWaiting(i)
    /\ UNCHANGED <<mcpClips, unread, waitsMade, listed, lists>>

\* recent_clips: all are read, and the newest "limit" of them shown.
Newest(limit) == {c \in 1..mcpClips : mcpClips - c < limit}
RecentClips(limit) ==
    /\ listed' = listed \cup Newest(limit) /\ lists' = lists \cup {<<mcpClips, limit>>}
    /\ unread' = <<>>
    /\ UNCHANGED <<mcpClips, waiters, waitsMade, given>>

McpInit == mcpClips = 0 /\ unread = <<>> /\ waiters = <<>> /\ waitsMade = 0 /\ given = {}
    /\ listed = {} /\ lists = {}
McpNext == McpClip \/ WaitForClip \/ (\E limit \in 1..McpCap : RecentClips(limit))
    \/ \E i \in DOMAIN waiters : WaitTimesOut(i)
McpSpec == McpInit /\ [][McpNext]_mcpVars

\* What nobody was given or shown is queued for the next call (mcp/server.mjs:52-55), also
\* when calls give up.  But for a clip that MAX_CLIPS newer ones followed, and for one that
\* a list was too short for: recent_clips marks all of them read and shows "limit".
NoClipSwallowed == \A c \in 1..mcpClips :
    \/ c \in listed
    \/ \E i \in DOMAIN unread : unread[i] = c
    \/ \E g \in given : g[2] = c
    \/ mcpClips - c >= McpCap
    \/ \E l \in lists : c <= l[1] /\ l[1] - c >= l[2]
-----------------------------------------------------------------------------
(* The extension's worker: the clip it holds, in memory and mirrored.      *)

NoClip == [id |-> 0, room |-> 0, risky |-> FALSE]

VARIABLES
    workerRoom,     \* the room of the session it holds
    workerOpen,     \* the room whose frames its handler hears, or 0
    opening,        \* new or join waits for the derivation
    decrypting,     \* clips being opened: [room, risky]
    latest, mirror, \* the clip in memory; in session storage
    mirroring,      \* storage writes on their way, in order
    reviewed,       \* the clip the popup displays, or NoClip
    pasted,         \* history: the clip, why, and what the popup displayed
    workerIds, workerMoves

workerVars == <<workerRoom, workerOpen, opening, decrypting, latest, mirror, mirroring, reviewed,
                pasted, workerIds, workerMoves>>

ClipArrives(risky) ==
    /\ workerOpen # 0 /\ workerIds + Cardinality(decrypting) < MaxWorkerClips
    /\ decrypting' = decrypting \cup {[room |-> workerOpen, risky |-> risky]}
    /\ UNCHANGED <<workerRoom, workerOpen, opening, latest, mirror, mirroring, reviewed, pasted, workerIds, workerMoves>>

\* received(): no look at which room the clip was opened for.
ReceivedClip == \E d \in decrypting :
    /\ decrypting' = decrypting \ {d} /\ workerIds' = workerIds + 1
    /\ latest' = [id |-> workerIds', room |-> d.room, risky |-> d.risky]
    /\ mirroring' = Append(mirroring, latest')
    /\ UNCHANGED <<workerRoom, workerOpen, opening, mirror, reviewed, pasted, workerMoves>>
MirrorLands ==
    /\ mirroring # <<>> /\ mirror' = Head(mirroring) /\ mirroring' = Tail(mirroring)
    /\ UNCHANGED <<workerRoom, workerOpen, opening, decrypting, latest, reviewed, pasted, workerIds, workerMoves>>

\* "new" forgets the clip, then derives; the old room is heard until the new is opened.
NewRoom ==
    /\ ~opening /\ opening' = TRUE /\ workerMoves < MaxWorkerMoves /\ workerMoves' = workerMoves + 1
    /\ workerRoom' = workerMoves'
    /\ latest' = NoClip /\ mirroring' = Append(mirroring, NoClip)
    /\ UNCHANGED <<workerOpen, decrypting, mirror, reviewed, pasted, workerIds>>
\* "join" derives first, and forgets and opens at once.
JoinRoom ==
    /\ ~opening /\ workerMoves < MaxWorkerMoves /\ workerMoves' = workerMoves + 1
    /\ workerRoom' = workerMoves' /\ workerOpen' = workerRoom'
    /\ latest' = NoClip /\ mirroring' = Append(mirroring, NoClip)
    /\ UNCHANGED <<opening, decrypting, mirror, reviewed, pasted, workerIds>>
Opened ==
    /\ opening /\ opening' = FALSE /\ workerOpen' = workerRoom
    /\ UNCHANGED <<workerRoom, decrypting, latest, mirror, mirroring, reviewed, pasted, workerIds, workerMoves>>
\* The browser evicts an idle worker; its memory goes, its storage stays.
WorkerRestarts ==
    /\ ~opening /\ workerOpen # 0 /\ decrypting = {} /\ workerMoves < MaxWorkerMoves
    /\ workerMoves' = workerMoves + 1
    /\ latest' = NoClip /\ workerOpen' = 0
    /\ UNCHANGED <<workerRoom, opening, decrypting, mirror, mirroring, reviewed, pasted, workerIds>>
\* connect() on demand.
Reconnects ==
    /\ ~opening /\ workerOpen = 0 /\ workerRoom # 0 /\ workerOpen' = workerRoom
    /\ UNCHANGED <<workerRoom, opening, decrypting, latest, mirror, mirroring, reviewed, pasted, workerIds, workerMoves>>

\* currentClip(): memory first, then storage, as a pair.  Fault: the verdict from storage.
CurrentSplit == IF latest # NoClip THEN [latest EXCEPT !.risky = mirror.risky] ELSE mirror
Current == IF latest # NoClip THEN latest ELSE mirror

Review ==
    /\ Current # NoClip /\ reviewed' = Current
    /\ UNCHANGED <<workerRoom, workerOpen, opening, decrypting, latest, mirror, mirroring, pasted, workerIds, workerMoves>>
Truth == IF latest # NoClip THEN latest.risky ELSE mirror.risky
PasteLatest ==
    /\ Current # NoClip /\ ~Current.risky
    /\ pasted' = pasted \cup {[why |-> "key", id |-> Current.id, risky |-> Truth, seen |-> reviewed.id]}
    /\ UNCHANGED <<workerRoom, workerOpen, opening, decrypting, latest, mirror, mirroring, reviewed, workerIds, workerMoves>>
\* confirm-paste: only the clip that was displayed.  Fault: any, once one was.
IsReviewedAny == TRUE
IsReviewed == Current.id = reviewed.id
ConfirmPaste ==
    /\ reviewed # NoClip /\ Current # NoClip /\ IsReviewed
    /\ pasted' = pasted \cup {[why |-> "click", id |-> Current.id, risky |-> Truth, seen |-> reviewed.id]}
    /\ reviewed' = NoClip
    /\ UNCHANGED <<workerRoom, workerOpen, opening, decrypting, latest, mirror, mirroring, workerIds, workerMoves>>

WorkerInit == workerRoom = 0 /\ workerOpen = 0 /\ opening = FALSE /\ decrypting = {}
    /\ latest = NoClip /\ mirror = NoClip /\ mirroring = <<>> /\ reviewed = NoClip
    /\ pasted = {} /\ workerIds = 0 /\ workerMoves = 0
WorkerNext ==
    \/ ReceivedClip \/ MirrorLands \/ NewRoom \/ JoinRoom \/ Opened \/ WorkerRestarts \/ Reconnects
    \/ Review \/ PasteLatest \/ ConfirmPaste
    \/ \E risky \in BOOLEAN : ClipArrives(risky)
WorkerSpec == WorkerInit /\ [][WorkerNext]_workerVars

\* A clip that reads like a command is written only by a click: the paste key is no consent
\* (worker.js:56-64).
KeyIsNoConsent == \A p \in pasted : p.why = "key" => ~p.risky

\* And a click writes the clip it was shown for, whatever has arrived or restarted since
\* (worker.js:56-60).
ClickWritesReviewed == \A p \in pasted : p.why = "click" => p.id = p.seen

\* What worker.js:81-84 says of a clip: that it belongs to the room it arrived in.
ClipOfThisRoom == latest # NoClip => latest.room = workerRoom
-----------------------------------------------------------------------------
(* VS Code's clipboard host, which polls the system's clipboard.           *)

VARIABLES
    board,          \* the system's clipboard
    hostWrites,     \* writes on their way to it
    ring,           \* texts remembered as the host's own
    lastSeen,
    sampled,        \* what a read under way will answer, or "none"
    capturing,      \* the user's copy has not been reported
    reported,       \* texts given to the listener
    forgot,         \* history: own texts whose time in the ring is over
    hostSteps

hostVars == <<board, hostWrites, ring, lastSeen, sampled, capturing, reported, forgot, hostSteps>>

\* invoke and writeQuietly.  Fault: the write is remembered as seen, and not in the ring.
RememberedSeen(text) == {}
Remembered(text) == {text}
Invoke(text) ==
    /\ hostSteps < MaxHostSteps /\ hostSteps' = hostSteps + 1
    /\ ring' = ring \cup Remembered(text) /\ lastSeen' = text
    /\ hostWrites' = Append(hostWrites, text)
    /\ UNCHANGED <<board, sampled, capturing, reported, forgot>>
WriteLands ==
    /\ hostWrites # <<>> /\ board' = Head(hostWrites) /\ hostWrites' = Tail(hostWrites)
    /\ capturing' = FALSE
    /\ UNCHANGED <<ring, lastSeen, sampled, reported, forgot, hostSteps>>
UserCopies(text) ==
    /\ hostSteps < MaxHostSteps /\ hostSteps' = hostSteps + 1
    /\ text # board /\ board' = text /\ capturing' = (text # lastSeen)
    /\ UNCHANGED <<hostWrites, ring, lastSeen, sampled, reported, forgot>>
TickReads ==
    /\ sampled = "none" /\ board # "none" /\ sampled' = board
    /\ UNCHANGED <<board, hostWrites, ring, lastSeen, capturing, reported, forgot, hostSteps>>
\* What a tick has read is not ours.  Fault: it is remembered as if it were.
SeenAsOwn(text) == {text}
SeenAs(text) == {}
TickEnds ==
    /\ sampled # "none" /\ sampled' = "none" /\ lastSeen' = sampled
    /\ LET news == sampled # lastSeen /\ sampled \notin ring IN
       /\ reported' = IF news THEN reported \cup {sampled} ELSE reported
       /\ capturing' = (capturing /\ ~(news /\ sampled = board))
    /\ ring' = IF sampled = lastSeen THEN ring ELSE ring \cup SeenAs(sampled)
    /\ UNCHANGED <<board, hostWrites, forgot, hostSteps>>
\* Thirty seconds pass, which a write and many ticks fit in.
RingForgets ==
    /\ ring # {} /\ hostWrites = <<>> /\ sampled = "none" /\ lastSeen = board
    /\ ring' = {} /\ forgot' = forgot \cup ring
    /\ UNCHANGED <<board, hostWrites, lastSeen, sampled, capturing, reported, hostSteps>>

HostInit == board = "none" /\ hostWrites = <<>> /\ ring = {} /\ lastSeen = "none"
    /\ sampled = "none" /\ capturing = FALSE /\ reported = {} /\ forgot = {} /\ hostSteps = 0
HostWork == TickReads \/ TickEnds \/ WriteLands
HostNext == HostWork \/ RingForgets \/ (\E t \in OwnText : Invoke(t)) \/ \E t \in UserText : UserCopies(t)
HostSpec == HostInit /\ [][HostNext]_hostVars

\* The host never reads its own write back as a copy, which would bounce a clip around
\* the room for ever (host.mjs:13-17), while it remembers the write.
NoBounce == reported \cap OwnText \subseteq forgot

\* And every copy that stays is reported, also one of a text copied before (host.mjs:30-33),
\* unless the last tick read that text.
CopyIsReported == capturing ~> ~capturing

\* host.mjs:11-33: the host tells its own writes from the user's copies.
HostListens == []NoBounce /\ CopyIsReported
-----------------------------------------------------------------------------
(* The command line in both directions: lines typed, and the end of input. *)

VARIABLES
    typed,          \* lines typed
    encrypting,     \* lines whose clip is being sealed
    linesDone,      \* those sent or failed
    linesSent,      \* those handed to the socket, in order
    lineFailed,     \* failed
    cliOnline,      \* the relay takes what is sent
    inputEnded,
    exitCode,       \* -1 until the process exits
    signalled       \* history: SIGINT or SIGTERM ended it

cliVars == <<typed, encrypting, linesDone, linesSent, lineFailed, cliOnline, inputEnded, exitCode,
             signalled>>

Unsealed == (1..typed) \ (encrypting \cup linesDone)

TypeLine ==
    /\ exitCode = -1 /\ ~inputEnded /\ typed < MaxLines /\ typed' = typed + 1
    /\ UNCHANGED <<encrypting, linesDone, linesSent, lineFailed, cliOnline, inputEnded, exitCode, signalled>>
\* The chain: a line's clip is sealed when the line before it is done.  Fault: launched.
MaySealAny(n) == TRUE
MaySeal(n) == encrypting = {} /\ \A m \in Unsealed : n <= m
SealLine(n) ==
    /\ exitCode = -1 /\ n \in Unsealed /\ MaySeal(n) /\ encrypting' = encrypting \cup {n}
    /\ UNCHANGED <<typed, linesDone, linesSent, lineFailed, cliOnline, inputEnded, exitCode, signalled>>
SendLine(n) ==
    /\ exitCode = -1 /\ n \in encrypting /\ encrypting' = encrypting \ {n}
    /\ linesDone' = linesDone \cup {n}
    /\ IF cliOnline THEN linesSent' = Append(linesSent, n) /\ UNCHANGED lineFailed
       ELSE lineFailed' = TRUE /\ UNCHANGED linesSent
    /\ UNCHANGED <<typed, cliOnline, inputEnded, exitCode, signalled>>
CliLink == cliOnline' = ~cliOnline
    /\ UNCHANGED <<typed, encrypting, linesDone, linesSent, lineFailed, inputEnded, exitCode, signalled>>
InputEnds == ~inputEnded /\ inputEnded' = TRUE
    /\ UNCHANGED <<typed, encrypting, linesDone, linesSent, lineFailed, cliOnline, exitCode, signalled>>
\* Drained, or out of time.  Fault: the code says whether a line failed, and no more.
CodeFailed(drained) == IF lineFailed THEN 4 ELSE 0
Code(drained) == IF lineFailed \/ ~drained THEN 4 ELSE 0
CliExits(drained) ==
    /\ inputEnded /\ exitCode = -1
    /\ drained => linesDone = 1..typed
    /\ exitCode' = Code(drained)
    /\ UNCHANGED <<typed, encrypting, linesDone, linesSent, lineFailed, cliOnline, inputEnded, signalled>>
\* A signal is answered with 0 wherever the lines are, and --timeout with 5.
CliStopped(code) ==
    /\ exitCode = -1 /\ exitCode' = code /\ signalled' = (code = 0)
    /\ UNCHANGED <<typed, encrypting, linesDone, linesSent, lineFailed, cliOnline, inputEnded>>

CliInit == typed = 0 /\ encrypting = {} /\ linesDone = {} /\ linesSent = <<>> /\ lineFailed = FALSE
    /\ cliOnline = TRUE /\ inputEnded = FALSE /\ exitCode = -1 /\ signalled = FALSE
CliNext ==
    \/ TypeLine \/ CliLink \/ InputEnds \/ (\E drained \in BOOLEAN : CliExits(drained))
    \/ (\E code \in {0, 5} : CliStopped(code))
    \/ \E n \in 1..MaxLines : SealLine(n) \/ SendLine(n)
CliSpec == CliInit /\ [][CliNext]_cliVars

\* Lines reach the relay in the order they were typed (realtimeclipboard.mjs:311-314).
LinesInOrder == \A i, j \in DOMAIN linesSent : i < j => linesSent[i] < linesSent[j]

\* And an exit that says it worked means every line went (realtimeclipboard.mjs:324-327),
\* but one that a signal asked for: it says 0 with lines unsent (342-348).
ExitIsHonest == exitCode = 0 /\ ~signalled => \A n \in 1..typed : \E i \in DOMAIN linesSent : linesSent[i] = n
-----------------------------------------------------------------------------
(* One run of the command line, from the key it was given to its exit.     *)

VARIABLES
    runCommand,     \* "send", "watch" or "once"
    runTimed,       \* --timeout was given
    runAt,          \* "deriving", "connecting", "reading", "sealing", "flushing", "watching"
    runLinked,      \* the room's connection is open
    runSent, runPrinted, runEvicted,    \* history
    runSignalled,   \* history: the run's own handler of a signal ended it
    runCode         \* -1 until the process exits

runVars == <<runCommand, runTimed, runAt, runLinked, runSent, runPrinted, runEvicted, runSignalled, runCode>>

EndsWithCode(code) ==
    runCode' = code /\ UNCHANGED <<runCommand, runTimed, runAt, runLinked, runSent, runPrinted, runEvicted>>
Exits(code) == EndsWithCode(code) /\ UNCHANGED runSignalled

\* derive(): the key or the PIN is refused.
RunDerives ==
    /\ runAt = "deriving"
    /\ \/ Exits(2)
       \/ runAt' = "connecting" /\ UNCHANGED <<runCommand, runTimed, runLinked, runSent, runPrinted, runEvicted, runSignalled, runCode>>
RunConnects ==
    /\ runAt = "connecting"
    /\ \/ Exits(4)
       \/ /\ runLinked' = TRUE /\ runAt' = IF runCommand = "send" THEN "reading" ELSE "watching"
          /\ UNCHANGED <<runCommand, runTimed, runSent, runPrinted, runEvicted, runSignalled, runCode>>
\* A clip is printed under every command, and ends a watch --once.
RunClip ==
    /\ runLinked /\ runPrinted' = TRUE
    /\ runCode' = IF runCommand = "once" THEN 0 ELSE -1
    /\ UNCHANGED <<runCommand, runTimed, runAt, runLinked, runSent, runEvicted, runSignalled>>
\* The end of stdin: with nothing on it, or too much, nothing is sealed.
RunReads ==
    /\ runAt = "reading"
    /\ \/ Exits(2)
       \/ runAt' = "sealing" /\ UNCHANGED <<runCommand, runTimed, runLinked, runSent, runPrinted, runEvicted, runSignalled, runCode>>
\* send(): handed to an open connection, or thrown.
RunSends ==
    /\ runAt = "sealing"
    /\ \/ /\ runLinked /\ runSent' = TRUE /\ runAt' = "flushing"
          /\ UNCHANGED <<runCommand, runTimed, runLinked, runPrinted, runEvicted, runSignalled, runCode>>
       \/ ~runLinked /\ Exits(2)
RunFlushed == runAt = "flushing" /\ Exits(0)
RunTimesOut == runTimed /\ runAt # "deriving" /\ Exits(5)
\* relay.js drops and reconnects until an eviction has closed it.
RunLink ==
    /\ runAt \notin {"deriving", "connecting"} /\ ~runEvicted /\ runLinked' = ~runLinked
    /\ UNCHANGED <<runCommand, runTimed, runAt, runSent, runPrinted, runEvicted, runSignalled, runCode>>
RunIsEvicted ==
    /\ runLinked /\ runLinked' = FALSE /\ runEvicted' = TRUE
    /\ UNCHANGED <<runCommand, runTimed, runAt, runSent, runPrinted, runSignalled, runCode>>
\* Evicted, nothing is left to wait for, and the process ends by itself.
RunEndsEvicted == runEvicted /\ runAt = "watching" /\ Exits(0)
\* Ctrl+C or a kill.  The handlers are set when the top level has run to its end: a
\* "send" never has them, and a process without them is killed (128 + 2 to a shell).
RunSignalled ==
    IF runAt = "watching" THEN EndsWithCode(0) /\ runSignalled' = TRUE ELSE Exits(130)

RunInit ==
    /\ runCommand \in {"send", "watch", "once"} /\ runTimed \in BOOLEAN
    /\ runAt = "deriving" /\ runLinked = FALSE
    /\ runSent = FALSE /\ runPrinted = FALSE /\ runEvicted = FALSE
    /\ runSignalled = FALSE /\ runCode = -1
RunNext == runCode = -1 /\
    (RunDerives \/ RunConnects \/ RunClip \/ RunReads \/ RunSends \/ RunFlushed \/ RunTimesOut
     \/ RunLink \/ RunIsEvicted \/ RunEndsEvicted \/ RunSignalled)
RunSpec == RunInit /\ [][RunNext]_runVars

\* What the exit code tells the shell: 0 that the clip went, or that one was printed for
\* --once unless the room ended or a signal came (342-348 say 0 to both); 2 and 4 that
\* nothing went (session.mjs:211-217, realtimeclipboard.mjs:245-305).
RunCodeTells ==
    /\ runCode = 0 /\ runCommand = "send" => runSent
    /\ runCode = 0 /\ runCommand = "once" => runPrinted \/ runEvicted \/ runSignalled
    /\ runCode \in {2, 4} => ~runSent

\* session.mjs:36-40, worker.js:56-64: the agents answer who asked, in order, swallow
\* nothing, report what happened, write only what was consented to and keep one room.
AgentsAreHonest ==
    /\ AnswersWhereAsked /\ NoClipSwallowed /\ LinesInOrder /\ ExitIsHonest /\ RunCodeTells
    /\ KeyIsNoConsent /\ ClickWritesReviewed /\ VsCodeKeepsItsWord
=============================================================================
