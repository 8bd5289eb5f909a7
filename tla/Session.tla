------------------------------- MODULE Session -------------------------------
(***************************************************************************)
(* The session pipeline of the client: src/src/main.js with the parts of   *)
(* core/state.js, core/verify.js, core/crypto.js, core/frames.js and       *)
(* ui/features/lockDialog.js it drives.  A device opens a session (derive  *)
(* a key, connect), leaves it, rotates, locks, unlocks or re-PINs it, is   *)
(* told of a key collision or of an eviction, and all the while clips,     *)
(* keystrokes, file frames and proofs are sealed, sent, received and       *)
(* opened.  Deriving, sealing, opening, prompting and writing the          *)
(* clipboard are all asynchronous; JavaScript runs one handler at a time,  *)
(* so an action is one handler up to its next await.                       *)
(*                                                                         *)
(* A session is named by the value of sessionGen it was opened with: the   *)
(* same number stands for its key, its room and its entry on disk, which   *)
(* makes two sessions with one key different and the rules stricter.       *)
(***************************************************************************)
EXTENDS Naturals, Sequences

CONSTANTS MaxGen,      \* bound on sessionGen
          MaxTraffic,  \* bound on the frames this device makes and hears
          MaxDrops,    \* bound on connections that drop
          MaxFlips     \* bound on changes of the sync rung

ASSUME BoundsAreNat == {MaxGen, MaxTraffic, MaxDrops, MaxFlips} \subseteq Nat
\* boot() may open a session at once.
ASSUME BootsSomewhere == MaxGen # 0

None == 0              \* no session, no clip

VARIABLES
  gen,         \* sessionGen
  deriving,    \* calls of openSession waiting for their derivation
  key,         \* the session of state.aesKey, or None
  locked,      \* state.locked
  verified,    \* state.verified: something opened under this key
  room,        \* the session whose room the relay was told to join, or None
  conn,        \* "closed", "opening" or "open"
  intent,      \* the intent of that connection: only a "create" can collide
  disk,        \* the session storage remembers, or None
  gate,        \* pendingLock: the intent of the session parked, or "no"
  prompt,      \* the modal on screen: what asked, and the intent it holds
  locking,     \* a lock between its answer and its move: "no", "seal", "flush"
  shares,      \* the rung is not Off
  queued,      \* queuedClip: the number of the clip, and its gen
  clipTail,    \* sendClip's chain: the head is being sealed
  sideTail,    \* a sealedSender's chain: the head is being sealed
  loose,       \* stream, verify and eviction frames being sealed
  decrypting,  \* frames being opened
  applying     \* clips handed to capture.apply(), waiting for the clipboard

(* What an observer remembers: not part of the program. *)
VARIABLES
  target,      \* the session last asked for, None once left
  wire,        \* the last frame sent: written, sealed and sent in one room, and shared
  sent,        \* the numbers last sent, of clips and of file frames
  felt,        \* the last effect of a frame was in the room it came from
  shown,       \* the number of the clip the editor shows
  proof,       \* the session in which a frame was last opened
  count        \* what the bounds bound

busy  == <<clipTail, sideTail, loose, decrypting, applying>>
pipes == <<queued, clipTail, sideTail, loose, decrypting, applying>>
place == <<gen, deriving, key, locked, verified, room, conn, intent, disk, gate, target>>
asked == <<prompt, locking>>
seen  == <<wire, sent, felt, shown, proof>>
vars  == <<place, asked, shares, pipes, seen, count>>

NoClip == [n |-> 0, gen |-> 0]
Quiet  == [op |-> "none", intent |-> "join"]
Spend(what) == count' = [count EXCEPT ![what] = @ + 1]

------------------------------------------------------------------------------
(* Opening and leaving *)

(* What openSession() does before its await. *)
OpenAt(g, l, i) ==
  /\ gen' = g
  /\ target' = g
  /\ disk' = g
  /\ gate' = "no"
  /\ deriving' = deriving \cup {[gen |-> g, locked |-> l, intent |-> i]}

(* What leaveRoom() drops.  Everything in flight is left to find that the  *)
(* generation has moved on.                                                *)
Drops ==
  /\ key' = None /\ locked' = FALSE /\ verified' = FALSE
  /\ room' = None /\ conn' = "closed"
  /\ queued' = NoClip
  /\ UNCHANGED intent

MoveTo(l, i) ==
  /\ gen + 2 <= MaxGen
  /\ Drops
  /\ OpenAt(gen + 2, l, i)

LeaveRoom ==
  /\ gen < MaxGen
  /\ Drops
  /\ gen' = gen + 1
  /\ target' = None
  /\ UNCHANGED deriving

EndSession ==
  /\ LeaveRoom
  /\ disk' = None
  /\ gate' = "no"

(* A derivation finishes: a newer session wins. *)
WantedAlways(d) == TRUE                \* plausible bugs
WantedIfAlone(d) == deriving = {d}
Wanted(d) == d.gen = gen

Derived(d) ==
  /\ d \in deriving
  /\ deriving' = deriving \ {d}
  /\ IF Wanted(d)
     THEN /\ key' = d.gen /\ room' = d.gen
          /\ locked' = d.locked /\ verified' = FALSE
          /\ conn' = "opening" /\ intent' = d.intent
     ELSE UNCHANGED <<key, room, locked, verified, conn, intent>>
  /\ UNCHANGED <<gen, disk, gate, target, asked, shares, pipes, seen, count>>

------------------------------------------------------------------------------
(* What the user and the room ask for *)

Shows(op, i) == prompt' = [op |-> op, intent |-> i]

(* A modal that is replaced or dismissed answers null to whoever asked. *)
Parked(p) == IF p.op \in {"boot", "collision"} THEN p.intent ELSE "no"

Rotate ==
  /\ ~locked /\ prompt = Quiet
  /\ MoveTo(FALSE, "create")
  /\ UNCHANGED <<asked, shares, busy, seen, count>>

Rejoin ==
  /\ prompt = Quiet
  /\ MoveTo(FALSE, "join")
  /\ UNCHANGED <<asked, shares, busy, seen, count>>

Unlock ==
  /\ locked /\ prompt = Quiet
  /\ MoveTo(FALSE, "create")
  /\ UNCHANGED <<asked, shares, busy, seen, count>>

Leave ==
  /\ prompt = Quiet
  /\ EndSession
  /\ UNCHANGED <<asked, shares, busy, seen, count>>

(* Everything that needs a PIN asks for it before it leaves.  retryLock()   *)
(* takes the key of the session, and the parked one only where state.key is *)
(* null: before the first session.  A room left since leaves "" there, and  *)
(* the gate of a cancelled collision answers nothing.  Nobody asks for a    *)
(* second lock in the quarter of a second of the first one's goodbye.       *)
Ask ==
  /\ prompt = Quiet
  /\ \/ Shows("rejoin", "join")
     \/ locked /\ Shows("rotate", "create")
     \/ locked /\ Shows("repin", "create")
     \/ ~locked /\ locking = "no" /\ Shows("lock", "create")
     \/ key # None /\ Shows("retry", "join")
     \/ gen = 0 /\ gate # "no" /\ Shows("retry", gate)
  /\ UNCHANGED <<place, locking, shares, pipes, seen, count>>

(* A prompt is answered by a person, which takes longer than the flush of  *)
(* an eviction (LOCK.EVICT_FLUSH_MS, 250 ms).                              *)
Answer ==
  /\ prompt.op \in {"rejoin", "rotate", "repin", "retry"}
  /\ locking = "no"
  /\ MoveTo(TRUE, prompt.intent)
  /\ prompt' = Quiet
  /\ UNCHANGED <<locking, shares, busy, seen, count>>

(* The answers that find no room to leave. *)
AnswerOutside ==
  /\ gen < MaxGen
  /\ locking = "no"
  /\ \/ prompt.op \in {"boot", "collision"} /\ OpenAt(gen + 1, TRUE, prompt.intent)
     \/ prompt.op = "notice" /\ OpenAt(gen + 1, FALSE, "create")
  /\ prompt' = Quiet
  /\ UNCHANGED <<key, locked, verified, room, conn, intent, locking, shares, pipes, seen, count>>

Cancel ==
  /\ prompt # Quiet
  /\ prompt' = Quiet
  /\ gate' = IF Parked(prompt) = "no" THEN gate ELSE Parked(prompt)
  /\ UNCHANGED <<gen, deriving, key, locked, verified, room, conn, intent, disk, target,
                 locking, shares, pipes, seen, count>>

(* session:lock: say goodbye to the others if this device may speak, give  *)
(* it time to travel, and move.  Others are counted when the lock is asked *)
(* for, and a device that may lock with others there has been welcomed.    *)
MaySayGoodbye == key # None /\ conn = "open" /\ shares

Lock(others) ==
  /\ prompt.op = "lock"
  /\ locking = "no"
  /\ others => intent = "join"
  /\ prompt' = Quiet
  /\ IF others /\ MaySayGoodbye
     THEN /\ locking' = "seal"
          /\ loose' = loose \cup {[kind |-> "evict", gen |-> gen, key |-> key]}
          /\ UNCHANGED <<place, queued>>
     ELSE MoveTo(TRUE, "create") /\ UNCHANGED <<locking, loose>>
  /\ UNCHANGED <<shares, clipTail, sideTail, decrypting, applying, seen, count>>

LockMoves ==
  /\ locking = "flush"
  /\ MoveTo(TRUE, "create")
  /\ locking' = "no"
  /\ UNCHANGED <<prompt, shares, busy, seen, count>>

(* KEY_COLLISION: an unlocked session simply takes another key; a locked   *)
(* one has to ask for the PIN again, and is outside while it does.         *)
Collide ==
  /\ conn = "open" /\ intent = "create"
  /\ IF locked
     THEN /\ LeaveRoom
          /\ gate' = gate
          /\ Shows("collision", "create")
          /\ UNCHANGED <<disk>>
     ELSE MoveTo(FALSE, "create") /\ UNCHANGED prompt
  /\ UNCHANGED <<locking, shares, busy, seen, count>>

(* The welcome of a key that nobody had taken. *)
Welcomed ==
  /\ conn = "open" /\ intent = "create"
  /\ intent' = "join"
  /\ UNCHANGED <<gen, deriving, key, locked, verified, room, conn, disk, gate, target,
                 asked, shares, pipes, seen, count>>

------------------------------------------------------------------------------
(* Sending *)

Online == key # None /\ conn = "open"

(* relay.send(): a frame for a connection that is down is gone. *)
Puts(job, kind) ==
  IF conn = "open"
  THEN /\ wire' = [home |-> {job.gen, job.key} = {room}, shared |-> shares]
       /\ sent' = IF kind = "loose" THEN sent ELSE [sent EXCEPT ![kind] = job.n]
  ELSE UNCHANGED <<wire, sent>>

MineAlways(job) == TRUE                 \* a plausible bug
Mine(job) == job.gen = gen
Starts(tail) == IF tail = <<>> THEN tail ELSE <<[Head(tail) EXCEPT !.key = key]>> \o Tail(tail)

(* What is left of a chain: clips of a room that was left come first in it  *)
(* and are dropped in turn.                                                 *)
Those(tail) == {i \in DOMAIN tail : Mine(tail[i])}
From(tail) == CHOOSE i \in Those(tail) : \A j \in Those(tail) : i <= j
Live(tail) == IF Those(tail) = {} THEN <<>> ELSE SubSeq(tail, From(tail), Len(tail))

(* sendClip's next turn, which runs in the same turn of the event loop:    *)
(* without a connection each clip takes the slot in turn, so the last of   *)
(* them keeps it.                                                          *)
ClipTurn(tail) ==
  IF Online \/ Live(tail) = <<>>
  THEN clipTail' = Starts(Live(tail)) /\ UNCHANGED queued
  ELSE /\ clipTail' = <<>>
       /\ queued' = [n |-> tail[Len(tail)].n, gen |-> gen]

Job(n) == [n |-> n, gen |-> gen, key |-> None]
JoinsFirst(tail, job) == Starts(<<job>>) \o tail   \* a plausible bug
Joins(tail, job) == IF tail = <<>> THEN Starts(<<job>>) ELSE Append(tail, job)

(* sendText(): queued while there is no session to send it in. *)
Commit ==
  /\ count.made + count.heard < MaxTraffic
  /\ shares
  /\ LET n == count.made + 1 IN
     IF Online
     THEN clipTail' = Joins(clipTail, Job(n)) /\ UNCHANGED queued
     ELSE queued' = [n |-> n, gen |-> gen] /\ UNCHANGED clipTail
  /\ Spend("made")
  /\ UNCHANGED <<place, asked, shares, sideTail, loose, decrypting, applying, seen>>

(* Both questions again after the seal: this room still, and still shared. *)
MaySendAnywhere(job) == shares          \* plausible bugs
MaySendOff(job) == job.gen = gen
MaySend(job) == job.gen = gen /\ shares

ClipSealed ==
  /\ clipTail # <<>>
  /\ LET job == Head(clipTail) IN
     IF MaySend(job) THEN Puts(job, "clip") ELSE UNCHANGED <<wire, sent>>
  /\ ClipTurn(Tail(clipTail))
  /\ UNCHANGED <<place, asked, shares, sideTail, loose, decrypting, applying,
                 felt, shown, proof, count>>

(* The connection is up: flushQueuedClip(). *)
Flushable == queued.n # 0 /\ queued.gen = gen /\ shares

ConnectedUnheard ==                     \* a plausible bug
  /\ conn = "opening"
  /\ conn' = "open"
  /\ UNCHANGED <<gen, deriving, key, locked, verified, room, intent, disk, gate, target,
                 asked, shares, pipes, seen, count>>

Connected ==
  /\ conn = "opening"
  /\ conn' = "open"
  /\ queued' = NoClip
  /\ clipTail' = IF Flushable THEN Joins(clipTail, Job(queued.n)) ELSE clipTail
  /\ UNCHANGED <<gen, deriving, key, locked, verified, room, intent, disk, gate, target,
                 asked, shares, sideTail, loose, decrypting, applying, seen, count>>

Dropped ==
  /\ count.drops < MaxDrops
  /\ conn = "open"
  /\ conn' = "opening"
  /\ Spend("drops")
  /\ UNCHANGED <<gen, deriving, key, locked, verified, room, intent, disk, gate, target,
                 asked, shares, pipes, seen>>

(* sealedSender: file, cursor and retraction frames, sealed in the order   *)
(* they were issued.                                                       *)
SideTurn(tail) ==
  sideTail' = IF shares THEN Starts(Live(tail)) ELSE <<>>

Issue ==
  /\ count.made + count.heard < MaxTraffic
  /\ shares /\ conn = "open"
  /\ sideTail' = Joins(sideTail, Job(count.made + 1))
  /\ Spend("made")
  /\ UNCHANGED <<place, asked, shares, queued, clipTail, loose, decrypting, applying, seen>>

SideSealed ==
  /\ sideTail # <<>>
  /\ LET job == Head(sideTail) IN
     IF MaySend(job) THEN Puts(job, "side") ELSE UNCHANGED <<wire, sent>>
  /\ SideTurn(Tail(sideTail))
  /\ UNCHANGED <<place, asked, shares, queued, clipTail, loose, decrypting, applying,
                 felt, shown, proof, count>>

(* sendStream() and the verifier's transmit(): sealed with nothing to wait *)
(* for.  A proof also needs a locked session, before and after.            *)
Eligible == key # None /\ locked /\ shares

Seals(kind) == loose' = loose \cup {[kind |-> kind, gen |-> gen, key |-> key]}

Type ==
  /\ count.made + count.heard < MaxTraffic
  /\ shares /\ Online
  /\ Seals("stream")
  /\ Spend("made")
  /\ UNCHANGED <<place, asked, shares, queued, clipTail, sideTail, decrypting, applying, seen>>

(* verifier.request(): a peer arrived, and this device is unverified. *)
Probe ==
  /\ count.made + count.heard < MaxTraffic
  /\ ~verified /\ Eligible
  /\ Seals("verify")
  /\ Spend("made")
  /\ UNCHANGED <<place, asked, shares, queued, clipTail, sideTail, decrypting, applying, seen>>

MaySendLoose(job) == MaySend(job) /\ (job.kind = "verify" => locked)

LooseSealed(job) ==
  /\ job \in loose
  /\ job.kind # "evict"
  /\ loose' = loose \ {job}
  /\ IF MaySendLoose(job) THEN Puts(job, "loose") ELSE UNCHANGED <<wire, sent>>
  /\ UNCHANGED <<place, asked, shares, queued, clipTail, sideTail, decrypting, applying,
                 felt, shown, proof, count>>

(* sendEviction() after its seal: sent and flushed, or given up at once. *)
GoodbyeSent ==
  /\ locking = "seal"
  /\ \E job \in loose :
       /\ job.kind = "evict" /\ MaySend(job)
       /\ Puts(job, "loose")
       /\ loose' = loose \ {job}
  /\ locking' = "flush"
  /\ UNCHANGED <<place, prompt, shares, queued, clipTail, sideTail, decrypting, applying,
                 felt, shown, proof, count>>

GoodbyeGivenUp ==
  /\ locking = "seal"
  /\ MoveTo(TRUE, "create")
  /\ \E job \in loose :
       job.kind = "evict" /\ ~MaySend(job) /\ loose' = loose \ {job}
  /\ locking' = "no"
  /\ UNCHANGED <<prompt, shares, clipTail, sideTail, decrypting, applying, seen, count>>

(* The rung: coming back from Off, the verifier proves itself unasked. *)
Flip ==
  /\ count.flips < MaxFlips
  /\ shares' = ~shares
  /\ Spend("flips")
  /\ \/ UNCHANGED loose
     \/ ~shares /\ key # None /\ locked /\ Seals("verify")
  /\ UNCHANGED <<place, asked, queued, clipTail, sideTail, decrypting, applying, seen>>

------------------------------------------------------------------------------
(* Receiving *)

(* onFrame() up to the decryption.  No other device locks the session      *)
(* while this one does: one founder at a time.                             *)
Arrive(kind) ==
  /\ count.made + count.heard < MaxTraffic
  /\ Online
  /\ kind = "stream" => shares
  /\ kind = "evict" => locking = "no"
  /\ decrypting' = decrypting \cup
       {[n |-> count.heard + 1, kind |-> kind, gen |-> gen, key |-> key]}
  /\ Spend("heard")
  /\ UNCHANGED <<place, asked, shares, queued, clipTail, sideTail, loose, applying, seen>>

StillHereAlways(job) == TRUE            \* a plausible bug
StillHere(job) == job.gen = gen
Feels(job) == felt' = (job.key = key)

(* Opened in the session it came to: proof of the PIN. *)
Latches(job) ==
  /\ verified' = (verified \/ locked)
  /\ proof' = job.gen

Opens(job) == job \in decrypting /\ decrypting' = decrypting \ {job}

OpenedLate(job) ==
  /\ Opens(job)
  /\ ~StillHere(job)
  /\ UNCHANGED <<place, asked, shares, queued, clipTail, sideTail, loose, applying, seen, count>>

OpenedClip(job) ==
  /\ Opens(job) /\ job.kind = "clip"
  /\ StillHere(job)
  /\ Latches(job) /\ Feels(job)
  /\ applying' = IF shares THEN applying \cup {[n |-> job.n, gen |-> gen, seq |-> count.seq + 1]}
                 ELSE applying
  /\ IF shares THEN Spend("seq") ELSE UNCHANGED count
  /\ UNCHANGED <<gen, deriving, key, locked, room, conn, intent, disk, gate, target, asked,
                 shares, queued, clipTail, sideTail, loose, wire, sent, shown>>

OpenedStream(job) ==
  /\ Opens(job) /\ job.kind = "stream"
  /\ StillHere(job)
  /\ Latches(job) /\ Feels(job)
  /\ UNCHANGED <<gen, deriving, key, locked, room, conn, intent, disk, gate, target, asked,
                 shares, queued, clipTail, sideTail, loose, applying, wire, sent, shown, count>>

(* A probe is answered, if this device is eligible to. *)
OpenedProbe(job) ==
  /\ Opens(job) /\ job.kind = "verify"
  /\ StillHere(job)
  /\ Latches(job) /\ Feels(job)
  /\ IF Eligible THEN Seals("verify") ELSE UNCHANGED loose
  /\ UNCHANGED <<gen, deriving, key, locked, room, conn, intent, disk, gate, target, asked,
                 shares, queued, clipTail, sideTail, applying, wire, sent, shown, count>>

(* onEvicted(): the whole teardown first, and the notice second.  The flag *)
(* `evicted` is up exactly while the notice is.                            *)
OpenedEviction(job) ==
  /\ Opens(job) /\ job.kind = "evict"
  /\ StillHere(job)
  /\ locking = "no"
  /\ EndSession
  /\ Shows("notice", "create")
  /\ Feels(job)
  /\ proof' = job.gen
  /\ UNCHANGED <<locking, shares, clipTail, sideTail, loose, applying,
                 wire, sent, shown, count>>

(* The clipboard write is over: a later clip, or another room, wins. *)
MayShowLate(job) == job.gen = gen       \* a plausible bug
MayShow(job) == job.seq = count.seq /\ job.gen = gen

Applied(job) ==
  /\ job \in applying
  /\ applying' = applying \ {job}
  /\ IF MayShow(job)
     THEN shown' = job.seq /\ felt' = (job.gen = gen)
     ELSE UNCHANGED <<shown, felt>>
  /\ UNCHANGED <<place, asked, shares, queued, clipTail, sideTail, loose, decrypting,
                 wire, sent, proof, count>>

------------------------------------------------------------------------------
(* The specification *)

(* boot(): a key from the link, from storage or made here; a locked one    *)
(* whose PIN this tab does not hold is asked for first.                    *)
Init ==
  /\ \/ /\ gen = 1 /\ prompt = Quiet
        /\ \E l \in BOOLEAN, i \in {"create", "join"} :
             deriving = {[gen |-> 1, locked |-> l, intent |-> i]}
     \/ /\ gen = 0 /\ deriving = {}
        /\ \E i \in {"create", "join"} : prompt = [op |-> "boot", intent |-> i]
  /\ target = gen /\ disk = gen
  /\ key = None /\ locked = FALSE /\ verified = FALSE
  /\ room = None /\ conn = "closed" /\ intent = "join"
  /\ gate = "no" /\ locking = "no" /\ shares = TRUE
  /\ queued = NoClip /\ clipTail = <<>> /\ sideTail = <<>>
  /\ loose = {} /\ decrypting = {} /\ applying = {}
  /\ wire = [home |-> TRUE, shared |-> TRUE]
  /\ sent = [clip |-> 0, side |-> 0]
  /\ felt = TRUE
  /\ shown = 0
  /\ proof = None
  /\ count = [made |-> 0, heard |-> 0, drops |-> 0, flips |-> 0, seq |-> 0]

Moves == Rotate \/ Rejoin \/ Unlock \/ Leave \/ LockMoves \/ Collide
Prompts == Ask \/ Answer \/ AnswerOutside \/ Cancel \/ \E o \in BOOLEAN : Lock(o)
Sends == Commit \/ Issue \/ Type \/ Probe \/ Flip
Crypto ==
  \/ \E d \in deriving : Derived(d)
  \/ ClipSealed \/ SideSealed \/ GoodbyeSent \/ GoodbyeGivenUp
  \/ \E job \in loose : LooseSealed(job)
  \/ \E job \in decrypting :
       OpenedLate(job) \/ OpenedClip(job) \/ OpenedStream(job) \/ OpenedProbe(job)
       \/ OpenedEviction(job)
  \/ \E job \in applying : Applied(job)
Network == Connected \/ Welcomed \/ Dropped
           \/ \E kind \in {"clip", "evict", "stream", "verify"} : Arrive(kind)

Next == Moves \/ Prompts \/ Sends \/ Crypto \/ Network

Spec == Init /\ [][Next]_vars

(* WebCrypto and timers always finish, and the transport keeps trying       *)
(* (Transport.FindsWhatWorks); a person need never answer.                 *)
FairSpec == Spec /\ WF_vars(Crypto) /\ WF_vars(LockMoves) /\ WF_vars(Connected)

------------------------------------------------------------------------------
(* Properties *)

(* Types; and whatever is being sealed is sealed with a key: sealWith()     *)
(* lets a frame through in the clear when it is handed none.                *)
TypeOK ==
  /\ {gen, key, room, disk, target, proof} \subseteq 0..MaxGen
  /\ {locked, verified, shares} \subseteq BOOLEAN
  /\ conn \in {"closed", "opening", "open"}
  /\ {intent, prompt.intent} \subseteq {"create", "join"}
  /\ gate \in {"no", "create", "join"}
  /\ locking \in {"no", "seal", "flush"}
  /\ key = room /\ (key # None <=> conn # "closed")
  /\ \A tail \in {clipTail, sideTail} :
       tail # <<>> => Head(tail).key # None /\ \A i \in 2..Len(tail) : tail[i].key = None
  /\ \A job \in loose \cup decrypting : job.key # None

(* main.js:472-474 and 558-559: what was written in one session is never    *)
(* sealed with another's key nor sent into another's room, whatever the     *)
(* session does while it waits and while it is sealed.                      *)
NothingCrosses == wire.home

(* main.js:550-555: nothing leaves a device whose rung is Off, not even     *)
(* what was accepted before it was set.                                     *)
QuietWhenOff == wire.shared

(* main.js:543-547: clips, and file frames, reach the wire in the order     *)
(* they were made, none of them twice, through drops, queue and flush.      *)
SentInOrder == [][\A what \in {"clip", "side"} :
                    sent'[what] # sent[what] => sent'[what] > sent[what]]_vars

(* main.js:307-311: a frame of a room that was left has no effect in the    *)
(* next one: no text, no eviction, no answer, no clip in the editor.        *)
ReceivedInRoom == felt

(* main.js:676-682: a clip whose clipboard write was slow does not come     *)
(* back over a later one.                                                   *)
EditorInOrder == [][shown' >= shown]_vars

(* main.js:412-419: the padlock says the PIN is proved only when a frame    *)
(* was opened in this very session, and it is a locked one.                 *)
VerifiedHonestly == verified => locked /\ proof = gen

(* main.js:101-107: disk remembers the session the device is in, however    *)
(* the derivations finish.                                                  *)
DiskRemembers == key # None => disk = key

(* main.js:435-441: a clip of this session waits in the slot only while     *)
(* there is no connection to send it on.                                    *)
NoneWaitsOnline == queued.n # 0 /\ queued.gen = gen => ~Online

(* main.js:101-107, 435-441: nothing is left behind: disk has the session   *)
(* of the device, and no clip of it waits beside a connection.              *)
NothingForgotten == DiskRemembers /\ NoneWaitsOnline

(* main.js:307-311, 550-559: sessions are apart: what is sent, and what is  *)
(* received and believed, is of the room it was written in.                 *)
StaysInItsRoom ==
  TypeOK /\ NothingCrosses /\ QuietWhenOff /\ ReceivedInRoom /\ VerifiedHonestly

(* main.js:543-547, 676-682: clips and file frames keep their order on the  *)
(* way out, and clips on the way in.                                        *)
InOrder == SentInOrder /\ EditorInOrder

(* main.js:100-107: when the user stops asking, the device is, and stays,   *)
(* connected to the session asked for last.                                 *)
SettlesOnLastRequest == <>[](target # None => key = target /\ conn = "open")

(* main.js:441: "One slot, because a clip is a clipboard: the newest        *)
(* supersedes."                                                             *)
NewestSupersedes == [][queued.n # 0 /\ queued'.n # 0 => queued'.n >= queued.n]_vars

==============================================================================
