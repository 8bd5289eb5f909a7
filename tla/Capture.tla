------------------------------ MODULE Capture ------------------------------
(***************************************************************************)
(* The operating system's clipboard against the clips of a session:        *)
(* src/clipboard/capture.js, with guard.js and os.js under it, and the     *)
(* editor's side of an arriving clip (src/main.js, TEXT_RECEIVED).         *)
(*                                                                         *)
(* One event loop.  Calls on the clipboard are the only suspensions: the   *)
(* system takes writes in the order they were made, applies or refuses     *)
(* each, and answers later; a read answers with what was there when it was *)
(* taken.  Time is two windows that end whenever they like: suppression    *)
(* after a write of ours, and the grace of a copy made here.               *)
(*                                                                         *)
(* A definition marked "Fault" is the next one with a bug one could        *)
(* plausibly write.                                                        *)
(***************************************************************************)
EXTENDS Integers, Sequences

CONSTANTS
    Own,            \* texts the user copies or types
    Remote,         \* texts that arrive from other devices
    Risky, Junk,    \* those the guard flags; those it reduces to nothing
    None,           \* no text, no clip
    MaxArrivals,    \* bound: calls of apply() and putOnClipboard()
    MaxCopies,      \* bound: copies the user makes elsewhere
    MaxRefusals,    \* bound: writes the system refuses
    MaxMoves,       \* bound: changes of session and of mode
    MaxReads        \* bound: reads taken

Text == Own \cup Remote

ASSUME CaptureAssumption ==
    /\ None \notin Text /\ Own \cap Remote = {}
    /\ Risky \subseteq Remote /\ Junk \subseteq Remote \ Risky
    /\ MaxArrivals \in Nat /\ MaxCopies \in Nat /\ MaxRefusals \in Nat /\ MaxMoves \in Nat
    /\ MaxReads \in Nat

VARIABLES
    clip,           \* what the system's clipboard holds
    writes,         \* writes under way, in the order they were made
    reading,        \* os.read(): None, or what it will answer and whether deliberate
    native,         \* a native host watches the clipboard and writes unfocused
    binds,          \* the sync mode ties the clipboard in
    focused,
    lastSent, suppressed, recent,
    pending,        \* the clip that waits: [text, risk, seq], or None
    grace,          \* the timer that releases it is set
    arrivalSeq, writtenSeq,
    refused,        \* clips put back because the system refused to write them
    received,       \* receivedSeq: clips taken from the wire
    shown,          \* the newest of them put into the editor, or offered there
    \* History and bounds.
    landedSeq,      \* the write applied last
    confirmed,      \* flagged clips the user agreed to
    ours,           \* the pending clip is of the session we are in
    broadcast,      \* texts captured, and so sent
    copied,         \* texts the user has copied or typed
    spent

seqs    == <<arrivalSeq, writtenSeq, refused>>
editor  == <<received, shown>>
windows == <<suppressed, recent>>
slot    == <<pending, grace, ours>>
history == <<broadcast, copied>>
vars == <<clip, writes, reading, native, binds, focused, lastSent, windows, slot, seqs, editor,
          landedSeq, confirmed, history, spent>>

Max == [arrivals |-> MaxArrivals, copies |-> MaxCopies, refusals |-> MaxRefusals,
        moves |-> MaxMoves, reads |-> MaxReads]
Spend(what) == spent[what] < Max[what] /\ spent' = [spent EXCEPT ![what] = @ + 1]

CanWriteNow == native \/ focused

\* What guard.js makes of an arriving text.
\* Fault: what is left of a text that was all control characters is written.
DefusedNot(text) == text
Defused(text) == IF text \in Junk THEN None ELSE text
LooksExecutable(text) == text \in Risky

(***************************************************************************)
(* Capturing.                                                              *)
(***************************************************************************)

\* fromClipboard() and capture(): a text that differs from the last one sent or
\* written, outside the suppression window, is sent.
FromClipboard(text, deliberate) ==
    /\ recent' = (recent \/ deliberate \/ text # lastSent)
    /\ IF text \in {None, lastSent} \/ suppressed
       THEN UNCHANGED <<lastSent, broadcast>>
       ELSE lastSent' = text /\ broadcast' = broadcast \cup {text}

\* The user copies something; a native host says so at once.
UserCopies == \E text \in Own :
    /\ Spend("copies")
    /\ clip' = text /\ copied' = copied \cup {text}
    /\ IF native /\ binds /\ ~suppressed THEN FromClipboard(text, TRUE)
       ELSE UNCHANGED <<recent, lastSent, broadcast>>
    /\ UNCHANGED <<writes, reading, native, binds, focused, suppressed, slot, seqs, editor,
                   landedSeq, confirmed>>

Paste ==
    /\ clip # None /\ focused
    /\ FromClipboard(clip, TRUE)
    /\ UNCHANGED <<clip, writes, reading, native, binds, focused, suppressed, slot, seqs, editor,
                   landedSeq, confirmed, copied, spent>>

ReadTaken ==
    /\ reading # None /\ ~reading.taken
    /\ reading' = [reading EXCEPT !.taken = TRUE, !.text = clip]
    /\ UNCHANGED <<clip, writes, native, binds, focused, lastSent, windows, slot, seqs, editor,
                   landedSeq, confirmed, history, spent>>

\* The mode is looked at again: it may have changed while we read.
ReadDone ==
    /\ reading # None /\ reading.taken
    /\ IF binds /\ reading.text # None THEN FromClipboard(reading.text, reading.deliberate)
       ELSE UNCHANGED <<recent, lastSent, broadcast>>
    /\ reading' = None
    /\ UNCHANGED <<clip, writes, native, binds, focused, suppressed, slot, seqs, editor, landedSeq,
                   confirmed, copied, spent>>

(***************************************************************************)
(* Writing.                                                                *)
(***************************************************************************)

\* writeNow(): the claim on lastSent and the window come before the write.  `of'
\* is the pending clip being written, or None; `n' the arrival it is part of.
WriteNow(text, seq, of, n) ==
    /\ lastSent' = text /\ suppressed' = TRUE
    /\ writes' = Append(writes, [text |-> text, seq |-> seq, prev |-> lastSent, of |-> of,
                                 arrival |-> n, session |-> TRUE, landed |-> FALSE])

Hold(text, risk, seq) == pending' = [text |-> text, risk |-> risk, seq |-> seq] /\ ours' = TRUE

\* TEXT_RECEIVED: apply(), then the editor, once the clipboard has been dealt
\* with and only for the newest arrival.
Receive == \E text \in Remote :
    /\ Spend("arrivals")
    /\ received' = received + 1
    /\ LET seq  == arrivalSeq + 1
           kept == Defused(text)
           risk == LooksExecutable(kept)
           waits == risk \/ ~CanWriteNow \/ recent
       IN  IF ~binds
           THEN /\ shown' = received'
                /\ UNCHANGED <<arrivalSeq, pending, grace, ours, writes, lastSent, suppressed>>
           ELSE /\ arrivalSeq' = seq
                /\ \/ /\ kept = None
                      /\ shown' = received'
                      /\ UNCHANGED <<pending, grace, ours, writes, lastSent, suppressed>>
                   \/ /\ kept # None /\ waits
                      /\ Hold(kept, risk, seq)
                      /\ grace' = (grace \/ (~risk /\ CanWriteNow))
                      /\ shown' = received'
                      /\ UNCHANGED <<writes, lastSent, suppressed>>
                   \/ /\ kept # None /\ ~waits
                      /\ WriteNow(kept, seq, None, received')
                      /\ UNCHANGED <<pending, grace, ours, shown>>
    /\ UNCHANGED <<clip, reading, native, binds, focused, recent, writtenSeq, refused, landedSeq,
                   confirmed, history>>

\* putOnClipboard(): the user's own text, which no grace window holds back.
PutOnClipboard == \E text \in Own :
    /\ Spend("arrivals") /\ binds
    /\ copied' = copied \cup {text}
    /\ arrivalSeq' = arrivalSeq + 1
    /\ \/ /\ ~CanWriteNow /\ Hold(text, FALSE, arrivalSeq')
          /\ UNCHANGED <<writes, lastSent, windows>>
       \/ /\ CanWriteNow /\ recent' = TRUE
          /\ WriteNow(text, arrivalSeq', None, 0)
          /\ UNCHANGED <<pending, ours>>
    /\ UNCHANGED <<clip, reading, native, binds, focused, grace, writtenSeq, refused, editor,
                   landedSeq, confirmed, broadcast>>

Discard == pending' = None /\ grace' = (grace /\ pending = None) /\ ours' = FALSE

\* writePending(): let go of, unless something newer has been written already.
WritePending ==
    \/ /\ ~binds
       /\ Discard /\ UNCHANGED <<writes, lastSent, suppressed>>
    \/ /\ binds
       /\ pending' = None /\ grace' = FALSE /\ ours' = FALSE
       /\ IF pending.seq <= writtenSeq THEN UNCHANGED <<writes, lastSent, suppressed>>
          ELSE WriteNow(pending.text, pending.seq, pending, 0)

Flushable == pending # None /\ ~pending.risk

\* Fault: regaining focus is taken for consent.
FocusUnread ==
    /\ ~focused /\ focused' = TRUE
    /\ IF pending # None THEN WritePending ELSE UNCHANGED <<slot, writes, lastSent, suppressed>>
    /\ UNCHANGED <<clip, reading, native, binds, recent, seqs, editor, landedSeq, confirmed,
                   history, spent>>
Focus ==
    /\ ~focused /\ focused' = TRUE
    /\ IF Flushable THEN WritePending ELSE UNCHANGED <<slot, writes, lastSent, suppressed>>
    /\ UNCHANGED <<clip, reading, native, binds, recent, seqs, editor, landedSeq, confirmed,
                   history, spent>>

Blur ==
    /\ focused /\ focused' = FALSE
    /\ UNCHANGED <<clip, writes, reading, native, binds, lastSent, windows, slot, seqs, editor,
                   landedSeq, confirmed, history, spent>>

\* tryRead(): a clip that waits only for the grace window goes first.
Releases == Flushable /\ ~recent

TryRead == \E deliberate \in BOOLEAN :
    /\ binds /\ ~suppressed /\ focused /\ reading = None
    /\ \/ /\ Releases /\ WritePending
          /\ UNCHANGED <<reading, spent>>
       \/ /\ ~Releases /\ Spend("reads")
          /\ reading' = [deliberate |-> deliberate, taken |-> FALSE, text |-> None]
          /\ UNCHANGED <<slot, writes, lastSent, suppressed>>
    /\ UNCHANGED <<clip, native, binds, focused, recent, seqs, editor, landedSeq, confirmed,
                   history>>

\* The grace timer.
\* Fault: a fresher copy that moved the window leaves it without a timer.
GraceFiresOnce ==
    /\ grace
    /\ IF Flushable /\ ~recent /\ CanWriteNow THEN WritePending
       ELSE grace' = FALSE /\ UNCHANGED <<pending, ours, writes, lastSent, suppressed>>
    /\ UNCHANGED <<clip, reading, native, binds, focused, recent, seqs, editor, landedSeq,
                   confirmed, history, spent>>
\* It sets itself again while the window has not ended.
GraceFires ==
    /\ grace /\ ~(Flushable /\ recent)
    /\ IF Flushable /\ CanWriteNow THEN WritePending
       ELSE grace' = FALSE /\ UNCHANGED <<pending, ours, writes, lastSent, suppressed>>
    /\ UNCHANGED <<clip, reading, native, binds, focused, recent, seqs, editor, landedSeq,
                   confirmed, history, spent>>

ConfirmPending ==
    /\ pending # None /\ focused
    /\ confirmed' = IF pending.risk THEN confirmed \cup {pending.seq} ELSE confirmed
    /\ WritePending
    /\ UNCHANGED <<clip, reading, native, binds, focused, recent, seqs, editor, landedSeq, history,
                   spent>>

DiscardPending ==
    /\ pending # None /\ Discard
    /\ UNCHANGED <<clip, writes, reading, native, binds, focused, lastSent, windows, seqs, editor,
                   landedSeq, confirmed, history, spent>>

(***************************************************************************)
(* The system answers.                                                     *)
(***************************************************************************)
First == Head(writes)

Land ==
    /\ writes # <<>> /\ ~First.landed
    /\ clip' = First.text /\ landedSeq' = First.seq
    /\ writes' = [writes EXCEPT ![1].landed = TRUE]
    /\ UNCHANGED <<reading, native, binds, focused, lastSent, windows, slot, seqs, editor,
                   confirmed, history, spent>>

\* Fault: whichever write answers last decides what the editor shows.
ShowsAny == First.arrival # 0 /\ First.session
Shows == First.arrival = received /\ First.arrival # 0 /\ First.session

Answered == writes' = Tail(writes) /\ shown' = IF Shows THEN First.arrival ELSE shown

WriteOk ==
    /\ writes # <<>> /\ First.landed
    /\ Answered
    /\ writtenSeq' = IF First.seq > writtenSeq THEN First.seq ELSE writtenSeq
    /\ IF First.seq > writtenSeq /\ pending # None /\ pending.seq < First.seq
       THEN Discard ELSE UNCHANGED slot
    /\ UNCHANGED <<clip, reading, native, binds, focused, lastSent, windows, arrivalSeq, refused,
                   received, landedSeq, confirmed, history, spent>>

\* Fault: the session the write was made for is not asked about.
OwedAnyway == First.of # None /\ pending = None /\ First.seq > writtenSeq
Owed == First.of # None /\ First.session /\ pending = None /\ First.seq > writtenSeq

\* A refused write takes its claim back, if it is still its own, and a pending
\* clip waits again.
WriteRefused ==
    /\ writes # <<>> /\ ~First.landed
    /\ Spend("refusals")
    /\ Answered
    /\ lastSent' = IF lastSent = First.text THEN First.prev ELSE lastSent
    /\ pending' = IF Owed THEN First.of ELSE pending
    /\ ours' = IF Owed THEN First.session ELSE ours
    /\ refused' = IF Owed THEN refused \cup {First.of.seq} ELSE refused
    /\ UNCHANGED <<clip, reading, native, binds, focused, windows, grace, arrivalSeq, writtenSeq,
                   received, landedSeq, confirmed, history>>

\* forgetSession(): the room was left.
ForgetSession ==
    /\ Spend("moves")
    /\ writes' = [i \in DOMAIN writes |-> [writes[i] EXCEPT !.session = FALSE]]
    /\ Discard
    /\ shown' = received
    /\ UNCHANGED <<clip, reading, native, binds, focused, lastSent, windows, seqs, received,
                   landedSeq, confirmed, history>>

\* applyMode(): leaving the mode that binds drops what waits.
ApplyMode ==
    /\ Spend("moves")
    /\ binds' = ~binds
    /\ IF binds THEN Discard ELSE UNCHANGED slot
    /\ UNCHANGED <<clip, writes, reading, native, focused, lastSent, windows, seqs, editor,
                   landedSeq, confirmed, history>>

SuppressionEnds ==
    /\ suppressed /\ suppressed' = FALSE
    /\ UNCHANGED <<clip, writes, reading, native, binds, focused, lastSent, recent, slot, seqs,
                   editor, landedSeq, confirmed, history, spent>>
GraceEnds ==
    /\ recent /\ recent' = FALSE
    /\ UNCHANGED <<clip, writes, reading, native, binds, focused, lastSent, suppressed, slot, seqs,
                   editor, landedSeq, confirmed, history, spent>>
-----------------------------------------------------------------------------
Init ==
    /\ clip = None /\ writes = <<>> /\ reading = None
    /\ native \in BOOLEAN /\ binds = TRUE /\ focused \in BOOLEAN
    /\ lastSent = None /\ suppressed = FALSE /\ recent = FALSE
    /\ pending = None /\ grace = FALSE /\ ours = FALSE
    /\ arrivalSeq = 0 /\ writtenSeq = 0 /\ received = 0 /\ shown = 0
    /\ landedSeq = 0 /\ refused = {} /\ confirmed = {} /\ broadcast = {} /\ copied = {}
    /\ spent = [arrivals |-> 0, copies |-> 0, refusals |-> 0, moves |-> 0, reads |-> 0]

System == Land \/ WriteOk \/ ReadTaken \/ ReadDone
Clock  == SuppressionEnds \/ GraceEnds
User   == UserCopies \/ Paste \/ PutOnClipboard \/ Focus \/ Blur \/ ConfirmPending
          \/ DiscardPending \/ ForgetSession \/ ApplyMode
Next   == User \/ Receive \/ TryRead \/ GraceFires \/ System \/ WriteRefused \/ Clock

Spec == Init /\ [][Next]_vars

\* The system answers, the grace window ends and the timer behind it fires.  Of
\* what the user does nothing is assumed, nor that anything polls: only T3 does,
\* if its permission, the setting and the host let it (capture.js:117-152).
FairSpec == Spec /\ WF_vars(System) /\ WF_vars(GraceEnds) /\ WF_vars(GraceFires)
-----------------------------------------------------------------------------
Clips == [text : Text, risk : BOOLEAN, seq : Nat]

\* Types: what the capture module, the clipboard and the observers hold.
TypeOK ==
    /\ clip \in (Text \ Junk) \cup {None} /\ lastSent \in Text \cup {None}
    /\ native \in BOOLEAN /\ binds \in BOOLEAN /\ focused \in BOOLEAN
    /\ suppressed \in BOOLEAN /\ recent \in BOOLEAN
    /\ pending \in Clips \cup {None} /\ grace \in BOOLEAN /\ ours \in BOOLEAN
    /\ reading \in [deliberate : BOOLEAN, taken : BOOLEAN, text : Text \cup {None}] \cup {None}
    /\ \A i \in DOMAIN writes :
        writes[i] \in [text : Text, seq : Nat, prev : Text \cup {None}, of : Clips \cup {None},
                       arrival : Nat, session : BOOLEAN, landed : BOOLEAN]
    /\ arrivalSeq \in Nat /\ writtenSeq \in 0..arrivalSeq /\ landedSeq \in 0..arrivalSeq
    /\ received \in Nat /\ shown \in 0..received
    /\ confirmed \subseteq 1..arrivalSeq /\ refused \subseteq Nat /\ broadcast \subseteq Text /\ copied \subseteq Own

\* A clip the guard flagged is on the clipboard only if the user agreed to that
\* very clip: neither focus, nor a timer, nor a retry is consent
\* (capture.js:422-431).
RiskNeedsConsent == clip \in Risky => landedSeq \in confirmed

\* What waits to be written is of the session we are in: nothing that was
\* discarded by leaving puts itself back (capture.js:414-420, 468-476).
PendingIsOurs == pending # None => ours

\* capture.js:404-431: nothing gets onto the clipboard, or waits to, without the consent
\* and the session it needs.
OnlyWhatMayLand == TypeOK /\ RiskNeedsConsent /\ PendingIsOurs

\* Once the clipboard has answered for it, the newest arrival is what the editor
\* has, though older ones may be answered later (main.js:674-685).
EditorHasNewest ==
    (\A i \in DOMAIN writes : writes[i].arrival # received) => shown = received

Holding(n) == Flushable /\ pending.seq = n
Waits == Flushable /\ CanWriteNow /\ binds /\ pending.seq \notin refused

KeepsCopying == []<>recent
KeepsComing  == []<>focused /\ []<>~focused

\* What becomes of an unflagged clip that waits (capture.js:314-341, 427-478).  It
\* never waits for good where it could be written, unless the user keeps copying:
\* the grace timer lets it go, however often a fresher copy moved the window.  A
\* clip put back by a refused write has no timer: that one, and one that waits
\* unfocused, are done with in the end if the user keeps coming back.
PendingGoesOut ==
    /\ KeepsCopying \/ (Waits ~> ~Waits)
    /\ KeepsComing => \A n \in 1..MaxArrivals : <>[]~Holding(n)

\* "Nothing older than `writtenSeq` may be written after it" (capture.js:404-407).
NeverRollsBack == [][landedSeq' >= landedSeq]_vars
=============================================================================
