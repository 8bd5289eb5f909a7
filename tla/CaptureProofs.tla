--------------------------- MODULE CaptureProofs ----------------------------
(***************************************************************************)
(* What module Capture promises of the system's clipboard and the editor,  *)
(* proved for every set of texts and every bound.                          *)
(*                                                                         *)
(* Neither promise is inductive.  What keeps them is what is said of the   *)
(* writes under way and of the clip that waits: a flagged text is among    *)
(* the writes only once agreed to, and waits only under its flag; and a    *)
(* write made for a session since left has nothing to show.                *)
(***************************************************************************)
EXTENDS Capture, SequenceTheorems, TLAPS

\* The assumption, as the provers take it.
LEMMA TextsAre ==
    /\ None \notin Text /\ Junk \subseteq Text /\ Risky \subseteq Text
    /\ Own \subseteq Text /\ Remote \subseteq Text
    /\ \A text \in Own : text \notin Junk /\ text \notin Risky
BY CaptureAssumption DEF CaptureAssumption, Text

\* A write as it was made.
Writes == [text : Text, seq : Nat, prev : Text \cup {None}, of : Clips \cup {None},
           arrival : Nat, session : BOOLEAN, landed : BOOLEAN]

\* A clip that may wait: sanitised, flagged if it reads like a command, and an arrival.
Sound(c) ==
    /\ c.text \notin Junk /\ (c.text \in Risky => c.risk)
    /\ c.seq \in 1..arrivalSeq

\* A write that may land, and what is left to show of it.
Fit(w) ==
    /\ w.text \notin Junk /\ (w.text \in Risky => w.seq \in confirmed)
    /\ w.seq \in 1..arrivalSeq
    /\ w.of # None => Sound(w.of)
    /\ w.arrival <= received
    /\ w.arrival = received /\ ~w.session => shown = received

WritesFit ==
    /\ writes \in Seq(Writes)
    /\ \A i \in DOMAIN writes : writes[i] \in Writes /\ Fit(writes[i])
PendingSound == pending # None => Sound(pending)

\* The inductive invariant.
CaptureInv == OnlyWhatMayLand /\ EditorHasNewest /\ WritesFit /\ PendingSound

\* The types of everything but the writes under way.
PlainTypes ==
    /\ clip \in (Text \ Junk) \cup {None} /\ lastSent \in Text \cup {None}
    /\ native \in BOOLEAN /\ binds \in BOOLEAN /\ focused \in BOOLEAN
    /\ suppressed \in BOOLEAN /\ recent \in BOOLEAN
    /\ pending \in Clips \cup {None} /\ grace \in BOOLEAN /\ ours \in BOOLEAN
    /\ reading \in [deliberate : BOOLEAN, taken : BOOLEAN, text : Text \cup {None}] \cup {None}
    /\ arrivalSeq \in Nat /\ writtenSeq \in 0..arrivalSeq /\ landedSeq \in 0..arrivalSeq
    /\ received \in Nat /\ shown \in 0..received
    /\ confirmed \subseteq 1..arrivalSeq /\ refused \subseteq Nat /\ broadcast \subseteq Text
    /\ copied \subseteq Own

\* The inductive invariant, taken apart.
LEMMA InvParts ==
    ASSUME CaptureInv
    PROVE  /\ PlainTypes /\ WritesFit /\ EditorHasNewest
           /\ RiskNeedsConsent /\ PendingIsOurs /\ PendingSound
BY DEF CaptureInv, OnlyWhatMayLand, TypeOK, PlainTypes

\* And put together again after a step.
LEMMA InvAgain ==
    ASSUME PlainTypes', WritesFit', EditorHasNewest',
           RiskNeedsConsent', PendingIsOurs', PendingSound'
    PROVE  CaptureInv'
<1>1. \A i \in DOMAIN writes' : writes'[i] \in Writes
    BY DEF WritesFit
<1>2. TypeOK'
    BY <1>1 DEF TypeOK, PlainTypes, Writes
<1> QED
    BY <1>2 DEF CaptureInv, OnlyWhatMayLand

-----------------------------------------------------------------------------
(* What the writes under way may become *)

\* Nothing about a write changes when neither the counters nor the consents do.
LEMMA WritesStay ==
    ASSUME CaptureInv, UNCHANGED <<writes, arrivalSeq, received, shown>>,
           confirmed \subseteq confirmed'
    PROVE  WritesFit' /\ EditorHasNewest'
<1>1. \A i \in DOMAIN writes : Fit(writes[i])'
    BY DEF CaptureInv, WritesFit, Fit, Sound
<1> QED
    BY <1>1 DEF CaptureInv, WritesFit, EditorHasNewest

\* A write that is fit to be made joins the others.
LEMMA WriteMade ==
    ASSUME CaptureInv, NEW text \in Text, NEW seq \in Nat, NEW of \in Clips \cup {None}, NEW n \in Nat,
           WriteNow(text, seq, of, n),
           text \notin Junk, text \in Risky => seq \in confirmed',
           arrivalSeq' \in Nat, arrivalSeq <= arrivalSeq', seq \in 1..arrivalSeq',
           of # None => Sound(of), confirmed \subseteq confirmed',
           \/ received' = received /\ shown' = shown /\ n = 0
           \/ received' = received + 1 /\ n = received'
    PROVE  WritesFit' /\ EditorHasNewest' /\ lastSent' \in Text /\ suppressed' = TRUE
<1> DEFINE w == [text |-> text, seq |-> seq, prev |-> lastSent, of |-> of,
                 arrival |-> n, session |-> TRUE, landed |-> FALSE]
<1>1. w \in Writes /\ writes' = Append(writes, w) /\ writes \in Seq(Writes)
    BY DEF CaptureInv, OnlyWhatMayLand, TypeOK, WritesFit, WriteNow, Writes
<1>2. received \in Nat /\ arrivalSeq \in Nat /\ shown \in 0..received
    BY DEF CaptureInv, OnlyWhatMayLand, TypeOK
<1>3. \A i \in DOMAIN writes : writes[i] \in Writes /\ Fit(writes[i])
    BY <1>1, ElementOfSeq, LenProperties DEF CaptureInv, WritesFit
<1>4. ASSUME NEW i \in DOMAIN writes
      PROVE  /\ writes[i].text \notin Junk
             /\ writes[i].text \in Risky => writes[i].seq \in confirmed'
             /\ writes[i].seq \in 1..arrivalSeq'
             /\ writes[i].of # None => Sound(writes[i].of)
             /\ writes[i].arrival <= received'
             /\ writes[i].arrival = received' /\ ~writes[i].session => shown' = received'
    <2>1. Fit(writes[i]) /\ writes[i].arrival \in Nat /\ writes[i].seq \in Nat
        BY <1>3 DEF Writes
    <2>2. CASE received' = received + 1
        BY <2>1, <2>2, <1>2 DEF Fit
    <2>3. CASE received' = received /\ shown' = shown
        BY <2>1, <2>3, <1>2 DEF Fit
    <2> QED
        BY <2>2, <2>3
<1>5. /\ writes' \in Seq(Writes) /\ Len(writes) \in Nat
      /\ DOMAIN writes = 1..Len(writes) /\ DOMAIN writes' = 1..(Len(writes) + 1)
      /\ \A i \in DOMAIN writes : writes'[i] = writes[i]
      /\ writes'[Len(writes) + 1] = w
    BY <1>1, AppendProperties, LenProperties
<1>6. /\ w.text = text /\ w.seq = seq /\ w.of = of /\ w.arrival = n /\ w.session = TRUE
    OBVIOUS
<1> HIDE DEF w
<1>7. \A c : Sound(c) => Sound(c)'
    BY <1>2 DEF Sound
<1>8. \A i \in DOMAIN writes' : i \in DOMAIN writes \/ i = Len(writes) + 1
    BY <1>5
<1>9. \A i \in DOMAIN writes' : Fit(writes[i])'
    <2>1. ASSUME NEW i \in DOMAIN writes PROVE Fit(writes[i])'
        <3>1. writes'[i] = writes[i]
            BY <1>5
        <3> QED
            BY <1>4, <1>7, <3>1 DEF Fit
    <2>2. ASSUME NEW i \in DOMAIN writes', i = Len(writes) + 1 PROVE Fit(writes[i])'
        <3>1. writes'[i] = w /\ n <= received'
            BY <1>2, <1>5, <2>2
        <3> QED
            BY <3>1, <1>6, <1>7 DEF Fit
    <2> QED
        BY <2>1, <2>2, <1>8
<1>10. EditorHasNewest'
    <2>1. CASE received' = received + 1
        BY <2>1, <1>5, <1>6, <1>2 DEF EditorHasNewest
    <2>2. CASE received' = received /\ shown' = shown
        <3>1. (\A i \in DOMAIN writes' : writes'[i].arrival # received') =>
                 \A i \in DOMAIN writes : writes[i].arrival # received
            BY <2>2, <1>5
        <3> QED
            BY <2>2, <3>1 DEF EditorHasNewest, CaptureInv
    <2> QED
        BY <2>1, <2>2
<1> QED
    <2>1. \A i \in DOMAIN writes' : writes'[i] \in Writes
        BY <1>1, <1>3, <1>5, <1>8
    <2> QED
        BY <2>1, <1>5, <1>9, <1>10 DEF WritesFit, WriteNow

\* The clip that waits is let go of, or written, once what it needs is there.
LEMMA PendingWritten ==
    ASSUME CaptureInv, pending # None, WritePending,
           UNCHANGED <<arrivalSeq, writtenSeq, received, shown>>,
           confirmed \subseteq confirmed', pending.risk => pending.seq \in confirmed'
    PROVE  /\ WritesFit' /\ EditorHasNewest'
           /\ lastSent' \in Text \cup {None} /\ suppressed' \in BOOLEAN
           /\ pending' = None /\ ours' = FALSE /\ grace' \in BOOLEAN
<1>1. /\ pending \in Clips /\ Sound(pending) /\ arrivalSeq \in Nat /\ grace \in BOOLEAN
      /\ lastSent \in Text \cup {None} /\ suppressed \in BOOLEAN
    BY DEF CaptureInv, OnlyWhatMayLand, TypeOK, PendingSound
<1>2. pending' = None /\ ours' = FALSE /\ grace' \in BOOLEAN
    BY <1>1 DEF WritePending, Discard
<1>3. CASE UNCHANGED <<writes, lastSent, suppressed>>
    BY <1>1, <1>2, <1>3, WritesStay
<1>4. CASE WriteNow(pending.text, pending.seq, pending, 0)
    <2>1. /\ pending.text \in Text /\ pending.seq \in Nat /\ pending.text \notin Junk
          /\ pending.text \in Risky => pending.seq \in confirmed'
          /\ pending.seq \in 1..arrivalSeq' /\ arrivalSeq <= arrivalSeq' /\ arrivalSeq' \in Nat
        BY <1>1 DEF Clips, Sound
    <2> QED
        BY <1>1, <1>2, <1>4, <2>1, WriteMade
<1> QED
    BY <1>3, <1>4 DEF WritePending, Discard

\* A capture broadcasts a text or none, and claims it.
LEMMA Captured ==
    ASSUME CaptureInv, NEW text \in Text \cup {None}, NEW deliberate \in BOOLEAN,
           FromClipboard(text, deliberate)
    PROVE  recent' \in BOOLEAN /\ lastSent' \in Text \cup {None} /\ broadcast' \subseteq Text
BY DEF FromClipboard, CaptureInv, OnlyWhatMayLand, TypeOK

-----------------------------------------------------------------------------
(* The promises *)

\* Before anything has happened there is nothing to be wrong.
LEMMA CaptureBegins == Init => CaptureInv
<1> SUFFICES ASSUME Init PROVE CaptureInv
    OBVIOUS
<1>1. <<>> \in Seq(Writes) /\ DOMAIN <<>> = {}
    BY EmptySeq
<1>2. None \notin Risky
    BY TextsAre
<1>3. WritesFit /\ EditorHasNewest
    <2>1. writes = <<>> /\ shown = received
        BY DEF Init
    <2> QED
        BY <1>1, <2>1 DEF WritesFit, EditorHasNewest
<1>4. TypeOK
    <2>1. DOMAIN writes = {} /\ writes = <<>>
        BY <1>1 DEF Init
    <2>2. \A i \in DOMAIN writes :
            writes[i] \in [text : Text, seq : Nat, prev : Text \cup {None}, of : Clips \cup {None},
                          arrival : Nat, session : BOOLEAN, landed : BOOLEAN]
        BY <2>1
    <2>3. /\ clip = None /\ reading = None /\ native \in BOOLEAN /\ binds = TRUE /\ focused \in BOOLEAN
          /\ lastSent = None /\ suppressed = FALSE /\ recent = FALSE
          /\ pending = None /\ grace = FALSE /\ ours = FALSE
          /\ arrivalSeq = 0 /\ writtenSeq = 0 /\ received = 0 /\ shown = 0
          /\ landedSeq = 0 /\ refused = {} /\ confirmed = {} /\ broadcast = {} /\ copied = {}
        BY DEF Init
    <2>4. /\ clip \in (Text \ Junk) \cup {None} /\ lastSent \in Text \cup {None}
          /\ pending \in Clips \cup {None} /\ grace \in BOOLEAN /\ ours \in BOOLEAN
          /\ reading \in [deliberate : BOOLEAN, taken : BOOLEAN, text : Text \cup {None}] \cup {None}
        BY <2>3
    <2>5. /\ arrivalSeq \in Nat /\ writtenSeq \in 0..arrivalSeq /\ landedSeq \in 0..arrivalSeq
          /\ received \in Nat /\ shown \in 0..received
          /\ confirmed \subseteq 1..arrivalSeq /\ refused \subseteq Nat /\ broadcast \subseteq Text
          /\ copied \subseteq Own
        BY <2>3
    <2> QED
        BY <2>2, <2>3, <2>4, <2>5 DEF TypeOK
<1> QED
    BY <1>2, <1>3, <1>4 DEF Init, CaptureInv, OnlyWhatMayLand, RiskNeedsConsent, PendingIsOurs, PendingSound

\* A step of the user's that makes no write: copying, pasting, blurring, discarding.
LEMMA UserSteps ==
    ASSUME CaptureInv, UserCopies \/ Paste \/ Blur \/ DiscardPending \/ ApplyMode
    PROVE  CaptureInv'
<1>1. WritesFit' /\ EditorHasNewest'
    BY WritesStay DEF UserCopies, Paste, Blur, DiscardPending, ApplyMode, seqs, editor
<1>2. PlainTypes /\ RiskNeedsConsent /\ PendingIsOurs /\ PendingSound
    BY InvParts
<1>3. CASE UserCopies
    <2> PICK text \in Own : /\ clip' = text /\ copied' = copied \cup {text}
                           /\ \/ FromClipboard(text, TRUE)
                              \/ UNCHANGED <<recent, lastSent, broadcast>>
                           /\ UNCHANGED <<writes, reading, native, binds, focused, suppressed, slot, seqs,
                                          editor, landedSeq, confirmed>>
        BY <1>3 DEF UserCopies
    <2>1. text \in Text /\ text \notin Risky /\ text \notin Junk
        BY TextsAre
    <2>2. recent' \in BOOLEAN /\ lastSent' \in Text \cup {None} /\ broadcast' \subseteq Text
        BY <1>2, <2>1, Captured DEF PlainTypes
    <2>3. PlainTypes'
        BY <1>2, <2>1, <2>2 DEF PlainTypes, slot, seqs, editor
    <2>4. RiskNeedsConsent' /\ PendingIsOurs' /\ PendingSound'
        BY <1>2, <2>1 DEF RiskNeedsConsent, PendingIsOurs, PendingSound, Sound, slot, seqs
    <2> QED
        BY <1>1, <2>3, <2>4, InvAgain
<1>4. CASE Paste
    <2>1. recent' \in BOOLEAN /\ lastSent' \in Text \cup {None} /\ broadcast' \subseteq Text
        <3>1. clip \in Text \cup {None}
            BY <1>2 DEF PlainTypes
        <3>2. FromClipboard(clip, TRUE)
            BY <1>4 DEF Paste
        <3> QED
            BY <3>1, <3>2, Captured
    <2>2. /\ UNCHANGED <<clip, reading, native, binds, focused, suppressed, pending, grace, ours, arrivalSeq,
                         writtenSeq, refused, received, shown, landedSeq, confirmed>>
          /\ copied' \subseteq Own
        BY <1>2, <1>4 DEF Paste, slot, seqs, editor, PlainTypes
    <2>3. PlainTypes'
        BY <1>2, <2>1, <2>2 DEF PlainTypes
    <2>4. RiskNeedsConsent' /\ PendingIsOurs' /\ PendingSound'
        BY <1>2, <2>2 DEF RiskNeedsConsent, PendingIsOurs, PendingSound, Sound
    <2> QED
        BY <1>1, <2>3, <2>4, InvAgain
<1>5. CASE Blur \/ DiscardPending \/ ApplyMode
    <2>1. /\ binds' \in BOOLEAN /\ focused' \in BOOLEAN
          /\ \/ pending' = None /\ grace' = (grace /\ pending = None) /\ ours' = FALSE
             \/ UNCHANGED <<pending, grace, ours>>
          /\ UNCHANGED <<clip, reading, native, lastSent, suppressed, recent,
                         arrivalSeq, writtenSeq, refused, received, shown, landedSeq, confirmed,
                         broadcast, copied>>
        <3>1. binds \in BOOLEAN /\ focused \in BOOLEAN
            BY <1>2 DEF PlainTypes
        <3>2. CASE Blur
            BY <3>1, <3>2 DEF Blur, slot, seqs, editor, windows, history
        <3>3. CASE DiscardPending
            BY <3>1, <3>3 DEF DiscardPending, Discard, seqs, editor, windows, history
        <3>4. CASE ApplyMode
            BY <3>1, <3>4 DEF ApplyMode, Discard, slot, seqs, editor, windows, history
        <3> QED
            BY <1>5, <3>2, <3>3, <3>4
    <2>2. PlainTypes'
        <3>1. pending' \in Clips \cup {None} /\ grace' \in BOOLEAN /\ ours' \in BOOLEAN
            BY <1>2, <2>1 DEF PlainTypes
        <3> QED
            BY <1>2, <2>1, <3>1 DEF PlainTypes
    <2>3. RiskNeedsConsent' /\ PendingIsOurs' /\ PendingSound'
        BY <1>2, <2>1 DEF RiskNeedsConsent, PendingIsOurs, PendingSound, Sound
    <2> QED
        BY <1>1, <2>2, <2>3, InvAgain
<1> QED
    BY <1>3, <1>4, <1>5

\* Reading, and the ends of the two windows, touch neither what waits nor what is written.
LEMMA QuietSteps ==
    ASSUME CaptureInv, ReadTaken \/ ReadDone \/ Clock \/ UNCHANGED vars
    PROVE  CaptureInv'
<1>1. UNCHANGED <<clip, writes, native, binds, focused, pending, grace, ours, arrivalSeq, writtenSeq,
                  refused, received, shown, landedSeq, confirmed, copied>>
    BY DEF ReadTaken, ReadDone, Clock, SuppressionEnds, GraceEnds, vars, slot, seqs, editor, windows, history
<1>2. WritesFit' /\ EditorHasNewest'
    BY <1>1, WritesStay
<1>3. /\ reading' \in [deliberate : BOOLEAN, taken : BOOLEAN, text : Text \cup {None}] \cup {None}
      /\ lastSent' \in Text \cup {None} /\ suppressed' \in BOOLEAN /\ recent' \in BOOLEAN
      /\ broadcast' \subseteq Text
    <2>1. CASE ReadTaken
        BY <2>1 DEF ReadTaken, windows, history, CaptureInv, OnlyWhatMayLand, TypeOK
    <2>2. CASE ReadDone
        <3>1. reading.text \in Text \cup {None} /\ reading.deliberate \in BOOLEAN /\ reading' = None
            BY <2>2 DEF ReadDone, CaptureInv, OnlyWhatMayLand, TypeOK
        <3> QED
            BY <2>2, <3>1, Captured DEF ReadDone, CaptureInv, OnlyWhatMayLand, TypeOK
    <2>3. CASE Clock
        BY <2>3 DEF Clock, SuppressionEnds, GraceEnds, history, CaptureInv, OnlyWhatMayLand, TypeOK
    <2>4. CASE UNCHANGED vars
        BY <2>4 DEF vars, windows, history, CaptureInv, OnlyWhatMayLand, TypeOK
    <2> QED
        BY <2>1, <2>2, <2>3, <2>4
<1>4. TypeOK'
    BY <1>1, <1>2, <1>3 DEF CaptureInv, OnlyWhatMayLand, TypeOK, WritesFit, Writes
<1>5. RiskNeedsConsent' /\ PendingIsOurs' /\ PendingSound'
    BY <1>1 DEF CaptureInv, OnlyWhatMayLand, RiskNeedsConsent, PendingIsOurs, PendingSound, Sound
<1> QED
    BY <1>2, <1>4, <1>5 DEF CaptureInv, OnlyWhatMayLand

\* Whatever lets the waiting clip go - focus, a poll, the grace timer, the user's consent -
\* has what that clip needs.
LEMMA ReleaseSteps ==
    ASSUME CaptureInv, Focus \/ TryRead \/ GraceFires \/ ConfirmPending
    PROVE  CaptureInv'
<1>1. /\ UNCHANGED <<clip, native, binds, recent, arrivalSeq, writtenSeq, refused, received, shown,
                     landedSeq, broadcast, copied>>
      /\ focused' \in BOOLEAN
      /\ confirmed \subseteq confirmed' /\ confirmed' \subseteq 1..arrivalSeq
    <2>1. CASE ConfirmPending
        <3>1. pending # None /\ pending.seq \in 1..arrivalSeq /\ confirmed \subseteq 1..arrivalSeq
            BY <2>1 DEF ConfirmPending, CaptureInv, OnlyWhatMayLand, TypeOK, PendingSound, Sound
        <3>2. confirmed \subseteq confirmed' /\ confirmed' \subseteq 1..arrivalSeq
            BY <2>1, <3>1 DEF ConfirmPending
        <3> QED
            BY <2>1, <3>2 DEF ConfirmPending, seqs, editor, history, CaptureInv, OnlyWhatMayLand, TypeOK
    <2> QED
        <3>1. CASE Focus
            BY <3>1 DEF Focus, seqs, editor, history, CaptureInv, OnlyWhatMayLand, TypeOK
        <3>2. CASE TryRead
            BY <3>2 DEF TryRead, seqs, editor, history, CaptureInv, OnlyWhatMayLand, TypeOK
        <3>3. CASE GraceFires
            BY <3>3 DEF GraceFires, seqs, editor, history, CaptureInv, OnlyWhatMayLand, TypeOK
        <3> QED
            BY <2>1, <3>1, <3>2, <3>3
<1>2. /\ reading' \in [deliberate : BOOLEAN, taken : BOOLEAN, text : Text \cup {None}] \cup {None}
    <2>1. \/ reading' = reading
          \/ \E deliberate \in BOOLEAN : reading' = [deliberate |-> deliberate, taken |-> FALSE, text |-> None]
        BY DEF Focus, TryRead, GraceFires, ConfirmPending
    <2>2. reading \in [deliberate : BOOLEAN, taken : BOOLEAN, text : Text \cup {None}] \cup {None}
        BY DEF CaptureInv, OnlyWhatMayLand, TypeOK
    <2>3. \A deliberate \in BOOLEAN : [deliberate |-> deliberate, taken |-> FALSE, text |-> None]
                                      \in [deliberate : BOOLEAN, taken : BOOLEAN, text : Text \cup {None}]
        OBVIOUS
    <2> QED
        BY <2>1, <2>2, <2>3
<1>3. \/ /\ pending # None /\ WritePending
         /\ pending.risk => pending.seq \in confirmed'
      \/ UNCHANGED <<pending, ours, writes, lastSent, suppressed>> /\ grace' \in BOOLEAN
    <2>1. CASE Focus
        BY <2>1 DEF Focus, Flushable, slot, CaptureInv, OnlyWhatMayLand, TypeOK
    <2>2. CASE TryRead
        BY <2>2 DEF TryRead, Releases, Flushable, slot, CaptureInv, OnlyWhatMayLand, TypeOK
    <2>3. CASE GraceFires
        BY <2>3 DEF GraceFires, Flushable
    <2>4. CASE ConfirmPending
        BY <2>4 DEF ConfirmPending
    <2> QED
        BY <2>1, <2>2, <2>3, <2>4
<1>5. /\ WritesFit' /\ EditorHasNewest'
      /\ lastSent' \in Text \cup {None} /\ suppressed' \in BOOLEAN /\ grace' \in BOOLEAN
      /\ \/ pending' = None /\ ours' = FALSE
         \/ UNCHANGED <<pending, ours>>
    <2>1. CASE /\ pending # None /\ WritePending
               /\ pending.risk => pending.seq \in confirmed'
        BY <1>1, <2>1, PendingWritten
    <2>2. CASE UNCHANGED <<pending, ours, writes, lastSent, suppressed>> /\ grace' \in BOOLEAN
        BY <1>1, <2>2, WritesStay DEF CaptureInv, OnlyWhatMayLand, TypeOK
    <2> QED
        BY <1>3, <2>1, <2>2
<1>6. TypeOK'
    BY <1>1, <1>2, <1>5 DEF CaptureInv, OnlyWhatMayLand, TypeOK, WritesFit, Writes
<1>7. RiskNeedsConsent'
    BY <1>1 DEF CaptureInv, OnlyWhatMayLand, RiskNeedsConsent
<1>8. PendingIsOurs' /\ PendingSound'
    BY <1>1, <1>5 DEF CaptureInv, OnlyWhatMayLand, PendingIsOurs, PendingSound, Sound
<1> QED
    BY <1>5, <1>6, <1>7, <1>8 DEF CaptureInv, OnlyWhatMayLand

\* TEXT_RECEIVED, and the user's own text put back.
LEMMA ArrivalSteps ==
    ASSUME CaptureInv, Receive \/ PutOnClipboard
    PROVE  CaptureInv'
<1> USE DEF seqs, editor, windows, history
<1>1. /\ arrivalSeq \in Nat /\ received \in Nat /\ shown \in 0..received /\ grace \in BOOLEAN
      /\ lastSent \in Text \cup {None} /\ suppressed \in BOOLEAN /\ recent \in BOOLEAN
      /\ native \in BOOLEAN /\ focused \in BOOLEAN
    BY DEF CaptureInv, OnlyWhatMayLand, TypeOK
<1>2. CASE Receive
    <2> PICK text \in Remote : Receive!(text)
        BY <1>2 DEF Receive
    <2> DEFINE seq == arrivalSeq + 1
               kept == Defused(text)
    <2>1. /\ received' = received + 1
          /\ UNCHANGED <<clip, reading, native, binds, focused, recent, writtenSeq, refused, landedSeq,
                         confirmed, broadcast, copied>>
        OBVIOUS
    <2>2. /\ kept \in Text \cup {None} /\ kept \notin Junk
          /\ LooksExecutable(kept) <=> kept \in Risky
        BY TextsAre DEF Defused, LooksExecutable
    <2>3. \/ /\ shown' = received' /\ arrivalSeq' \in {arrivalSeq, seq}
             /\ UNCHANGED <<pending, grace, ours, writes, lastSent, suppressed>>
          \/ /\ kept # None /\ arrivalSeq' = seq /\ shown' = received'
             /\ pending' = [text |-> kept, risk |-> LooksExecutable(kept), seq |-> seq] /\ ours' = TRUE
             /\ grace' \in BOOLEAN
             /\ UNCHANGED <<writes, lastSent, suppressed>>
          \/ /\ kept # None /\ kept \notin Risky /\ arrivalSeq' = seq
             /\ WriteNow(kept, seq, None, received') /\ UNCHANGED <<pending, grace, ours, shown>>
        BY <1>1, <2>2 DEF Hold, CanWriteNow
    <2> HIDE DEF kept
    <2>4. /\ WritesFit' /\ EditorHasNewest'
          /\ lastSent' \in Text \cup {None} /\ suppressed' \in BOOLEAN /\ grace' \in BOOLEAN
          /\ shown' \in 0..received' /\ arrivalSeq' \in Nat /\ arrivalSeq <= arrivalSeq'
        <3>1. CASE shown' = received' /\ arrivalSeq' \in {arrivalSeq, seq} /\ UNCHANGED <<writes, lastSent, suppressed>>
            <4>1. ASSUME NEW i \in DOMAIN writes PROVE Fit(writes[i])'
                <5>1. writes[i] \in Writes /\ Fit(writes[i])
                    BY DEF CaptureInv, WritesFit
                <5>2. writes'[i] = writes[i]
                    BY <3>1
                <5> QED
                    BY <1>1, <2>1, <3>1, <5>1, <5>2 DEF Fit, Sound, Writes
            <4>2. WritesFit'
                BY <3>1, <4>1 DEF CaptureInv, WritesFit
            <4>3. grace' \in BOOLEAN
                BY <1>1, <2>3
            <4> QED
                BY <1>1, <2>1, <3>1, <4>2, <4>3 DEF EditorHasNewest
        <3>2. CASE /\ kept # None /\ kept \notin Risky /\ arrivalSeq' = seq
                   /\ WriteNow(kept, seq, None, received') /\ UNCHANGED <<pending, grace, ours, shown>>
            <4>1. kept \in Text /\ seq \in 1..arrivalSeq' /\ arrivalSeq' \in Nat /\ arrivalSeq <= arrivalSeq'
                BY <1>1, <2>2, <3>2
            <4>2. received' \in Nat
                BY <1>1, <2>1
            <4>3. WritesFit' /\ EditorHasNewest' /\ lastSent' \in Text /\ suppressed' = TRUE
                BY <1>1, <2>1, <2>2, <3>2, <4>1, <4>2, WriteMade
            <4> QED
                BY <1>1, <2>1, <3>2, <4>1, <4>3
        <3> QED
            BY <2>3, <3>1, <3>2
    <2>5. /\ pending' # None => Sound(pending)' /\ ours'
          /\ pending' \in Clips \cup {None} /\ ours' \in BOOLEAN
        <3>1. CASE UNCHANGED <<pending, ours>>
            BY <1>1, <2>4, <3>1 DEF CaptureInv, OnlyWhatMayLand, TypeOK, PendingIsOurs, PendingSound, Sound
        <3>2. CASE /\ kept # None /\ arrivalSeq' = seq /\ ours' = TRUE
                   /\ pending' = [text |-> kept, risk |-> LooksExecutable(kept), seq |-> seq]
            <4>1. kept \in Text /\ seq \in Nat /\ seq \in 1..arrivalSeq'
                BY <1>1, <2>2, <3>2
            <4>2. pending' \in Clips /\ pending'.text = kept /\ pending'.seq = seq
                  /\ (pending'.risk <=> kept \in Risky)
                <5>1. LooksExecutable(kept) \in BOOLEAN
                    BY DEF LooksExecutable
                <5>2. pending' \in Clips /\ pending'.text = kept /\ pending'.seq = seq
                      /\ pending'.risk = LooksExecutable(kept)
                    BY <3>2, <4>1, <5>1 DEF Clips
                <5> QED
                    BY <2>2, <5>2
            <4>3. Sound(pending)'
                BY <2>2, <4>1, <4>2 DEF Sound
            <4>4. ours' /\ ours' \in BOOLEAN
                BY <3>2
            <4> QED
                BY <4>2, <4>3, <4>4
        <3> QED
            BY <2>3, <3>1, <3>2
    <2>6. TypeOK'
        BY <1>1, <2>1, <2>4, <2>5 DEF CaptureInv, OnlyWhatMayLand, TypeOK, WritesFit, Writes
    <2>7. RiskNeedsConsent' /\ PendingIsOurs' /\ PendingSound'
        BY <2>1, <2>5 DEF CaptureInv, OnlyWhatMayLand, RiskNeedsConsent, PendingIsOurs, PendingSound
    <2> QED
        BY <2>4, <2>6, <2>7 DEF CaptureInv, OnlyWhatMayLand
<1>3. CASE PutOnClipboard
    <2> PICK text \in Own : PutOnClipboard!(text)
        BY <1>3 DEF PutOnClipboard
    <2>1. /\ copied' = copied \cup {text} /\ arrivalSeq' = arrivalSeq + 1
          /\ UNCHANGED <<clip, reading, native, binds, focused, grace, writtenSeq, refused, received, shown,
                         landedSeq, confirmed, broadcast>>
          /\ \/ /\ pending' = [text |-> text, risk |-> FALSE, seq |-> arrivalSeq'] /\ ours' = TRUE
                /\ UNCHANGED <<writes, lastSent, suppressed, recent>>
             \/ /\ WriteNow(text, arrivalSeq', None, 0) /\ recent' = TRUE
                /\ UNCHANGED <<pending, ours>>
        BY DEF Hold
    <2>2. text \in Text /\ text \notin Junk /\ text \notin Risky
        BY TextsAre
    <2>3. arrivalSeq' \in Nat /\ arrivalSeq <= arrivalSeq' /\ arrivalSeq' \in 1..arrivalSeq'
        BY <1>1, <2>1
    <2>4. /\ WritesFit' /\ EditorHasNewest' /\ recent' \in BOOLEAN
          /\ lastSent' \in Text \cup {None} /\ suppressed' \in BOOLEAN
        <3>1. CASE UNCHANGED <<writes, lastSent, suppressed, recent>>
            <4>1. ASSUME NEW i \in DOMAIN writes PROVE Fit(writes[i])'
                <5>1. writes[i] \in Writes /\ Fit(writes[i])
                    BY DEF CaptureInv, WritesFit
                <5>2. writes'[i] = writes[i]
                    BY <3>1
                <5> QED
                    BY <1>1, <2>1, <2>3, <3>1, <5>1, <5>2 DEF Fit, Sound, Writes
            <4> QED
                BY <1>1, <2>1, <3>1, <4>1 DEF CaptureInv, WritesFit, EditorHasNewest
        <3>2. CASE WriteNow(text, arrivalSeq', None, 0) /\ recent' = TRUE
            BY <1>1, <2>1, <2>2, <2>3, <3>2, WriteMade
        <3> QED
            BY <2>1, <3>1, <3>2
    <2>5. /\ pending' # None => Sound(pending)' /\ ours'
          /\ pending' \in Clips \cup {None} /\ ours' \in BOOLEAN
        <3>1. CASE UNCHANGED <<pending, ours>>
            BY <1>1, <2>3, <3>1 DEF CaptureInv, OnlyWhatMayLand, TypeOK, PendingIsOurs, PendingSound, Sound
        <3>2. CASE pending' = [text |-> text, risk |-> FALSE, seq |-> arrivalSeq'] /\ ours' = TRUE
            BY <2>2, <2>3, <3>2 DEF Sound, Clips
        <3> QED
            BY <2>1, <3>1, <3>2
    <2>6. TypeOK'
        BY <1>1, <2>1, <2>3, <2>4, <2>5 DEF CaptureInv, OnlyWhatMayLand, TypeOK, WritesFit, Writes
    <2>7. RiskNeedsConsent' /\ PendingIsOurs' /\ PendingSound'
        BY <2>1, <2>5 DEF CaptureInv, OnlyWhatMayLand, RiskNeedsConsent, PendingIsOurs, PendingSound
    <2> QED
        BY <2>4, <2>6, <2>7 DEF CaptureInv, OnlyWhatMayLand
<1> QED
    BY <1>2, <1>3

\* The first of the writes, and those behind it.
LEMMA FirstAndRest ==
    ASSUME CaptureInv, writes # <<>>
    PROVE  /\ First \in Writes /\ Fit(First) /\ First = writes[1] /\ 1 \in DOMAIN writes
           /\ Tail(writes) \in Seq(Writes)
           /\ DOMAIN Tail(writes) = 1..(Len(writes) - 1) /\ Len(writes) \in Nat
           /\ DOMAIN writes = 1..Len(writes)
           /\ \A i \in DOMAIN Tail(writes) : i + 1 \in DOMAIN writes /\ Tail(writes)[i] = writes[i + 1]
<1>1. writes \in Seq(Writes)
    BY DEF CaptureInv, WritesFit
<1>2. /\ Tail(writes) \in Seq(Writes) /\ Len(Tail(writes)) = Len(writes) - 1
      /\ \A i \in 1..Len(Tail(writes)) : Tail(writes)[i] = writes[i + 1]
      /\ Head(writes) = writes[1] /\ Len(writes) \in Nat /\ Len(writes) # 0
    BY <1>1, HeadTailProperties, EmptySeq, LenProperties
<1>3. DOMAIN writes = 1..Len(writes) /\ DOMAIN Tail(writes) = 1..Len(Tail(writes))
    BY <1>1, <1>2, LenProperties
<1> QED
    BY <1>2, <1>3 DEF First, CaptureInv, WritesFit

\* The system applies a write, or answers that it did.
LEMMA SystemSteps ==
    ASSUME CaptureInv, Land \/ WriteOk \/ WriteRefused
    PROVE  CaptureInv'
<1> USE DEF seqs, editor, windows, history, slot
<1>1. /\ arrivalSeq \in Nat /\ received \in Nat /\ shown \in 0..received /\ grace \in BOOLEAN
      /\ lastSent \in Text \cup {None} /\ writtenSeq \in 0..arrivalSeq /\ ours \in BOOLEAN
      /\ pending \in Clips \cup {None} /\ refused \subseteq Nat
    BY DEF CaptureInv, OnlyWhatMayLand, TypeOK
<1>2. First \in Writes /\ Fit(First)
    BY FirstAndRest DEF Land, WriteOk, WriteRefused
<1>3. CASE Land
    <2>1. /\ clip' = First.text /\ landedSeq' = First.seq /\ writes' = [writes EXCEPT ![1].landed = TRUE]
          /\ UNCHANGED <<reading, native, binds, focused, lastSent, suppressed, recent, pending, grace, ours,
                         arrivalSeq, writtenSeq, refused, received, shown, confirmed, broadcast, copied>>
        BY <1>3 DEF Land
    <2>2. /\ writes \in Seq(Writes) /\ \A i \in DOMAIN writes : writes[i] \in Writes /\ Fit(writes[i])
          /\ Len(writes) \in Nat /\ DOMAIN writes = 1..Len(writes)
        BY LenProperties DEF CaptureInv, WritesFit
    <2>3. /\ DOMAIN writes' = DOMAIN writes
          /\ \A i \in DOMAIN writes : writes'[i] = IF i = 1 THEN [writes[1] EXCEPT !.landed = TRUE] ELSE writes[i]
        BY <2>1, <2>2
    <2>4. ASSUME NEW i \in DOMAIN writes
          PROVE  writes'[i] \in Writes /\ Fit(writes[i])' /\ writes'[i].arrival = writes[i].arrival
        <3>1. /\ writes'[i] \in Writes
              /\ writes'[i].text = writes[i].text /\ writes'[i].seq = writes[i].seq
              /\ writes'[i].of = writes[i].of /\ writes'[i].arrival = writes[i].arrival
              /\ writes'[i].session = writes[i].session
            <4>1. ASSUME NEW w \in Writes, NEW w2, w2 = [w EXCEPT !.landed = TRUE]
                  PROVE  /\ w2 \in Writes /\ w2.text = w.text /\ w2.seq = w.seq /\ w2.of = w.of
                         /\ w2.arrival = w.arrival /\ w2.session = w.session
                BY <4>1 DEF Writes
            <4>2. CASE i = 1
                <5>1. writes[i] \in Writes /\ writes'[i] = [writes[i] EXCEPT !.landed = TRUE]
                    BY <2>2, <2>3, <4>2
                <5> QED
                    BY <4>1, <5>1
            <4>3. CASE i # 1
                BY <2>2, <2>3, <4>3
            <4> QED
                BY <4>2, <4>3
        <3> QED
            BY <2>1, <2>2, <3>1 DEF Fit, Sound
    <2>5. writes' \in Seq(Writes)
        <3>1. writes' = [i \in 1..Len(writes) |-> writes'[i]]
            BY <2>1, <2>2
        <3> QED
            BY <2>2, <2>3, <2>4, <3>1, IsASeq
    <2>6. WritesFit' /\ EditorHasNewest'
        BY <2>1, <2>3, <2>4, <2>5 DEF WritesFit, EditorHasNewest, CaptureInv
    <2>7. clip' \in Text \ Junk /\ landedSeq' \in 0..arrivalSeq /\ (clip' \in Risky => landedSeq' \in confirmed)
        BY <1>1, <1>2, <2>1 DEF Fit, Writes
    <2>8. PlainTypes /\ PendingIsOurs /\ PendingSound
        BY InvParts
    <2>9. PlainTypes'
        BY <2>1, <2>7, <2>8 DEF PlainTypes
    <2>10. RiskNeedsConsent' /\ PendingIsOurs' /\ PendingSound'
        BY <2>1, <2>7, <2>8 DEF RiskNeedsConsent, PendingIsOurs, PendingSound, Sound
    <2> QED
        BY <2>6, <2>9, <2>10, InvAgain
<1>4. CASE WriteOk \/ WriteRefused
    <2>1. /\ writes # <<>> /\ writes' = Tail(writes) /\ shown' = (IF Shows THEN First.arrival ELSE shown)
          /\ UNCHANGED <<clip, reading, native, binds, focused, suppressed, recent, arrivalSeq, received,
                         landedSeq, confirmed, broadcast, copied>>
        BY <1>4 DEF WriteOk, WriteRefused, Answered
    <2>2. /\ lastSent' \in Text \cup {None} /\ writtenSeq' \in 0..arrivalSeq /\ grace' \in BOOLEAN
          /\ ours' \in BOOLEAN /\ refused' \subseteq Nat
          /\ \/ pending' = None
             \/ UNCHANGED <<pending, ours>>
             \/ pending' = First.of /\ First.of # None /\ ours' = TRUE
        <3>1. CASE WriteOk
            <4>1. lastSent' = lastSent /\ writtenSeq' = (IF First.seq > writtenSeq THEN First.seq ELSE writtenSeq)
                BY <3>1 DEF WriteOk
            <4>2. writtenSeq' \in 0..arrivalSeq
                BY <1>1, <1>2, <4>1 DEF Fit, Writes
            <4>3. \/ pending' = None /\ grace' = (grace /\ pending = None) /\ ours' = FALSE
                  \/ UNCHANGED <<pending, grace, ours>>
                BY <3>1 DEF WriteOk, Discard
            <4>4. refused' = refused
                BY <3>1 DEF WriteOk
            <4> QED
                BY <1>1, <4>1, <4>2, <4>3, <4>4
        <3>2. CASE WriteRefused
            <4>1. Owed => First.of \in Clips /\ First.session
                BY <1>2 DEF Owed, Writes
            <4>2. refused' \subseteq Nat
                <5>1. Owed => First.of.seq \in Nat
                    BY <4>1 DEF Clips
                <5> QED
                    BY <1>1, <3>2, <5>1 DEF WriteRefused
            <4> QED
                BY <1>1, <1>2, <3>2, <4>2 DEF WriteRefused, Owed, Fit, Writes
        <3> QED
            BY <1>4, <3>1, <3>2
    <2>3. shown' \in 0..received' /\ (First.arrival = received => shown' = received)
          /\ (shown = received => shown' = received)
        BY <1>1, <1>2, <2>1 DEF Shows, Fit, Writes
    <2>4. ASSUME NEW i \in DOMAIN writes'
          PROVE  writes'[i] \in Writes /\ Fit(writes[i])' /\ i + 1 \in DOMAIN writes /\ writes'[i] = writes[i + 1]
        <3>1. i + 1 \in DOMAIN writes /\ writes'[i] = writes[i + 1]
            BY <2>1, FirstAndRest
        <3>2. writes[i + 1] \in Writes /\ Fit(writes[i + 1])
            BY <3>1 DEF CaptureInv, WritesFit
        <3> QED
            BY <1>1, <2>1, <2>3, <3>1, <3>2 DEF Fit, Sound
    <2>5. WritesFit'
        BY <2>1, <2>4, FirstAndRest DEF WritesFit
    <2>6. EditorHasNewest'
        <3>1. SUFFICES ASSUME \A i \in DOMAIN writes' : writes'[i].arrival # received
                       PROVE  shown' = received
            BY <2>1 DEF EditorHasNewest
        <3>2. CASE First.arrival = received
            BY <2>3, <3>2
        <3>3. CASE First.arrival # received
            <4>1. \A i \in DOMAIN writes : i = 1 \/ (i - 1 \in DOMAIN writes' /\ writes'[i - 1] = writes[i])
                <5>1. \A i \in 1..Len(writes) : i = 1 \/ (i - 1 \in 1..(Len(writes) - 1) /\ (i - 1) + 1 = i)
                    BY <2>1, FirstAndRest
                <5> QED
                    BY <2>1, <5>1, FirstAndRest
            <4>2. \A i \in DOMAIN writes : writes[i].arrival # received
                BY <2>1, <3>1, <3>3, <4>1, FirstAndRest
            <4> QED
                BY <2>3, <4>2 DEF CaptureInv, EditorHasNewest
        <3> QED
            BY <3>2, <3>3
    <2>7. /\ pending' # None => Sound(pending)' /\ ours'
          /\ pending' \in Clips \cup {None}
        <3>1. CASE pending' = None
            BY <3>1
        <3>2. CASE UNCHANGED <<pending, ours>>
            BY <1>1, <2>1, <3>2 DEF CaptureInv, OnlyWhatMayLand, PendingIsOurs, PendingSound, Sound
        <3>3. CASE pending' = First.of /\ First.of # None /\ ours' = TRUE
            <4>1. Sound(First.of) /\ First.of \in Clips
                BY <1>2, <3>3 DEF Fit, Writes
            <4> QED
                BY <2>1, <3>3, <4>1 DEF Sound
        <3> QED
            BY <2>2, <3>1, <3>2, <3>3
    <2>8. TypeOK'
        BY <2>1, <2>2, <2>3, <2>5, <2>7 DEF CaptureInv, OnlyWhatMayLand, TypeOK, WritesFit, Writes
    <2>9. RiskNeedsConsent' /\ PendingIsOurs' /\ PendingSound'
        BY <2>1, <2>7 DEF CaptureInv, OnlyWhatMayLand, RiskNeedsConsent, PendingIsOurs, PendingSound
    <2> QED
        BY <2>5, <2>6, <2>8, <2>9 DEF CaptureInv, OnlyWhatMayLand
<1> QED
    BY <1>3, <1>4

\* Leaving the room: its writes go on, and have nothing to show.
LEMMA LeavingSteps == ASSUME CaptureInv, ForgetSession PROVE CaptureInv'
<1>1. /\ writes' = [i \in DOMAIN writes |-> [writes[i] EXCEPT !.session = FALSE]]
      /\ pending' = None /\ grace' = (grace /\ pending = None) /\ ours' = FALSE /\ shown' = received
      /\ UNCHANGED <<clip, reading, native, binds, focused, lastSent, suppressed, recent,
                     arrivalSeq, writtenSeq, refused, received, landedSeq, confirmed, broadcast,
                     copied>>
    BY DEF ForgetSession, Discard, seqs, windows, history
<1>2. writes \in Seq(Writes) /\ Len(writes) \in Nat /\ DOMAIN writes = 1..Len(writes)
      /\ \A i \in DOMAIN writes : writes[i] \in Writes /\ Fit(writes[i])
    BY LenProperties DEF CaptureInv, WritesFit
<1>3. ASSUME NEW i \in DOMAIN writes
      PROVE  writes'[i] \in Writes /\ Fit(writes[i])'
    <2>1. writes[i] \in Writes /\ Fit(writes[i]) /\ writes'[i] = [writes[i] EXCEPT !.session = FALSE]
        BY <1>1, <1>2
    <2>2. ASSUME NEW w \in Writes
          PROVE  LET w2 == [w EXCEPT !.session = FALSE]
                 IN  /\ w2 \in Writes /\ w2.text = w.text /\ w2.seq = w.seq /\ w2.of = w.of
                     /\ w2.arrival = w.arrival
        BY DEF Writes
    <2>3. /\ writes'[i] \in Writes /\ writes'[i].text = writes[i].text /\ writes'[i].seq = writes[i].seq
          /\ writes'[i].of = writes[i].of /\ writes'[i].arrival = writes[i].arrival
        BY <2>1, <2>2
    <2> QED
        BY <1>1, <2>1, <2>3 DEF Fit, Sound
<1>4. DOMAIN writes' = DOMAIN writes /\ writes' \in Seq(Writes)
    <2>1. DOMAIN writes' = DOMAIN writes /\ writes' = [i \in 1..Len(writes) |-> writes'[i]]
        BY <1>1, <1>2
    <2> QED
        BY <1>2, <1>3, <2>1, IsASeq
<1>5. WritesFit' /\ EditorHasNewest'
    BY <1>1, <1>3, <1>4 DEF WritesFit, EditorHasNewest
<1>6. PlainTypes /\ RiskNeedsConsent
    BY InvParts
<1>7. PlainTypes'
    <2>1. grace' \in BOOLEAN /\ shown' \in 0..received'
        BY <1>1, <1>6 DEF PlainTypes
    <2> QED
        BY <1>1, <1>6, <2>1 DEF PlainTypes
<1>8. RiskNeedsConsent' /\ PendingIsOurs' /\ PendingSound'
    BY <1>1, <1>6 DEF RiskNeedsConsent, PendingIsOurs, PendingSound
<1> QED
    BY <1>5, <1>7, <1>8, InvAgain

\* The inductive invariant is one.
LEMMA CaptureKeeps == CaptureInv /\ [Next]_vars => CaptureInv'
<1> SUFFICES ASSUME CaptureInv, [Next]_vars PROVE CaptureInv'
    OBVIOUS
<1>1. CASE UserCopies \/ Paste \/ Blur \/ DiscardPending \/ ApplyMode
    BY <1>1, UserSteps
<1>2. CASE ReadTaken \/ ReadDone \/ Clock \/ UNCHANGED vars
    BY <1>2, QuietSteps
<1>3. CASE Focus \/ TryRead \/ GraceFires \/ ConfirmPending
    BY <1>3, ReleaseSteps
<1>4. CASE Receive \/ PutOnClipboard
    BY <1>4, ArrivalSteps
<1>5. CASE Land \/ WriteOk \/ WriteRefused
    BY <1>5, SystemSteps
<1>6. CASE ForgetSession
    BY <1>6, LeavingSteps
<1> QED
    BY <1>1, <1>2, <1>3, <1>4, <1>5, <1>6 DEF Next, User, System

\* Nothing flagged gets onto the clipboard without consent to that very clip, and nothing
\* waits to that was left behind with its room (capture.js:404-431, 468-476).
THEOREM ClipboardIsGuarded == Spec => []OnlyWhatMayLand
<1>1. CaptureInv => OnlyWhatMayLand
    BY DEF CaptureInv
<1> QED
    BY <1>1, CaptureBegins, CaptureKeeps, PTL DEF Spec

\* The editor has the newest arrival once the clipboard has answered for it, in whatever
\* order it answers, through refusals and changes of room (main.js:674-685).
THEOREM EditorFollows == Spec => []EditorHasNewest
<1>1. CaptureInv => EditorHasNewest
    BY DEF CaptureInv
<1> QED
    BY <1>1, CaptureBegins, CaptureKeeps, PTL DEF Spec
=============================================================================
