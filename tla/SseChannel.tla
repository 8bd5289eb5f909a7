----------------------------- MODULE SseChannel -----------------------------
(***************************************************************************)
(* Sending over the event-stream fallback, src/transport/sse.js: frames    *)
(* wait in an outbox, one POST is in flight, a POST that came to nothing   *)
(* goes back to the front and is tried once more.  Giving a POST up does   *)
(* not stop it: what the network still holds of it may reach the relay     *)
(* later.                                                                  *)
(*                                                                         *)
(* Frames are numbered as they are sent.  A definition marked "Fault" is   *)
(* the next one with a bug one could plausibly write.                      *)
(***************************************************************************)
EXTENDS Integers, Sequences, FiniteSets, SequencesExt

CONSTANTS
    BatchMax,       \* NET.POST_MAX_FRAMES
    MaxSseFrames    \* bound: frames sent

ASSUME SseAssumption == BatchMax \in Nat \ {0} /\ MaxSseFrames \in Nat

VARIABLES
    sid,            \* the relay has welcomed the stream
    done,
    outbox,
    batch,          \* the frames of the POST awaited, or <<>>
    retried, retryDue,   \* it was tried before; the retry timer is set
    posted,         \* the POST awaited has not reached the relay
    answer,         \* what the relay made of it: "none", "ok", "gone"
    late,           \* POSTs given up that may still arrive
    gone,           \* the relay has forgotten the stream
    sent,           \* history: frames accepted by send()
    got,            \* history: frames the relay handled
    dropped         \* history: frames given up

net     == <<posted, answer, late>>
sseVars == <<sid, done, outbox, batch, retried, retryDue, net, gone, sent, got, dropped>>

Idle == batch = <<>> /\ ~retryDue

\* flush() with `queue' as the outbox and nothing in flight.
Taken(queue) == IF Len(queue) < BatchMax THEN Len(queue) ELSE BatchMax
Flush(queue) ==
    /\ batch'  = IF done THEN <<>> ELSE SubSeq(queue, 1, Taken(queue))
    /\ outbox' = IF done THEN queue ELSE SubSeq(queue, Taken(queue) + 1, Len(queue))
    /\ posted' = (batch' # <<>>) /\ answer' = "none"

StreamWelcomed ==
    /\ ~sid /\ ~done /\ sid' = TRUE
    /\ UNCHANGED <<done, outbox, batch, retried, retryDue, net, gone, sent, got, dropped>>

Send ==
    /\ sid /\ ~done /\ sent < MaxSseFrames
    /\ sent' = sent + 1
    /\ \/ Idle /\ Flush(Append(outbox, sent'))
       \/ ~Idle /\ outbox' = Append(outbox, sent') /\ UNCHANGED <<batch, posted, answer>>
    /\ UNCHANGED <<sid, done, retried, retryDue, late, gone, got, dropped>>

\* The relay handles the POST awaited, or has no stream of that sid.
Handled(frames) == got' = IF gone THEN got ELSE got \o frames
Land ==
    /\ batch # <<>> /\ posted /\ posted' = FALSE
    /\ Handled(batch)
    /\ answer' = IF gone THEN "gone" ELSE "ok"
    /\ UNCHANGED <<sid, done, outbox, batch, retried, retryDue, late, gone, sent, dropped>>

LateLands == \E post \in late :
    /\ late' = late \ {post} /\ Handled(post.frames)
    /\ UNCHANGED <<sid, done, outbox, batch, retried, retryDue, posted, answer, gone, sent, dropped>>

PostOk ==
    /\ answer = "ok"
    /\ retried' = FALSE /\ Flush(outbox)
    /\ UNCHANGED <<sid, done, retryDue, late, gone, sent, got, dropped>>

\* 404: the stream behind this sid is gone.
PostGone ==
    /\ answer = "gone"
    /\ done' = TRUE /\ retried' = FALSE
    /\ batch' = <<>> /\ posted' = FALSE /\ answer' = "none"
    /\ UNCHANGED <<sid, outbox, retryDue, late, gone, sent, got, dropped>>

\* The POST fails or times out, handled or not.
Abandoned == late' \in {late} \cup
    IF posted THEN {late \cup {[frames |-> batch, again |-> retried]}} ELSE {}

PostRetried ==
    /\ batch # <<>> /\ Abandoned
    /\ ~retried /\ retried' = TRUE /\ retryDue' = TRUE
    /\ outbox' = batch \o outbox /\ batch' = <<>> /\ posted' = FALSE /\ answer' = "none"
    /\ UNCHANGED <<sid, done, gone, sent, got, dropped>>

PostDropped ==
    /\ batch # <<>> /\ Abandoned
    /\ retried /\ retried' = FALSE
    /\ dropped' = dropped \cup ToSet(batch)
    /\ Flush(outbox)
    /\ UNCHANGED <<sid, done, retryDue, gone, sent, got>>

\* Fault: the timer leaves the channel marked busy.
RetryFiresBusy ==
    /\ retryDue /\ retryDue' = TRUE
    /\ UNCHANGED <<sid, done, outbox, batch, retried, net, gone, sent, got, dropped>>
RetryFires ==
    /\ retryDue /\ retryDue' = FALSE
    /\ Flush(outbox)
    /\ UNCHANGED <<sid, done, retried, late, gone, sent, got, dropped>>

Close ==
    /\ ~done /\ done' = TRUE
    /\ outbox' = <<>> /\ retryDue' = FALSE
    /\ UNCHANGED <<sid, batch, retried, net, gone, sent, got, dropped>>

\* onerror of a welcomed stream: finish().
StreamDrops ==
    /\ sid /\ ~done /\ done' = TRUE
    /\ retryDue' = FALSE
    /\ UNCHANGED <<sid, outbox, batch, retried, net, gone, sent, got, dropped>>

RelayForgets ==
    /\ sid /\ ~gone /\ gone' = TRUE
    /\ UNCHANGED <<sid, done, outbox, batch, retried, retryDue, net, sent, got, dropped>>
-----------------------------------------------------------------------------
SseInit ==
    /\ sid = FALSE /\ done = FALSE
    /\ outbox = <<>> /\ batch = <<>> /\ retried = FALSE /\ retryDue = FALSE
    /\ posted = FALSE /\ answer = "none" /\ late = {} /\ gone = FALSE
    /\ sent = 0 /\ got = <<>> /\ dropped = {}

SseWork == PostOk \/ PostGone \/ PostRetried \/ PostDropped \/ RetryFires
SseNext == StreamWelcomed \/ Send \/ Land \/ LateLands \/ SseWork \/ Close \/ StreamDrops \/ RelayForgets

\* Every POST is answered or times out, and the retry timer fires.
SseSpec == SseInit /\ [][SseNext]_sseVars /\ WF_sseVars(SseWork)
-----------------------------------------------------------------------------
\* A frame is handled twice at the most (sse.js:148-157).
AtMostTwice == \A n \in 1..sent : Cardinality({i \in DOMAIN got : got[i] = n}) <= 2

First(n) == CHOOSE i \in DOMAIN got : got[i] = n /\ \A j \in 1..(i - 1) : got[j] # n
\* A frame is overtaken only by frames sent after it was given up: retrying puts a
\* batch back in front of what was queued meanwhile.
OvertakenOnlyIfDropped == \A m, n \in ToSet(got) : m < n /\ First(n) < First(m) => m \in dropped

\* A POST that never answers does not wedge the outbox behind it (sse.js:40-41).
OutboxDrains == (sid /\ outbox # <<>>) ~> (outbox = <<>> \/ done)

\* sse.js:148-157: the one retry duplicates a batch at most once, overtakes nothing that
\* was not given up, and nothing wedges the outbox.
OutboxIsHonest == []AtMostTwice /\ []OvertakenOnlyIfDropped /\ OutboxDrains
=============================================================================
