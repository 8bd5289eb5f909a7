------------------------------ MODULE Transfer ------------------------------
(***************************************************************************)
(* One file, moved from the device that holds it to one that asked for it: *)
(* src/src/files/transfer.js on both ends, with the registry entry, the    *)
(* reassembler of chunker.js and the approval prompt of filesPanel.js.     *)
(* The holder asks its user, races a direct connection against a timer and *)
(* falls back to chunks through the relay.  Frames carry the id of the     *)
(* file and nothing of the attempt they belong to, and travel through the  *)
(* relay in order, sometimes twice (the SSE channel repeats a POST) and    *)
(* sometimes not at all.  An action is one handler, up to its next await.  *)
(*                                                                         *)
(* A transfer object `t` outlives its entry in `live`: a prompt, a digest  *)
(* or a stream still holds it.  h[b] is the holder's b-th object, r[a] the *)
(* receiver's a-th; hLive and rLive are the entries of the two live maps.  *)
(***************************************************************************)
EXTENDS Naturals, Sequences

CONSTANTS Size, RelayBytes, DirectBytes,  \* the file and the two chunk sizes
          MaxTries,      \* bound on the receiver's requests
          MaxServes,     \* bound on the holder's transfers
          MaxLost,       \* bound on frames the relay loses
          MaxTwice,      \* bound on frames delivered twice
          MaxCancels     \* bound on what users and room changes cancel

ASSUME SizesAreNat == /\ Size \in Nat /\ RelayBytes \in Nat \ {0}
                      /\ DirectBytes \in Nat \ {0}
ASSUME BoundsAreNat == {MaxTries, MaxServes, MaxLost, MaxTwice, MaxCancels} \subseteq Nat

VARIABLES
  h, hLive,     \* the holder
  answers,      \* its answers under way: the one being applied, and those behind it
  r, rLive,     \* the receiver
  tile, held,   \* the receiver's registry entry: its state, and whether it has the bytes
  toH, toR,     \* frames in the relay
  direct        \* what is in the data channel, towards the receiver

(* What an observer remembers. *)
VARIABLES
  told,         \* the holder was told that the file arrived
  excused,      \* something happened that may fail a transfer
  spent         \* what the bounds bound

vars == <<h, hLive, answers, r, rLive, tile, held, toH, toR, direct, told, excused, spent>>

Serves == 1..MaxServes
Tries  == 1..MaxTries
Spend(what) == spent' = [spent EXCEPT ![what] = @ + 1]

(* chunker.js: how many chunks a plan has; a plan is its chunk size. *)
ChunkCount(chunkBytes) == (Size + chunkBytes - 1) \div chunkBytes

(* A connection is the receiver's answer to an offer of the holder's: the  *)
(* number of that transfer, and of the answer.                             *)
NoCall == <<0, 0>>
FrameOf(c, t, n) == [t |-> t, n |-> n, of |-> c]
Frame(t, n) == FrameOf(NoCall, t, n)
ToHolder(t, n) == toH' = Append(toH, Frame(t, n))
ToReceiver(t, n) == toR' = Append(toR, Frame(t, n))

------------------------------------------------------------------------------
(* The receiver *)

NoTry == [at |-> "none", path |-> "none", plan |-> 0, got |-> {}, pc |-> "no", own |-> NoCall]

(* finish(): whatever transfer of this id is live, its entry goes. *)
Ended(t) == [t EXCEPT !.pc = "no", !.at = IF @ = "verify" THEN @ ELSE "over"]

FinishR(a) ==
  /\ r' = [r EXCEPT ![a] = Ended(@)]
  /\ rLive' = 0

Cancelled == IF held THEN "done" ELSE "cancelled"
HolderRests == UNCHANGED <<h, hLive, answers, told>>

Request ==
  /\ rLive = 0 /\ ~held
  /\ spent.tries < MaxTries
  /\ Spend("tries")
  /\ rLive' = spent.tries + 1
  /\ r' = [r EXCEPT ![spent.tries + 1] = [NoTry EXCEPT !.at = "asked"]]
  /\ tile' = "busy"
  /\ ToHolder("req", 0)
  /\ HolderRests /\ UNCHANGED <<held, toR, direct, excused>>

(* The request is not answered in time: the holder is told, too. *)
Deadline(a) ==
  /\ r[a].at = "asked"
  /\ ToHolder("cancel", 0)
  /\ FinishR(a)
  /\ tile' = "error" /\ excused' = TRUE
  /\ HolderRests /\ UNCHANGED <<held, toR, direct, spent>>

CancelR ==
  /\ rLive # 0
  /\ spent.cancels < MaxCancels
  /\ Spend("cancels")
  /\ ToHolder("cancel", 0)
  /\ FinishR(rLive)
  /\ tile' = Cancelled /\ excused' = TRUE
  /\ HolderRests /\ UNCHANGED <<held, toR, direct>>

(* abort(): this end broke. *)
AbortR(a) ==
  /\ ToHolder("error", 0)
  /\ FinishR(a)
  /\ tile' = "error"

IdleArmedNever(a) == FALSE             \* a plausible bug: accepting arms no timer
IdleArmed(a) == r[a].at = "ready"

Idle(a) ==
  /\ IdleArmed(a)
  /\ AbortR(a) /\ excused' = TRUE
  /\ HolderRests /\ UNCHANGED <<held, toR, direct, spent>>

CompleteEarly(t) == t.plan # 0 /\ t.got # {}     \* a plausible bug
(* The reassembler: complete once every chunk of its plan is in. *)
Complete(t) == t.plan # 0 /\ t.got = 0..(ChunkCount(t.plan) - 1)
Settle(t) == IF Complete(t) THEN [t EXCEPT !.at = "verify"] ELSE t

(* complete() after its digest: said to the holder, then the blob is kept, *)
(* whatever was cancelled while the digest was computed.                   *)
Verified(a) ==
  /\ r[a].at = "verify"
  /\ ToHolder("ok", 0)
  /\ r' = [r EXCEPT ![a] = Ended([@ EXCEPT !.at = "over"])]
  /\ rLive' = 0
  /\ tile' = "done" /\ held' = TRUE
  /\ HolderRests /\ UNCHANGED <<toR, direct, excused, spent>>

------------------------------------------------------------------------------
(* Frames that reach the receiver *)

Ignores == UNCHANGED <<r, rLive, tile, toH>>
Keeps(t) == r' = [r EXCEPT ![rLive] = t] /\ UNCHANGED rLive

OnAccept(t) ==
  /\ Keeps([t EXCEPT !.at = IF @ = "asked" THEN "ready" ELSE @])
  /\ tile' = "busy"
  /\ UNCHANGED toH

(* An offer is answered with a connection of its own.                       *)
Connects(t) == t.pc = "no" /\ t.path # "relay" /\ t.at # "verify"

OnOffer(t, n) ==
  LET call == <<n, spent.calls + 1>> IN
  IF Connects(t)
  THEN /\ Keeps([t EXCEPT !.pc = "up", !.own = call])
       /\ toH' = Append(toH, FrameOf(call, "answer", 0))
       /\ UNCHANGED tile
  ELSE Ignores

(* A chunk through the relay says that the direct connection lost. *)
OverRelay(t) == IF t.path = "relay" THEN t ELSE [t EXCEPT !.path = "relay", !.pc = "no"]
WithPlan(t) == IF t.plan = 0 THEN [t EXCEPT !.plan = RelayBytes] ELSE t

(* A piece fits the plan the reassembler was built with, or a file that is *)
(* a single piece of either.                                               *)
Fits(plan) == plan = RelayBytes \/ (Size <= plan /\ Size <= RelayBytes)

OnChunk(t, n) ==
  LET u == WithPlan(OverRelay(t)) IN
  IF t.at = "verify" THEN Keeps(OverRelay(t)) /\ UNCHANGED <<tile, toH>>
  ELSE IF t.at = "asked" \/ ~Fits(u.plan)            \* no header, or another plan
  THEN FinishR(rLive) /\ tile' = "error" /\ UNCHANGED toH
  ELSE Keeps(Settle([u EXCEPT !.got = @ \cup {n}])) /\ UNCHANGED <<tile, toH>>

OnDone(t) ==
  IF t.at = "verify" THEN Ignores
  ELSE IF t.at = "ready" /\ Complete(WithPlan(t))
       THEN Keeps(Settle(WithPlan(t))) /\ UNCHANGED <<tile, toH>>
       ELSE AbortR(rLive)

(* A refusal or an error is shown whether or not a transfer is live. *)
OnRefusal ==
  /\ IF rLive # 0 THEN FinishR(rLive) ELSE UNCHANGED <<r, rLive>>
  /\ tile' = "error"
  /\ UNCHANGED toH

OnCancel ==
  /\ FinishR(rLive)
  /\ tile' = Cancelled
  /\ UNCHANGED toH

ReceiverTakes(f) ==
  LET t == r[rLive] IN
  IF f.t \in {"deny", "error"} THEN OnRefusal
  ELSE IF rLive = 0 THEN Ignores
  ELSE CASE f.t = "accept" -> OnAccept(t)
         [] f.t = "offer"  -> OnOffer(t, f.n)
         [] f.t = "chunk"  -> OnChunk(t, f.n)
         [] f.t = "done"   -> OnDone(t)
         [] f.t = "cancel" -> OnCancel

DeliverR ==
  /\ toR # <<>>
  /\ ReceiverTakes(Head(toR))
  /\ IF Head(toR).t = "offer" /\ rLive # 0 /\ Connects(r[rLive]) THEN Spend("calls") ELSE UNCHANGED spent
  /\ toR' = Tail(toR)
  /\ HolderRests /\ UNCHANGED <<held, direct, excused>>

------------------------------------------------------------------------------
(* The holder *)

NoServe == [at |-> "none", done |-> FALSE, next |-> 0, pc |-> "no", to |-> NoCall, ok |-> FALSE]

(* finish() leaves the prompt and the digest to find out by themselves. *)
StoppedSoon(t) == [t EXCEPT !.done = TRUE, !.pc = "no"]   \* a plausible bug
Stopped(t) == [t EXCEPT !.done = TRUE, !.pc = "no",
                        !.at = IF @ \in {"prompt", "digest"} THEN @ ELSE "over"]

(* A connection that is closed settles no answer. *)
Closes(b) == answers' = [answers EXCEPT ![b] = <<>>]

StopH(b) == h' = [h EXCEPT ![b] = Stopped(@)] /\ hLive' = 0
FinishH(b) == StopH(b) /\ Closes(b)

ReceiverRests == UNCHANGED <<r, rLive, tile, held>>
Goes(b, t) == h' = [h EXCEPT ![b] = t] /\ UNCHANGED hLive

(* The prompt is answered, or expires, which denies. *)
ProceedsAnyway(t) == TRUE              \* a plausible bug: nobody looks at t.done
Proceeds(t) == ~t.done

Approve(b) ==
  /\ h[b].at = "prompt"
  /\ Goes(b, [h[b] EXCEPT !.at = IF Proceeds(h[b]) THEN "digest" ELSE "over"])
  /\ ReceiverRests /\ UNCHANGED <<answers, toH, toR, direct, told, excused, spent>>

Deny(b) ==
  /\ h[b].at = "prompt"
  /\ h' = [h EXCEPT ![b] = Stopped([@ EXCEPT !.at = "over"])]
  /\ hLive' = 0
  /\ ToReceiver("deny", 0)
  /\ excused' = TRUE
  /\ ReceiverRests /\ UNCHANGED <<answers, toH, direct, told, spent>>

(* The digest is in hand: the plan is sent, and the race starts.  Without  *)
(* WebRTC there is nothing to race.                                        *)
Accept(b) ==
  /\ h[b].at = "digest"
  /\ IF ~Proceeds(h[b])
     THEN Goes(b, [h[b] EXCEPT !.at = "over"]) /\ UNCHANGED toR
     ELSE \/ /\ Goes(b, [h[b] EXCEPT !.at = "race", !.pc = "up"])
             /\ toR' = toR \o <<Frame("accept", 0), Frame("offer", b)>>
          \/ /\ Goes(b, [h[b] EXCEPT !.at = "relay"])
             /\ ToReceiver("accept", 0)
  /\ ReceiverRests /\ UNCHANGED <<answers, toH, direct, told, excused, spent>>

(* The two ends of a connection, while neither was closed. *)
Joined(a, b) == /\ h[b].pc \in {"ready", "open"} /\ h[b].to = r[a].own
                /\ r[a].pc \in {"up", "open"}
Linked(b) == \E a \in Tries : Joined(a, b)

RacingStill(t) == t.at \in {"race", "direct"}  \* a plausible bug
Racing(t) == t.at = "race"                    \* ~t.path

(* toRelay(): the timer, or the connection, gave up. *)
ToRelay(b) ==
  /\ Racing(h[b])
  /\ Closes(b)
  /\ Goes(b, [h[b] EXCEPT !.at = "relay", !.pc = "no"])
  /\ excused' = (excused \/ \E a \in Tries : Joined(a, b) /\ r[a].pc = "open")
  /\ ReceiverRests /\ UNCHANGED <<toH, toR, direct, told, spent>>

(* The data channel opens here: the race is over, unless the timer won. *)
OpenH(b) ==
  /\ Linked(b) /\ h[b].pc = "ready"
  /\ Racing(h[b])
  /\ Goes(b, [h[b] EXCEPT !.at = "direct", !.pc = "open"])
  /\ direct' = Append(direct, FrameOf(h[b].to, "hdr", 0))
  /\ ReceiverRests /\ UNCHANGED <<answers, toH, toR, told, excused, spent>>

(* The last chunk and the end marker go out in one run. *)
SendChunk(b) ==
  /\ h[b].at = "relay"
  /\ LET n == h[b].next
         last == n + 1 >= ChunkCount(RelayBytes)
         chunk == IF n < ChunkCount(RelayBytes) THEN <<Frame("chunk", n)>> ELSE <<>>
     IN /\ toR' = toR \o chunk \o (IF last THEN <<Frame("done", 0)>> ELSE <<>>)
        /\ Goes(b, [h[b] EXCEPT !.next = n + 1, !.at = IF last THEN "receipt" ELSE @])
  /\ ReceiverRests /\ UNCHANGED <<answers, toH, direct, told, excused, spent>>

(* What goes to a connection the receiver dropped goes nowhere. *)
Feeds(b, t, n) == direct' = IF Linked(b) THEN Append(direct, FrameOf(h[b].to, t, n)) ELSE direct

SendDirect(b) ==
  /\ h[b].at = "direct"
  /\ LET n == h[b].next IN
     IF n < ChunkCount(DirectBytes)
     THEN Feeds(b, "chunk", n) /\ Goes(b, [h[b] EXCEPT !.next = n + 1])
     ELSE Feeds(b, "fin", 0) /\ Goes(b, [h[b] EXCEPT !.at = "flush"])
  /\ ReceiverRests /\ UNCHANGED <<answers, toH, toR, told, excused, spent>>

Underway(b) == Linked(b) /\ \E i \in DOMAIN direct : direct[i].of = h[b].to

(* Everything queued has left, or the peer hung up first: close, and wait. *)
Flushed(b) ==
  /\ h[b].at = "flush"
  /\ ~Underway(b)
  /\ Closes(b)
  /\ Goes(b, [h[b] EXCEPT !.at = "receipt", !.pc = "no"])
  /\ ReceiverRests /\ UNCHANGED <<toH, toR, direct, told, excused, spent>>

AbortH(b) ==
  /\ FinishH(b)
  /\ ToReceiver("error", 0)

(* The channel stalls, or closes before everything is queued. *)
Breaks(b) ==
  /\ h[b].at \in {"direct", "flush"}
  /\ h[b].at = "flush" => Underway(b) \/ ~Linked(b)
  /\ AbortH(b)
  /\ excused' = TRUE
  /\ ReceiverRests /\ UNCHANGED <<toH, direct, told, spent>>

ConfirmedAnyway(t) == TRUE             \* a plausible bug: "Sent" is handed to a socket
Confirmed(t) == t.ok

(* awaitReceipt(): the receiver's word, or the deadline. *)
Receipt(b) ==
  /\ h[b].at = "receipt"
  /\ FinishH(b)
  /\ told' = (told \/ Confirmed(h[b]))
  /\ ReceiverRests /\ UNCHANGED <<toH, toR, direct, excused, spent>>

CancelH ==
  /\ hLive # 0
  /\ spent.cancels < MaxCancels
  /\ Spend("cancels")
  /\ FinishH(hLive)
  /\ ToReceiver("cancel", 0)
  /\ excused' = TRUE
  /\ ReceiverRests /\ UNCHANGED <<toH, direct, told>>

------------------------------------------------------------------------------
(* Frames that reach the holder *)

(* A repeat of a request under way is the channel's retry, not an asker. *)
OnRepeatRefused == ToReceiver("error", 0) /\ UNCHANGED <<h, hLive, spent>>  \* a plausible bug
OnRepeat == UNCHANGED <<h, hLive, toR, spent>>

OnReq ==
  IF hLive # 0 THEN OnRepeat
  ELSE IF spent.serves >= MaxServes THEN UNCHANGED <<h, hLive, toR, spent>>
  ELSE /\ hLive' = spent.serves + 1
       /\ h' = [h EXCEPT ![spent.serves + 1] = [NoServe EXCEPT !.at = "prompt"]]
       /\ Spend("serves")
       /\ UNCHANGED toR

(* setRemoteDescription() takes its time: an answer that comes meanwhile   *)
(* waits behind the one being applied.  Once one is, the next is ignored.   *)
OnAnswer(call) ==
  /\ answers' = IF h[hLive].pc = "up" THEN [answers EXCEPT ![hLive] = Append(@, call)]
                                       ELSE answers
  /\ UNCHANGED <<h, hLive, toR, spent>>

OnOk == Goes(hLive, [h[hLive] EXCEPT !.ok = TRUE]) /\ UNCHANGED <<toR, spent>>

HolderTakes(f) ==
  IF f.t = "req" THEN OnReq /\ UNCHANGED answers
  ELSE IF hLive = 0 THEN UNCHANGED <<h, hLive, answers, toR, spent>>
  ELSE CASE f.t = "answer" -> OnAnswer(f.of)
         [] f.t = "ok"     -> OnOk /\ UNCHANGED answers
         [] f.t \in {"cancel", "error"} -> FinishH(hLive) /\ UNCHANGED <<toR, spent>>

DeliverH ==
  /\ toH # <<>>
  /\ HolderTakes(Head(toH))
  /\ toH' = Tail(toH)
  /\ ReceiverRests /\ UNCHANGED <<direct, told, excused>>

Applies(b) == answers' = [answers EXCEPT ![b] = Tail(@)]

(* The answer to another offer leaves a connection that cannot open.  One   *)
(* whose connection was closed meanwhile comes to nothing.                  *)
Applied(b) ==
  /\ h[b].pc = "up" /\ answers[b] # <<>>
  /\ LET call == Head(answers[b])
     IN Goes(b, [h[b] EXCEPT !.pc = IF call[1] = b THEN "ready" ELSE "wrong", !.to = call])
  /\ Applies(b)
  /\ ReceiverRests /\ UNCHANGED <<toH, toR, direct, told, excused, spent>>

(* The answer behind it is rejected, which fails the transfer that is live, *)
(* unless that one took to the relay.                                       *)
Rejected(b) ==
  /\ h[b].pc \in {"wrong", "ready", "open"} /\ answers[b] # <<>>
  /\ \/ /\ hLive # 0 => h[hLive].at \in {"relay", "receipt"}
        /\ Applies(b) /\ UNCHANGED <<h, hLive, excused>>
     \/ /\ hLive # 0 /\ h[hLive].at # "relay"
        /\ StopH(hLive) /\ excused' = TRUE
        /\ answers' = [answers EXCEPT ![b] = Tail(@), ![hLive] = <<>>]
  /\ ReceiverRests /\ UNCHANGED <<toH, toR, direct, told, spent>>

------------------------------------------------------------------------------
(* The receiver's end of the direct connection, which may outlive the entry *)
(* of its transfer in `live`.                                               *)

OpenR(a) ==
  /\ r[a].pc = "up" /\ r[a].path # "relay"
  /\ Joined(a, r[a].own[1])
  /\ r' = [r EXCEPT ![a].pc = "open", ![a].path = "direct"]
  /\ HolderRests /\ UNCHANGED <<rLive, tile, held, toH, toR, direct, excused, spent>>

(* Its own copy of the race: the connection goes, the transfer stays. *)
GivesUp(a) ==
  /\ r[a].pc = "up" /\ r[a].path = "none"
  /\ r' = [r EXCEPT ![a].pc = "no"]
  /\ excused' = (excused \/ \E b \in Serves : Joined(a, b) /\ h[b].pc = "open")
  /\ HolderRests /\ UNCHANGED <<rLive, tile, held, toH, toR, direct, spent>>

(* The header's plan replaces the relay's; the last chunk completes, and   *)
(* the end marker finds nothing left to do.                                *)
TakesDirect(t, f) ==
  CASE f.t = "hdr" -> Settle([t EXCEPT !.plan = DirectBytes, !.got = {}, !.at = "ready"])
    [] f.t = "chunk" -> Settle([t EXCEPT !.got = @ \cup {f.n}])
    [] f.t = "fin" -> t

Reads(a, call) == r[a].pc = "open" /\ r[a].own = call /\ r[a].at \in {"asked", "ready"}

ReadDirect ==
  /\ direct # <<>>
  /\ LET f == Head(direct) IN
     /\ ~\E a \in Tries : r[a].pc = "up" /\ r[a].own = f.of /\ Joined(a, f.of[1])
     /\ r' = [a \in Tries |-> IF Reads(a, f.of) THEN TakesDirect(r[a], f) ELSE r[a]]
  /\ direct' = Tail(direct)
  /\ HolderRests /\ UNCHANGED <<rLive, tile, held, toH, toR, excused, spent>>

(* The holder's end is closed, and what it had not delivered is lost. *)
ClosedUnderR(a) ==
  /\ r[a].pc = "open" /\ r[a].path = "direct"
  /\ r[a].at \in {"asked", "ready"}
  /\ h[r[a].own[1]].pc = "no"
  /\ AbortR(a)
  /\ HolderRests /\ UNCHANGED <<held, toR, direct, excused, spent>>

------------------------------------------------------------------------------
(* The relay *)

LosesOne ==
  /\ spent.lost < MaxLost
  /\ Spend("lost")
  /\ \/ toH # <<>> /\ toH' = Tail(toH) /\ UNCHANGED toR
     \/ toR # <<>> /\ toR' = Tail(toR) /\ UNCHANGED toH
  /\ excused' = TRUE
  /\ HolderRests /\ ReceiverRests /\ UNCHANGED direct

RepeatsOne ==
  /\ spent.twice < MaxTwice
  /\ Spend("twice")
  /\ \/ toH # <<>> /\ toH' = <<Head(toH)>> \o toH /\ UNCHANGED toR
     \/ toR # <<>> /\ toR' = <<Head(toR)>> \o toR /\ UNCHANGED toH
  /\ HolderRests /\ ReceiverRests /\ UNCHANGED <<direct, excused>>

------------------------------------------------------------------------------
(* The specification *)

Init ==
  /\ h = [b \in Serves |-> NoServe] /\ hLive = 0
  /\ answers = [b \in Serves |-> <<>>]
  /\ r = [a \in Tries |-> NoTry] /\ rLive = 0
  /\ tile = "idle" /\ held = FALSE
  /\ toH = <<>> /\ toR = <<>> /\ direct = <<>>
  /\ told = FALSE /\ excused = FALSE
  /\ spent = [tries |-> 0, serves |-> 0, lost |-> 0, twice |-> 0, cancels |-> 0,
              calls |-> 0]

Works(b) ==
  Accept(b) \/ OpenH(b) \/ SendChunk(b) \/ SendDirect(b) \/ Flushed(b) \/ Applied(b)
Expires(b) == Deny(b) \/ ToRelay(b) \/ Breaks(b) \/ Receipt(b)

Next ==
  \/ Request \/ CancelR \/ CancelH
  \/ DeliverR \/ DeliverH \/ ReadDirect \/ LosesOne \/ RepeatsOne
  \/ \E a \in Tries : Deadline(a) \/ Idle(a) \/ Verified(a)
                      \/ OpenR(a) \/ GivesUp(a) \/ ClosedUnderR(a)
  \/ \E b \in Serves : Approve(b) \/ Works(b) \/ Expires(b) \/ Rejected(b)

Spec == Init /\ [][Next]_vars

(* Frames arrive, digests finish, answers are applied and every timer fires in the end; nobody  *)
(* need approve, ask again or cancel.                                      *)
FairSpec ==
  /\ Spec
  /\ WF_vars(DeliverR) /\ WF_vars(DeliverH) /\ WF_vars(ReadDirect)
  /\ \A a \in Tries : WF_vars(Deadline(a)) /\ WF_vars(Idle(a)) /\ WF_vars(Verified(a))
  /\ \A b \in Serves : WF_vars(Works(b)) /\ WF_vars(Expires(b))

------------------------------------------------------------------------------
(* Properties *)

(* Types: what the holder, the receiver and the wires hold.                 *)
TypeOK ==
  /\ \A b \in Serves :
       /\ h[b].at \in {"none", "prompt", "digest", "race", "relay", "direct", "flush",
                       "receipt", "over"}
       /\ h[b].pc \in {"no", "up", "wrong", "ready", "open"}
       /\ h[b].at \in {"direct", "flush"} <=> h[b].pc = "open"
  /\ \A a \in Tries :
       /\ r[a].at \in {"none", "asked", "ready", "verify", "over"}
       /\ r[a].plan \in {0, RelayBytes, DirectBytes}
       /\ r[a].plan # 0 => r[a].got \subseteq 0..(ChunkCount(r[a].plan) - 1)
  /\ hLive \in 0..MaxServes /\ rLive \in 0..MaxTries
  /\ tile \in {"idle", "busy", "done", "error", "cancelled"}

(* transfer.js:624-630: "Sent" without a reservation is the receiver's own  *)
(* word: it has the whole file.                                             *)
SentMeansHeld == told => held

(* transfer.js:364-372, 519: a transfer that was cancelled while its user  *)
(* was asked, or while its digest was computed, is never accepted and never *)
(* sends the file.  (Its prompt, answered late, may still deny.)            *)
StoppedStaysStopped ==
  \A b \in Serves : h[b].done => h[b].at \in {"prompt", "digest", "over"}

(* transfer.js:355-358, 807: frames delivered twice fail nothing: unless    *)
(* something was lost, cancelled, denied or timed out, no error is shown.   *)
(* Not so of a second answer that comes while the first is being applied.   *)
HarmlessRepeats == tile = "error" => excused

(* transfer.js:355-372, 624-630: what a user is told is so: "Sent" only of  *)
(* what arrived, an error only where something went wrong, and no file of   *)
(* what was stopped.                                                        *)
EndsHonestly == TypeOK /\ SentMeansHeld /\ StoppedStaysStopped /\ HarmlessRepeats

(* transfer.js:425-429: the race has one winner: a file that goes through  *)
(* the relay never also goes directly, nor the other way round.             *)
OnePath == [][\A b \in Serves : {h[b].at, h'[b].at} # {"relay", "direct"}]_vars

(* What is kept is the whole file, of one plan.                             *)
HeldIsWhole == [][\A a \in Tries : r[a].at = "verify" /\ r'[a].at = "over"
                   => r[a].plan # 0 /\ r[a].got = 0..(ChunkCount(r[a].plan) - 1)]_vars

(* transfer.js:425-429, 895-930: a file arrives whole, by one path.         *)
ArrivesWhole == OnePath /\ HeldIsWhole

(* transfer.js:206-216, 1147-1153: whatever is lost, no request and no      *)
(* transfer hangs: each ends, in a file, an error or a cancel.              *)
NothingHangs == []<>( /\ \A a \in Tries : r[a].at \in {"none", "over"}
                      /\ \A b \in Serves : h[b].at \in {"none", "over"} )

(* transfer.js:804-807: "A second answer is the SSE transport's             *)
(* at-least-once retry": it is never applied to a connection that has one.  *)
AnsweredOnce == \A b \in Serves : Len(answers[b]) <= 1

(* transfer.js:155-156: "Every entry owns timers and maybe an               *)
(* RTCPeerConnection, so every exit route goes through finish(), which      *)
(* deletes from here": a transfer under way is one that cancelAll() finds.  *)
EveryTransferIsLive ==
  \A b \in Serves : h[b].at \notin {"none", "over"} /\ ~h[b].done => hLive = b

==============================================================================
