--------------------------- MODULE TransferProofs ---------------------------
(***************************************************************************)
(* What module Transfer promises, proved for every size of the file and of *)
(* its pieces, and for every number of requests, of frames lost or repeated *)
(* and of cancels: that both ends tell their users the truth, and that what *)
(* arrives is whole.                                                       *)
(*                                                                         *)
(* The hard part is that no error is shown as long as nothing was lost,    *)
(* cancelled, denied or timed out, and no second answer came while the      *)
(* first was being applied.  Then one request was made; the relay carries  *)
(* an accept before any piece and every piece before the end; and what the  *)
(* relay carries never follows an offer whose race is still open, so that  *)
(* a connection that opened is never told by a relayed piece that it lost. *)
(***************************************************************************)
EXTENDS Transfer, SequenceTheorems, TLAPS

-----------------------------------------------------------------------------
(* Queues *)

\* What is in a queue.
In(q) == {q[i] : i \in DOMAIN q}
\* A queue is led: each of A has one of B before it, or is one.
Led(q, A, B) == \A i \in DOMAIN q : q[i] \in A => \E j \in 1..i : q[j] \in B
\* In a queue nothing of B comes after one of A.
Last(q, A, B) == \A i, j \in DOMAIN q : i < j /\ q[i] \in A => q[j] \notin B

-----------------------------------------------------------------------------
(* The inductive invariant *)

\* A connection, or none.
Calls == Nat \X Nat
\* What is sent to the holder, to the receiver, and through the data channel.
HolderFrames == [t : {"req", "cancel", "error", "ok", "answer"}, n : Nat, of : Calls]
ReceiverFrames == [t : {"accept", "offer", "chunk", "done", "deny", "error", "cancel"}, n : Nat, of : Calls]
DirectFrames == [t : {"hdr", "chunk", "fin"}, n : Nat, of : Calls]
\* What a relayed file is made of.
Data == {f \in ReceiverFrames : f.t \in {"chunk", "done"}}
Accepts == {f \in ReceiverFrames : f.t = "accept"}
Dones == {f \in ReceiverFrames : f.t = "done"}
Pieces(n) == {f \in ReceiverFrames : f.t = "chunk" /\ f.n = n}
Offers(s) == {f \in ReceiverFrames : f.t = "offer" /\ f.n \in s}
\* What goes through one connection.
Through(c) == {f \in DirectFrames : f.of = c}
Headers(c) == {f \in DirectFrames : f.of = c /\ f.t = "hdr"}
PiecesOf(c, n) == {f \in DirectFrames : f.of = c /\ f.t = "chunk" /\ f.n = n}
\* How many pieces the file has, through the relay and directly.
Relayed == ChunkCount(RelayBytes)
Streamed == ChunkCount(DirectBytes)

\* The stages of a holder's transfer, and those before its offer.
Stages == {"none", "prompt", "digest", "race", "relay", "direct", "flush", "receipt", "over"}
Early == {"none", "prompt", "digest"}
Directly == {"race", "direct", "flush"}
ServeRec == [at : Stages, done : BOOLEAN, next : Nat, pc : {"no", "up", "wrong", "ready", "open"},
             to : Calls, ok : BOOLEAN]
TryRec == [at : {"none", "asked", "ready", "verify", "over"}, path : {"none", "relay", "direct"},
           plan : {0, RelayBytes, DirectBytes}, got : SUBSET Nat, pc : {"no", "up", "open"}, own : Calls]
SpentRec == [{"tries", "serves", "lost", "twice", "cancels", "calls"} -> Nat]
\* Those whose offer was made.
Offered == {b \in Serves : h[b].at \notin Early}
\* A connection that an answer of the receiver made.
MadeOf(c, offered, calls) == c[1] \in offered /\ c[2] \in 1..calls
Made(c) == MadeOf(c, Offered, spent.calls)
\* The frames under way are of this file and of what was offered and answered.
Wires ==
    /\ toH \in Seq(HolderFrames) /\ toR \in Seq(ReceiverFrames) /\ direct \in Seq(DirectFrames)
    /\ \A f \in In(toR) : (f.t = "chunk" => f.n < Relayed) /\ (f.t = "offer" => f.n \in Offered)
    /\ \A f \in In(toH) : f.t = "answer" => Made(f.of)
    /\ \A f \in In(direct) : f.t = "chunk" => f.n < Streamed
\* One transfer of the holder.
ServeOk(b, t, serves, calls) ==
    /\ t \in ServeRec
    /\ t.at \in {"direct", "flush"} <=> t.pc = "open"
    /\ t.pc # "no" => t.at \in Directly
    /\ t.done => t.at \in {"prompt", "digest", "over"}
    /\ b > serves <=> t.at = "none"
    /\ t.at \in Early \cup {"race"} => t.next = 0
    /\ t.at \in Early \/ t.pc = "up" => t.to = NoCall
    /\ t.at = "flush" => t.next >= Streamed
    /\ t.pc \in {"ready", "open"} => t.to[1] = b
    /\ t.to = NoCall \/ t.to[2] \in 1..calls
\* The holder.
Holder ==
    /\ h \in [Serves -> ServeRec]
    /\ \A b \in Serves : ServeOk(b, h[b], spent.serves, spent.calls)
    /\ hLive \in 0..MaxServes /\ hLive <= spent.serves
    /\ hLive # 0 => ~h[hLive].done
\* One transfer of the receiver.
TryOk(a, t, tries) ==
    /\ t \in TryRec
    /\ a > tries => t = NoTry
    /\ t.pc = "up" => t.path = "none"
    /\ t.pc = "open" => t.path = "direct"
    /\ t.at \in {"none", "over"} => t.pc = "no"
    /\ t.plan # 0 => t.got \subseteq 0..(ChunkCount(t.plan) - 1)
    /\ t.at \in {"asked", "ready"} =>
         /\ ~Complete(t)
         /\ t.plan = 0 => t.got = {}
         /\ t.path = "none" => t.plan = 0
         /\ t.path = "direct" => t.pc = "open" /\ t.plan \in {0, DirectBytes}
    /\ t.at = "asked" => t.plan = 0
    /\ t.at = "verify" => Complete(t)
\* The receiver.
Receiver ==
    /\ r \in [Tries -> TryRec]
    /\ \A a \in Tries : TryOk(a, r[a], spent.tries)
    /\ \A a \in Tries : r[a].pc # "no" => Made(r[a].own)
    /\ rLive \in 0..MaxTries /\ rLive <= spent.tries
    /\ rLive # 0 => r[rLive].at \in {"asked", "ready", "verify"}
\* What is counted, shown and remembered.
Counts ==
    /\ spent \in SpentRec /\ spent.tries <= MaxTries /\ spent.serves <= MaxServes
    /\ tile \in {"idle", "busy", "done", "error", "cancelled"}
    /\ held \in BOOLEAN /\ told \in BOOLEAN /\ excused \in BOOLEAN

\* A receiver that reads its data channel, or will.
Reading(a) == r[a].pc = "open" /\ r[a].at \in {"asked", "ready"}
Awaiting(a) == r[a].at \in {"asked", "ready"} /\ r[a].plan = 0
                /\ (r[a].pc = "open" \/ \E b \in Serves : Joined(a, b))
\* What is in the data channel went through a connection, its header first, and once.
Channel ==
    /\ \A f \in In(direct) : /\ f.of[1] \in Serves
                             /\ h[f.of[1]].to = f.of /\ h[f.of[1]].pc \in {"open", "no"}
    /\ \A c \in Calls : Last(direct, Headers(c), Headers(c))
    /\ \A a \in Tries : Awaiting(a) => Led(direct, Through(r[a].own), Headers(r[a].own))
    /\ \A a \in Tries, b \in Serves : Awaiting(a) /\ Joined(a, b) /\ h[b].pc = "open"
          => In(direct) \cap Headers(r[a].own) # {}
    /\ \A a \in Tries : Reading(a) /\ r[a].plan # 0 => In(direct) \cap Headers(r[a].own) = {}
    /\ \A a \in Tries, b \in Serves : Joined(a, b) /\ Reading(a) /\ r[a].plan # 0 => h[b].pc = "open"
    /\ \A a \in Tries : Reading(a) => h[r[a].own[1]].to = r[a].own
\* The holder is told nothing that is not so.
Receipts ==
    /\ \A f \in In(toH) : f.t = "ok" => held
    /\ \A b \in Serves : h[b].ok => held
    /\ told => held

\* As long as nothing went wrong: one request was made, and nothing was refused.
Calm ==
    /\ tile # "error"
    /\ \A f \in In(toR) : f.t \in {"accept", "offer", "chunk", "done"}
    /\ \A f \in In(toH) : f.t \in {"req", "answer", "ok"}
    /\ spent.tries <= 1
    /\ spent.tries = 1 => rLive = 1 \/ held
    /\ spent.tries = 0 => toH = <<>> /\ toR = <<>> /\ direct = <<>> /\ \A b \in Serves : h[b].at = "none"
    /\ \A a \in Tries : r[a].at \in {"asked", "ready", "verify"} => a = rLive
    /\ \A b \in Serves : h[b].at \notin {"none", "over"} => hLive = b
Pending == rLive # 0 /\ r[rLive].at \in {"asked", "ready"}
\* What the relay carries then is accepted first, and complete when it is done.
Ready(b) == h[b].at \in {"race", "relay"} => r[rLive].at = "ready" \/ In(toR) \cap Accepts # {}
Whole(n) == n \in r[rLive].got \/ Led(toR, Dones, Pieces(n))
Sent(b) == h[b].at = "relay" => \A n \in 0..(h[b].next - 1) : n \in r[rLive].got \/ In(toR) \cap Pieces(n) # {}
Relaying == (\E b \in Serves : h[b].at = "relay") \/ In(toR) \cap Data # {}
ByRelay == Pending =>
    /\ r[rLive].at = "ready" \/ Led(toR, Data, Accepts)
    /\ \A b \in Serves : Ready(b) /\ Sent(b)
    /\ \A n \in 0..(Relayed - 1) : Whole(n)
    /\ Relaying => r[rLive].pc # "open" /\ r[rLive].path # "direct"
    /\ r[rLive].path = "relay" => r[rLive].plan = RelayBytes
\* What goes directly has nothing of the relay's after its offer, and is complete at its end.
Racers == {b \in Serves : h[b].at \in Directly}
Fed(b) == h[b].pc = "open" =>
    /\ Joined(rLive, b)
    /\ \A n \in 0..(h[b].next - 1) : n < Streamed =>
          (r[rLive].plan # 0 /\ n \in r[rLive].got) \/ In(direct) \cap PiecesOf(r[rLive].own, n) # {}
ByChannel == Pending =>
    /\ Last(toR, Offers(Racers), Data)
    /\ r[rLive].pc # "no" /\ r[rLive].own[1] \in Racers => In(toR) \cap Data = {}
    /\ r[rLive].pc = "open" => Joined(rLive, r[rLive].own[1])
    /\ \A b \in Serves : Fed(b)
\* What holds whatever happens.
Solid == Counts /\ Wires /\ Holder /\ Receiver /\ Channel /\ Receipts
\* What holds as long as nothing went wrong.
Quiet == Calm /\ ByRelay /\ ByChannel
\* The answers under way are of connections that the receiver made.
Answers == {c \in Calls : c[2] \in 1..spent.calls}
Waiting ==
    /\ answers \in [Serves -> Seq(Calls)]
    /\ \A b \in Serves : In(answers[b]) \subseteq Answers
\* The inductive invariant.
TransferInv == Solid /\ Waiting /\ (~excused => Quiet)


-----------------------------------------------------------------------------
(* What is added to a queue, taken from it, or repeated *)

\* A frame is added.
LEMMA AddIn ==
    ASSUME NEW S, NEW q \in Seq(S), NEW e \in S
    PROVE  /\ Append(q, e) \in Seq(S) /\ In(Append(q, e)) = In(q) \cup {e} /\ Append(q, e) # <<>>
           /\ DOMAIN q = 1..Len(q) /\ Len(q) \in Nat /\ DOMAIN Append(q, e) = 1..(Len(q) + 1)
           /\ \A i \in DOMAIN q : Append(q, e)[i] = q[i]
           /\ Append(q, e)[Len(q) + 1] = e
<1> DEFINE p == Append(q, e)
<1>1. /\ p \in Seq(S) /\ Len(p) = Len(q) + 1 /\ Len(q) \in Nat
      /\ \A i \in 1..Len(q) : p[i] = q[i]
      /\ p[Len(q) + 1] = e
    BY AppendProperties, LenProperties
<1>2. DOMAIN q = 1..Len(q) /\ DOMAIN p = 1..Len(p)
    BY <1>1, LenProperties
<1> HIDE DEF p
<1>3. \A i \in DOMAIN p : i \in DOMAIN q \/ i = Len(q) + 1
    BY <1>1, <1>2
<1>4. \A i \in DOMAIN q : i \in DOMAIN p
    BY <1>1, <1>2
<1>5. Len(q) + 1 \in DOMAIN p
    BY <1>1, <1>2
<1>6. In(p) = In(q) \cup {e}
    BY <1>1, <1>2, <1>3, <1>4, <1>5 DEF In
<1>7. p # <<>>
    BY <1>5, EmptySeq
<1> QED
    BY <1>1, <1>2, <1>6, <1>7 DEF p

\* What leads still does.
LEMMA AddLed ==
    ASSUME NEW S, NEW q \in Seq(S), NEW e \in S, NEW A, NEW B,
           Led(q, A, B), e \notin A \/ e \in B \/ In(q) \cap B # {}
    PROVE  Led(Append(q, e), A, B)
<1> DEFINE p == Append(q, e)
<1>1. /\ DOMAIN q = 1..Len(q) /\ Len(q) \in Nat /\ DOMAIN p = 1..(Len(q) + 1)
      /\ \A i \in DOMAIN q : p[i] = q[i]
      /\ p[Len(q) + 1] = e
    BY AddIn
<1> HIDE DEF p
<1>2. SUFFICES ASSUME NEW i \in DOMAIN p, p[i] \in A PROVE \E j \in 1..i : p[j] \in B
    BY DEF Led, p
<1>3. CASE i \in DOMAIN q
    <2>1. PICK j \in 1..i : q[j] \in B
        BY <1>1, <1>2, <1>3 DEF Led
    <2>2. j \in DOMAIN q
        BY <1>1, <1>3, <2>1
    <2> QED
        BY <1>1, <2>1, <2>2
<1>4. CASE i \notin DOMAIN q
    <2>1. i = Len(q) + 1 /\ p[i] = e
        BY <1>1, <1>4
    <2>2. CASE e \in B
        BY <1>1, <2>1, <2>2
    <2>3. CASE In(q) \cap B # {}
        <3>1. PICK j \in DOMAIN q : q[j] \in B
            BY <2>3 DEF In
        <3>2. j \in 1..i /\ p[j] \in B
            BY <1>1, <2>1, <3>1
        <3> QED
            BY <3>2
    <2> QED
        BY <1>2, <2>1, <2>2, <2>3
<1> QED
    BY <1>3, <1>4

\* What is last still is.
LEMMA AddLast ==
    ASSUME NEW S, NEW q \in Seq(S), NEW e \in S, NEW A, NEW B,
           Last(q, A, B), e \notin B \/ In(q) \cap A = {}
    PROVE  Last(Append(q, e), A, B)
<1> DEFINE p == Append(q, e)
<1>1. /\ DOMAIN q = 1..Len(q) /\ Len(q) \in Nat /\ DOMAIN p = 1..(Len(q) + 1)
      /\ \A i \in DOMAIN q : p[i] = q[i]
      /\ p[Len(q) + 1] = e
    BY AddIn
<1> HIDE DEF p
<1>2. SUFFICES ASSUME NEW i \in DOMAIN p, NEW j \in DOMAIN p, i < j, p[i] \in A PROVE p[j] \notin B
    BY DEF Last, p
<1>3. i \in DOMAIN q
    BY <1>1, <1>2
<1>4. CASE j \in DOMAIN q
    BY <1>1, <1>2, <1>3, <1>4 DEF Last
<1>5. CASE j \notin DOMAIN q
    <2>1. p[j] = e
        BY <1>1, <1>5
    <2>2. q[i] \in In(q) \cap A
        BY <1>1, <1>2, <1>3 DEF In
    <2> QED
        BY <2>1, <2>2
<1> QED
    BY <1>4, <1>5

\* The first frame is taken.
LEMMA TakeIn ==
    ASSUME NEW S, NEW q \in Seq(S), q # <<>>
    PROVE  /\ Head(q) \in S /\ Tail(q) \in Seq(S) /\ In(q) = In(Tail(q)) \cup {Head(q)}
           /\ Head(q) \in In(q) /\ In(Tail(q)) \subseteq In(q)
           /\ Head(q) = q[1] /\ 1 \in DOMAIN q /\ Len(q) \in Nat /\ DOMAIN q = 1..Len(q)
           /\ DOMAIN Tail(q) = 1..(Len(q) - 1)
           /\ \A i \in DOMAIN Tail(q) : Tail(q)[i] = q[i + 1] /\ i + 1 \in DOMAIN q
<1>1. Len(q) \in Nat /\ Len(q) # 0 /\ DOMAIN q = 1..Len(q)
    BY EmptySeq, LenProperties
<1> DEFINE p == Tail(q)
<1>2. /\ p \in Seq(S) /\ Len(p) = Len(q) - 1 /\ Head(q) = q[1]
      /\ \A i \in 1..Len(p) : p[i] = q[i + 1]
    BY <1>1, HeadTailProperties
<1>3. DOMAIN p = 1..(Len(q) - 1)
    BY <1>2, LenProperties
<1> HIDE DEF p
<1>4. 1 \in DOMAIN q /\ q[1] \in S
    BY <1>1, LenProperties, ElementOfSeq
<1>5. \A i \in DOMAIN p : p[i] = q[i + 1] /\ i + 1 \in DOMAIN q
    BY <1>1, <1>2, <1>3
<1>6. \A i \in DOMAIN q : i = 1 \/ (i - 1 \in DOMAIN p /\ q[i] = p[i - 1])
    <2> SUFFICES ASSUME NEW i \in DOMAIN q, i # 1 PROVE i - 1 \in DOMAIN p /\ q[i] = p[i - 1]
        OBVIOUS
    <2>1. i - 1 \in DOMAIN p /\ (i - 1) + 1 = i
        BY <1>1, <1>3
    <2> QED
        BY <1>5, <2>1
<1>7. In(q) = In(p) \cup {q[1]}
    BY <1>4, <1>5, <1>6 DEF In
<1> QED
    BY <1>1, <1>2, <1>3, <1>4, <1>5, <1>7 DEF p

\* What leads still does, unless it was taken.
LEMMA TakeLed ==
    ASSUME NEW S, NEW q \in Seq(S), q # <<>>, NEW A, NEW B, Led(q, A, B)
    PROVE  /\ Head(q) \in A => Head(q) \in B
           /\ Head(q) \notin B => Led(Tail(q), A, B)
<1> DEFINE p == Tail(q)
<1>1. /\ Head(q) = q[1] /\ 1 \in DOMAIN q /\ Len(q) \in Nat /\ DOMAIN q = 1..Len(q)
      /\ DOMAIN p = 1..(Len(q) - 1)
      /\ \A i \in DOMAIN p : p[i] = q[i + 1] /\ i + 1 \in DOMAIN q
    BY TakeIn
<1> HIDE DEF p
<1>2. Head(q) \in A => Head(q) \in B
    <2>1. \A j \in 1..1 : j = 1
        OBVIOUS
    <2> QED
        BY <1>1, <2>1 DEF Led
<1>3. ASSUME q[1] \notin B, NEW i \in DOMAIN p, p[i] \in A PROVE \E j \in 1..i : p[j] \in B
    <2>1. PICK k \in 1..(i + 1) : q[k] \in B
        BY <1>1, <1>3 DEF Led
    <2>2. k # 1
        BY <1>3, <2>1
    <2>3. k - 1 \in 1..i /\ k - 1 \in DOMAIN p /\ (k - 1) + 1 = k
        BY <1>1, <2>1, <2>2
    <2> QED
        BY <1>1, <2>1, <2>3
<1> QED
    BY <1>1, <1>2, <1>3 DEF Led, p

\* What is last still is, and what was behind the first still is not of it.
LEMMA TakeLast ==
    ASSUME NEW S, NEW q \in Seq(S), q # <<>>, NEW A, NEW B, Last(q, A, B)
    PROVE  /\ Last(Tail(q), A, B)
           /\ Head(q) \in A => In(Tail(q)) \cap B = {}
<1> DEFINE p == Tail(q)
<1>1. /\ Head(q) = q[1] /\ 1 \in DOMAIN q /\ Len(q) \in Nat /\ DOMAIN q = 1..Len(q)
      /\ DOMAIN p = 1..(Len(q) - 1)
      /\ \A i \in DOMAIN p : p[i] = q[i + 1] /\ i + 1 \in DOMAIN q
    BY TakeIn
<1> HIDE DEF p
<1>2. \A i, j \in DOMAIN p : i < j => i + 1 < j + 1
    BY <1>1
<1>3. Last(p, A, B)
    BY <1>1, <1>2 DEF Last
<1>4. \A i \in DOMAIN p : 1 < i + 1
    BY <1>1
<1>5. Head(q) \in A => \A i \in DOMAIN p : p[i] \notin B
    BY <1>1, <1>4 DEF Last
<1>6. Head(q) \in A => In(p) \cap B = {}
    BY <1>5 DEF In
<1> QED
    BY <1>3, <1>6 DEF p

\* The first frame is repeated.
LEMMA TwiceIn ==
    ASSUME NEW S, NEW q \in Seq(S), q # <<>>
    PROVE  /\ <<Head(q)>> \o q \in Seq(S) /\ In(<<Head(q)>> \o q) = In(q) /\ <<Head(q)>> \o q # <<>>
           /\ Head(q) = q[1] /\ 1 \in DOMAIN q /\ Len(q) \in Nat /\ DOMAIN q = 1..Len(q)
           /\ DOMAIN (<<Head(q)>> \o q) = 1..(Len(q) + 1)
           /\ (<<Head(q)>> \o q)[1] = q[1]
           /\ \A i \in DOMAIN q : (<<Head(q)>> \o q)[i + 1] = q[i]
<1>1. Head(q) \in S /\ Head(q) = q[1] /\ 1 \in DOMAIN q /\ Len(q) \in Nat /\ DOMAIN q = 1..Len(q)
    BY TakeIn
<1> DEFINE o == <<Head(q)>>
           p == o \o q
<1>2. o \in Seq(S) /\ Len(o) = 1 /\ o[1] = Head(q)
    BY <1>1
<1> HIDE DEF o
<1>3. /\ p \in Seq(S) /\ Len(p) = Len(o) + Len(q)
      /\ \A i \in 1..(Len(o) + Len(q)) : p[i] = IF i <= Len(o) THEN o[i] ELSE q[i - Len(o)]
    BY <1>2, ConcatProperties
<1>4. DOMAIN p = 1..Len(p)
    BY <1>3, LenProperties
<1> HIDE DEF p
<1>5. DOMAIN p = 1..(Len(q) + 1)
    BY <1>1, <1>2, <1>3, <1>4
<1>6. p[1] = q[1]
    BY <1>1, <1>2, <1>3
<1>7. \A i \in DOMAIN q : p[i + 1] = q[i] /\ i + 1 \in DOMAIN p
    <2> SUFFICES ASSUME NEW i \in DOMAIN q PROVE p[i + 1] = q[i] /\ i + 1 \in DOMAIN p
        OBVIOUS
    <2>1. i + 1 \in 1..(Len(o) + Len(q)) /\ ~(i + 1 <= Len(o)) /\ (i + 1) - Len(o) = i
        BY <1>1, <1>2
    <2> QED
        BY <1>2, <1>3, <1>4, <2>1
<1>8. \A i \in DOMAIN p : i = 1 \/ (i - 1 \in DOMAIN q /\ (i - 1) + 1 = i)
    BY <1>1, <1>5
<1>9. 1 \in DOMAIN p
    BY <1>1, <1>5
<1>10. In(p) = In(q)
    BY <1>1, <1>6, <1>7, <1>8, <1>9 DEF In
<1>11. p # <<>>
    BY <1>9, EmptySeq
<1> QED
    BY <1>1, <1>3, <1>5, <1>6, <1>7, <1>10, <1>11 DEF p, o

\* What leads still does.
LEMMA TwiceLed ==
    ASSUME NEW S, NEW q \in Seq(S), q # <<>>, NEW A, NEW B, Led(q, A, B)
    PROVE  Led(<<Head(q)>> \o q, A, B)
<1> DEFINE p == <<Head(q)>> \o q
<1>1. /\ 1 \in DOMAIN q /\ Len(q) \in Nat /\ DOMAIN q = 1..Len(q) /\ DOMAIN p = 1..(Len(q) + 1)
      /\ p[1] = q[1] /\ \A i \in DOMAIN q : p[i + 1] = q[i]
    BY TwiceIn
<1> HIDE DEF p
<1>2. SUFFICES ASSUME NEW i \in DOMAIN p, p[i] \in A PROVE \E j \in 1..i : p[j] \in B
    BY DEF Led, p
<1>3. CASE i = 1
    <2>1. q[1] \in B
        <3>1. \A j \in 1..1 : j = 1
            OBVIOUS
        <3> QED
            BY <1>1, <1>2, <1>3, <3>1 DEF Led
    <2> QED
        BY <1>1, <1>3, <2>1
<1>4. CASE i # 1
    <2>1. i - 1 \in DOMAIN q /\ (i - 1) + 1 = i
        BY <1>1, <1>4
    <2>2. PICK j \in 1..(i - 1) : q[j] \in B
        BY <1>1, <1>2, <2>1 DEF Led
    <2>3. j \in DOMAIN q /\ j + 1 \in 1..i
        BY <1>1, <2>1, <2>2
    <2> QED
        BY <1>1, <2>2, <2>3
<1> QED
    BY <1>3, <1>4

\* What is last still is.
LEMMA TwiceLast ==
    ASSUME NEW S, NEW q \in Seq(S), q # <<>>, NEW A, NEW B, Last(q, A, B), A \cap B = {}
    PROVE  Last(<<Head(q)>> \o q, A, B)
<1> DEFINE p == <<Head(q)>> \o q
<1>1. /\ 1 \in DOMAIN q /\ Len(q) \in Nat /\ DOMAIN q = 1..Len(q) /\ DOMAIN p = 1..(Len(q) + 1)
      /\ p[1] = q[1] /\ \A i \in DOMAIN q : p[i + 1] = q[i]
    BY TwiceIn
<1> HIDE DEF p
<1>2. SUFFICES ASSUME NEW i \in DOMAIN p, NEW j \in DOMAIN p, i < j, p[i] \in A PROVE p[j] \notin B
    BY DEF Last, p
<1>3. j - 1 \in DOMAIN q /\ (j - 1) + 1 = j /\ p[j] = q[j - 1]
    <2>1. j - 1 \in DOMAIN q /\ (j - 1) + 1 = j
        BY <1>1, <1>2
    <2> QED
        BY <1>1, <2>1
<1>4. CASE i = 1
    <2>1. q[1] \in A
        BY <1>1, <1>2, <1>4
    <2>2. CASE j - 1 = 1
        BY <1>3, <2>1, <2>2
    <2>3. CASE j - 1 # 1
        <3>1. 1 < j - 1
            BY <1>1, <1>3, <2>3
        <3> QED
            BY <1>1, <1>3, <2>1, <3>1 DEF Last
    <2> QED
        BY <2>2, <2>3
<1>5. CASE i # 1
    <2>1. i - 1 \in DOMAIN q /\ (i - 1) + 1 = i /\ i - 1 < j - 1
        BY <1>1, <1>2, <1>5
    <2>2. q[i - 1] \in A
        BY <1>1, <1>2, <2>1
    <2> QED
        BY <1>3, <2>1, <2>2 DEF Last
<1> QED
    BY <1>4, <1>5

\* An empty queue.
LEMMA NoneIn == ASSUME NEW S PROVE /\ <<>> \in Seq(S) /\ In(<<>>) = {}
                                   /\ \A A, B : Led(<<>>, A, B) /\ Last(<<>>, A, B)
<1>1. <<>> \in Seq(S) /\ DOMAIN <<>> = {}
    BY EmptySeq
<1> QED
    BY <1>1 DEF In, Led, Last

\* Nothing needs a lead that is not there.
LEMMA NoneLed == ASSUME NEW q, NEW A, NEW B, In(q) \cap A = {}
                 PROVE  Led(q, A, B) /\ Last(q, A, B)
    BY DEF In, Led, Last

-----------------------------------------------------------------------------
(* Pieces *)

\* A plan has so many pieces; a file that fits into one of two plans has as many in both.
LEMMA Pieced ==
    ASSUME NEW p \in Nat \ {0}
    PROVE  /\ ChunkCount(p) \in Nat
           /\ Size <= p => ChunkCount(p) <= 1
           /\ Size # 0 => ChunkCount(p) >= 1
<1> DEFINE x == Size + p - 1
           d == x \div p
<1>1. Size \in Nat /\ x \in Nat
    BY SizesAreNat
<1>2. d \in Int /\ p * d <= x /\ x < p * (d + 1)
    BY <1>1
<1>3. d >= 0
    <2>1. CASE d <= -1
        <3>1. p * (d + 1) <= 0
            BY <1>2, <2>1
        <3> QED
            BY <1>1, <1>2, <3>1
    <2> QED
        BY <1>2, <2>1
<1>4. Size <= p => d <= 1
    <2>1. CASE d >= 2
        <3>1. p * d >= p * 2
            BY <1>2, <2>1
        <3> QED
            BY <1>1, <1>2, <3>1
    <2> QED
        BY <1>2, <2>1
<1>5. Size # 0 => d >= 1
    <2>1. CASE d = 0
        <3>1. p * (d + 1) = p
            BY <2>1
        <3> QED
            BY <1>1, <1>2, <3>1
    <2> QED
        BY <1>2, <1>3, <2>1
<1> QED
    BY <1>2, <1>3, <1>4, <1>5 DEF ChunkCount

\* Both plans of this file.
LEMMA PlansAreNat ==
    /\ Relayed \in Nat /\ Streamed \in Nat
    /\ RelayBytes \in Nat \ {0} /\ DirectBytes \in Nat \ {0}
    /\ \A plan \in {RelayBytes, DirectBytes} : plan \in Nat /\ plan # 0 /\ ChunkCount(plan) \in Nat
    BY SizesAreNat, Pieced DEF Relayed, Streamed

\* A piece that fits is one of the plan's.
LEMMA FitsIn ==
    ASSUME NEW plan \in {RelayBytes, DirectBytes}, Fits(plan), NEW n \in Nat, n < Relayed
    PROVE  n \in 0..(ChunkCount(plan) - 1)
<1>1. plan \in Nat \ {0} /\ RelayBytes \in Nat \ {0} /\ Size \in Nat
    BY SizesAreNat
<1>2. CASE plan = RelayBytes
    BY <1>2, PlansAreNat DEF Relayed
<1>3. CASE Size <= plan /\ Size <= RelayBytes
    <2>1. ChunkCount(RelayBytes) <= 1 /\ ChunkCount(RelayBytes) \in Nat /\ ChunkCount(plan) \in Nat
        BY <1>1, <1>3, Pieced
    <2>2. n = 0 /\ ChunkCount(RelayBytes) = 1
        BY <2>1 DEF Relayed
    <2>3. Size # 0
        <3>1. CASE Size = 0
            <4>1. RelayBytes * ((Size + RelayBytes - 1) \div RelayBytes) <= Size + RelayBytes - 1
                BY <1>1
            <4>2. RelayBytes * 1 <= RelayBytes - 1
                BY <1>1, <2>2, <3>1, <4>1 DEF ChunkCount
            <4> QED
                BY <1>1, <4>2
        <3> QED
            BY <3>1
    <2>4. ChunkCount(plan) >= 1
        BY <1>1, <2>3, Pieced
    <2> QED
        BY <2>1, <2>2, <2>4
<1> QED
    BY <1>2, <1>3 DEF Fits

-----------------------------------------------------------------------------
(* What a step leaves as it is *)

\* What is counted.
LEMMA Spends ==
    ASSUME Counts, NEW what \in {"tries", "serves", "lost", "twice", "cancels", "calls"}, Spend(what)
    PROVE  /\ spent' \in SpentRec /\ spent'[what] = spent[what] + 1 /\ spent[what] \in Nat
           /\ \A x \in {"tries", "serves", "lost", "twice", "cancels", "calls"} : x # what => spent'[x] = spent[x]
    BY DEF Counts, Spend, SpentRec

\* The counts that bound the numbers of the other parts.
LEMMA CountsAreNat ==
    ASSUME Counts
    PROVE  /\ spent.tries \in Nat /\ spent.serves \in Nat /\ spent.calls \in Nat
           /\ MaxTries \in Nat /\ MaxServes \in Nat
    BY BoundsAreNat DEF Counts, SpentRec

\* The holder's end, when it rests.
LEMMA HolderKeeps ==
    ASSUME Holder, UNCHANGED <<h, hLive>>, spent'.serves = spent.serves,
           spent.calls \in Nat, spent'.calls \in Nat, spent.calls <= spent'.calls
    PROVE  Holder' /\ Offered' = Offered
<1>1. \A b \in Serves : ServeOk(b, h[b], spent'.serves, spent'.calls)
    <2> SUFFICES ASSUME NEW b \in Serves PROVE ServeOk(b, h[b], spent'.serves, spent'.calls)
        OBVIOUS
    <2>1. ServeOk(b, h[b], spent.serves, spent.calls)
        BY DEF Holder
    <2>2. h[b].to = NoCall \/ h[b].to[2] \in 1..spent'.calls
        BY <2>1 DEF ServeOk
    <2> QED
        BY <2>1, <2>2 DEF ServeOk
<1>2. Offered' = Offered
    BY DEF Offered
<1> QED
    BY <1>1, <1>2 DEF Holder

\* The holder's end, when one of its transfers moves.
LEMMA HolderMoves ==
    ASSUME Counts, Holder, NEW b \in Serves, NEW t, h' = [h EXCEPT ![b] = t],
           ServeOk(b, t, spent.serves, spent.calls),
           hLive' \in {hLive, 0}, hLive' = b => ~t.done,
           spent'.serves = spent.serves, spent'.calls = spent.calls
    PROVE  /\ Holder' /\ h'[b] = t /\ \A x \in Serves : x # b => h'[x] = h[x]
           /\ (h[b].at \notin Early => t.at \notin Early) => Offered \subseteq Offered'
<1>1. h'[b] = t /\ \A x \in Serves : x # b => h'[x] = h[x]
    BY DEF Holder
<1>2. h' \in [Serves -> ServeRec]
    BY DEF Holder, ServeOk
<1>3. \A x \in Serves : ServeOk(x, h'[x], spent.serves, spent.calls)
    BY <1>1 DEF Holder
<1>4. hLive' \in 0..MaxServes /\ hLive' <= spent.serves
    BY CountsAreNat DEF Holder
<1>5. hLive' # 0 => ~h'[hLive'].done
    <2>1. hLive' # 0 => hLive' = hLive /\ hLive' \in Serves
        BY CountsAreNat DEF Holder, Serves
    <2>2. CASE hLive' = b
        BY <1>1, <2>2
    <2>3. CASE hLive' # b
        BY <1>1, <2>1, <2>3 DEF Holder
    <2> QED
        BY <2>2, <2>3
<1>6. Holder'
    BY <1>2, <1>3, <1>4, <1>5 DEF Holder
<1>7. (h[b].at \notin Early => t.at \notin Early) => Offered \subseteq Offered'
    BY <1>1 DEF Offered
<1> QED
    BY <1>1, <1>6, <1>7

\* What was made stays made.
LEMMA StaysMade ==
    ASSUME Offered \subseteq Offered', spent.calls \in Nat, spent'.calls \in Nat, spent.calls <= spent'.calls
    PROVE  \A c : Made(c) => MadeOf(c, Offered', spent'.calls)
    BY DEF Made, MadeOf

\* The receiver's end, when it rests.
LEMMA ReceiverKeeps ==
    ASSUME Receiver, UNCHANGED <<r, rLive>>, spent'.tries = spent.tries, Offered \subseteq Offered',
           spent.calls \in Nat, spent'.calls \in Nat, spent.calls <= spent'.calls
    PROVE  Receiver'
<1>1. \A a \in Tries : r[a].pc # "no" => MadeOf(r[a].own, Offered', spent'.calls)
    BY StaysMade DEF Receiver
<1> QED
    BY <1>1 DEF Receiver, Made

\* The receiver's end, when one of its transfers moves.
LEMMA ReceiverMoves ==
    ASSUME Counts, Receiver, NEW a \in Tries, NEW t, r' = [r EXCEPT ![a] = t],
           TryOk(a, t, spent.tries), spent'.tries = spent.tries,
           t.pc # "no" => MadeOf(t.own, Offered', spent'.calls),
           rLive' \in {rLive, 0}, rLive' = a => t.at \in {"asked", "ready", "verify"}, Offered' = Offered,
           spent'.calls \in Nat, spent.calls <= spent'.calls
    PROVE  Receiver' /\ r'[a] = t /\ \A x \in Tries : x # a => r'[x] = r[x]
<1>1. r'[a] = t /\ \A x \in Tries : x # a => r'[x] = r[x]
    BY DEF Receiver
<1>2. r' \in [Tries -> TryRec]
    BY DEF Receiver, TryOk
<1>3. \A x \in Tries : TryOk(x, r'[x], spent.tries)
    BY <1>1 DEF Receiver
<1>4. rLive' \in 0..MaxTries /\ rLive' <= spent.tries
    BY CountsAreNat DEF Receiver
<1>5. rLive' # 0 => r'[rLive'].at \in {"asked", "ready", "verify"}
    <2>1. rLive' # 0 => rLive' = rLive /\ rLive' \in Tries
        BY CountsAreNat DEF Receiver, Tries
    <2>2. CASE rLive' = a
        BY <1>1, <2>2
    <2>3. CASE rLive' # a
        BY <1>1, <2>1, <2>3 DEF Receiver
    <2> QED
        BY <2>2, <2>3
<1>6. \A x \in Tries : r'[x].pc # "no" => MadeOf(r'[x].own, Offered', spent'.calls)
    <2> SUFFICES ASSUME NEW x \in Tries, r'[x].pc # "no", x # a PROVE MadeOf(r'[x].own, Offered', spent'.calls)
        BY <1>1
    <2>1. Made(r[x].own)
        BY <1>1 DEF Receiver
    <2> QED
        BY <1>1, <2>1, StaysMade, CountsAreNat
<1>7. Receiver'
    BY <1>2, <1>3, <1>4, <1>5, <1>6 DEF Receiver, Made
<1> QED
    BY <1>1, <1>7

\* The wires, when what is added to them is of this file.
LEMMA WiresKeep ==
    ASSUME Wires, Offered \subseteq Offered', spent.calls \in Nat, spent'.calls \in Nat, spent.calls <= spent'.calls,
           toH' \in Seq(HolderFrames), toR' \in Seq(ReceiverFrames), direct' \in Seq(DirectFrames),
           \A f \in In(toR') : f \in In(toR) \/ ((f.t = "chunk" => f.n < Relayed) /\ (f.t = "offer" => f.n \in Offered')),
           \A f \in In(toH') : f \in In(toH) \/ f.t # "answer" \/ MadeOf(f.of, Offered', spent'.calls),
           \A f \in In(direct') : f \in In(direct) \/ (f.t = "chunk" => f.n < Streamed)
    PROVE  Wires'
<1>1. \A f \in In(toR') : (f.t = "chunk" => f.n < Relayed) /\ (f.t = "offer" => f.n \in Offered')
    BY DEF Wires
<1>2. \A f \in In(toH') : f.t = "answer" => MadeOf(f.of, Offered', spent'.calls)
    BY StaysMade DEF Wires
<1>3. \A f \in In(direct') : f.t = "chunk" => f.n < Streamed
    BY DEF Wires
<1> QED
    BY <1>1, <1>2, <1>3 DEF Wires, Made, Relayed, Streamed

-----------------------------------------------------------------------------
(* What a step leaves in the data channel *)

\* The receiver's end closes, opens, or waits for a connection that the holder has not.
LEMMA ChannelKeepsR ==
    ASSUME Channel, Receiver, UNCHANGED <<h, direct>>,
           \A x \in Tries :
             \/ r'[x].pc = "no"
             \/ r'[x].at \notin {"asked", "ready"}
             \/ r'[x].pc = "up" /\ \A b \in Serves : h[b].to # r'[x].own
             \/ /\ r'[x].own = r[x].own /\ r'[x].plan = r[x].plan /\ r[x].at \in {"asked", "ready"}
                /\ \/ r'[x].pc = r[x].pc
                   \/ /\ r[x].plan = 0 /\ h[r[x].own[1]].to = r[x].own
                      /\ \E b \in Serves : Joined(x, b)
    PROVE  Channel'
<1>1. ASSUME NEW x \in Tries, NEW b \in Serves, Joined(x, b)', r'[x].at \in {"asked", "ready"}
      PROVE  /\ Joined(x, b) /\ r'[x].own = r[x].own /\ r'[x].plan = r[x].plan
             /\ r[x].at \in {"asked", "ready"}
    BY <1>1 DEF Joined
<1>2. ASSUME NEW x \in Tries, Awaiting(x)'
      PROVE  Awaiting(x) /\ r'[x].own = r[x].own
    <2>1. r'[x].at \in {"asked", "ready"} /\ r'[x].plan = 0
        BY <1>2 DEF Awaiting
    <2>2. CASE \E b \in Serves : Joined(x, b)'
        BY <1>1, <2>1, <2>2 DEF Awaiting
    <2>3. CASE r'[x].pc = "open"
        BY <2>1, <2>3 DEF Awaiting
    <2> QED
        BY <1>2, <2>2, <2>3 DEF Awaiting
<1>3. ASSUME NEW x \in Tries, Reading(x)', r'[x].plan # 0
      PROVE  Reading(x) /\ r[x].plan # 0 /\ r'[x].own = r[x].own
    BY <1>3 DEF Reading
<1>4. /\ \A f \in In(direct) : /\ f.of[1] \in Serves
                               /\ h[f.of[1]].to = f.of /\ h[f.of[1]].pc \in {"open", "no"}
      /\ \A c \in Calls : Last(direct, Headers(c), Headers(c))
    BY DEF Channel
<1>5. \A x \in Tries : Awaiting(x)' => Led(direct, Through(r'[x].own), Headers(r'[x].own))
    BY <1>2 DEF Channel
<1>6. \A x \in Tries, b \in Serves : Awaiting(x)' /\ Joined(x, b)' /\ h[b].pc = "open"
          => In(direct) \cap Headers(r'[x].own) # {}
    <2> SUFFICES ASSUME NEW x \in Tries, NEW b \in Serves, Awaiting(x)', Joined(x, b)', h[b].pc = "open"
                 PROVE  In(direct) \cap Headers(r'[x].own) # {}
        OBVIOUS
    <2>1. r'[x].at \in {"asked", "ready"}
        BY DEF Awaiting
    <2> QED
        BY <1>1, <1>2, <2>1 DEF Channel
<1>7. \A x \in Tries : Reading(x)' /\ r'[x].plan # 0 => In(direct) \cap Headers(r'[x].own) = {}
    BY <1>3 DEF Channel
<1>8. \A x \in Tries, b \in Serves : Joined(x, b)' /\ Reading(x)' /\ r'[x].plan # 0 => h[b].pc = "open"
    BY <1>1, <1>3 DEF Channel, Reading
<1>9. \A x \in Tries : Reading(x)' => h[r'[x].own[1]].to = r'[x].own
    <2> SUFFICES ASSUME NEW x \in Tries, Reading(x)' PROVE h[r'[x].own[1]].to = r'[x].own
        OBVIOUS
    <2>1. CASE r'[x].pc = r[x].pc /\ r'[x].own = r[x].own /\ r[x].at \in {"asked", "ready"}
        BY <2>1 DEF Channel, Reading
    <2>2. CASE r'[x].own = r[x].own /\ h[r[x].own[1]].to = r[x].own
        BY <2>2
    <2> QED
        BY <2>1, <2>2 DEF Reading
<1> QED
    BY <1>4, <1>5, <1>6, <1>7, <1>8, <1>9 DEF Channel

\* The holder's end closes, or does not belong to any connection.
LEMMA ChannelKeepsH ==
    ASSUME Channel, Holder, Receiver, UNCHANGED <<r, direct>>,
           \A x \in Serves : \/ h'[x].to = h[x].to /\ h'[x].pc \in {h[x].pc, "no"}
                             \/ h[x].to = NoCall /\ h'[x].pc \in {"no", "up", "wrong"}
                             \/ /\ h[x].to = NoCall /\ h'[x].pc = "ready"
                                /\ h'[x].to # NoCall /\ h'[x].to[1] = x
    PROVE  Channel'
<1>1. ASSUME NEW f \in In(direct)
      PROVE  /\ f.of[1] \in Serves /\ f.of # NoCall
             /\ h'[f.of[1]].to = f.of /\ h'[f.of[1]].pc \in {"open", "no"}
    <2>1. /\ f.of[1] \in Serves
          /\ h[f.of[1]].to = f.of /\ h[f.of[1]].pc \in {"open", "no"}
        BY DEF Channel
    <2>2. f.of # NoCall
        BY <2>1, BoundsAreNat DEF NoCall, Serves
    <2> QED
        BY <2>1, <2>2
<1>2. ASSUME NEW x \in Tries, NEW b \in Serves, Joined(x, b)', ~Joined(x, b)
      PROVE  /\ h[b].to = NoCall /\ h'[b].pc = "ready" /\ h'[b].to # NoCall /\ h'[b].to[1] = b
             /\ r[x].own = h'[b].to
    BY <1>2 DEF Joined
<1>3. ASSUME NEW x \in Tries, NEW b \in Serves, Joined(x, b)', ~Joined(x, b)
      PROVE  In(direct) \cap Through(r[x].own) = {}
    <2> SUFFICES ASSUME NEW f \in In(direct), f.of = r[x].own PROVE FALSE
        BY DEF Through
    <2>1. f.of[1] = b /\ h[b].to = f.of
        BY <1>2, <1>3 DEF Channel
    <2> QED
        BY <1>1, <1>2, <1>3, <2>1
<1>4. \A c : Headers(c) \subseteq Through(c)
    BY DEF Headers, Through
<1>5. \A x \in Tries : Reading(x)' <=> Reading(x)
    BY DEF Reading
<1>6. ASSUME NEW x \in Tries, Awaiting(x)' PROVE Led(direct, Through(r[x].own), Headers(r[x].own))
    <2>1. CASE Awaiting(x)
        BY <2>1 DEF Channel
    <2>2. CASE ~Awaiting(x)
        <3>1. PICK b \in Serves : Joined(x, b)' /\ ~Joined(x, b)
            BY <1>6, <2>2 DEF Awaiting
        <3> QED
            BY <1>3, <3>1, NoneLed
    <2> QED
        BY <2>1, <2>2
<1>7. ASSUME NEW x \in Tries, NEW b \in Serves, Awaiting(x)', Joined(x, b)', h'[b].pc = "open"
      PROVE  In(direct) \cap Headers(r[x].own) # {}
    <2>1. Joined(x, b) /\ h[b].pc = "open"
        BY <1>2, <1>7 DEF Joined
    <2>2. Awaiting(x)
        BY <1>7, <2>1 DEF Awaiting
    <2> QED
        BY <2>1, <2>2 DEF Channel
<1>8. ASSUME NEW x \in Tries, NEW b \in Serves, Joined(x, b)', Reading(x)', r[x].plan # 0
      PROVE  h'[b].pc = "open"
    <2>1. CASE Joined(x, b)
        <3>1. h[b].pc = "open"
            BY <1>5, <1>8, <2>1 DEF Channel
        <3>2. h'[b].pc # "no"
            BY <1>8 DEF Joined
        <3>3. h[b].to # NoCall
            BY <3>1 DEF Holder, ServeOk, NoCall, Serves, Joined
        <3> QED
            BY <3>1, <3>2, <3>3
    <2>2. CASE ~Joined(x, b)
        <3>1. /\ h[b].to = NoCall /\ r[x].own # NoCall /\ r[x].own[1] = b
            BY <1>2, <1>8, <2>2
        <3>2. h[b].to = r[x].own
            BY <1>5, <1>8, <3>1 DEF Channel
        <3> QED
            BY <3>1, <3>2
    <2> QED
        BY <2>1, <2>2
<1>9. \A x \in Tries : Reading(x)' /\ r'[x].plan # 0 => In(direct) \cap Headers(r[x].own) = {}
    BY <1>5 DEF Channel
<1>10. ASSUME NEW x \in Tries, Reading(x)' PROVE h'[r[x].own[1]].to = r[x].own
    <2>1. h[r[x].own[1]].to = r[x].own /\ r[x].own[1] \in Serves /\ r[x].own # NoCall
        <3>1. Made(r[x].own)
            BY <1>5, <1>10 DEF Receiver, Reading
        <3>2. r[x].own[1] \in Serves /\ r[x].own # NoCall
            BY <3>1 DEF Made, MadeOf, Offered, NoCall, Serves
        <3> QED
            BY <1>5, <1>10, <3>2 DEF Channel
    <2> QED
        BY <2>1
<1> QED
    BY <1>1, <1>6, <1>7, <1>8, <1>9, <1>10 DEF Channel

-----------------------------------------------------------------------------
(* What a step of one end keeps *)

\* A step of the receiver.
LEMMA SolidR ==
    ASSUME Solid, NEW a \in Tries, NEW t, r' = [r EXCEPT ![a] = t],
           TryOk(a, t, spent.tries), t.pc # "no" => MadeOf(t.own, Offered, spent'.calls),
           rLive' \in {rLive, 0}, rLive' = a => t.at \in {"asked", "ready", "verify"},
           UNCHANGED <<h, hLive, direct, told>>, Counts',
           spent'.tries = spent.tries, spent'.serves = spent.serves, spent.calls <= spent'.calls,
           toH' \in Seq(HolderFrames), toR' \in Seq(ReceiverFrames), In(toR') \subseteq In(toR),
           \A f \in In(toH') : f \in In(toH) \/ /\ f.t = "answer" => MadeOf(f.of, Offered, spent'.calls)
                                                /\ f.t = "ok" => held',
           held => held',
           \/ t.pc = "no"
           \/ t.at \notin {"asked", "ready"}
           \/ t.pc = "up" /\ \A b \in Serves : h[b].to # t.own
           \/ /\ t.own = r[a].own /\ t.plan = r[a].plan /\ r[a].at \in {"asked", "ready"}
              /\ \/ t.pc = r[a].pc
                 \/ /\ r[a].plan = 0 /\ h[r[a].own[1]].to = r[a].own
                    /\ \E b \in Serves : Joined(a, b)
    PROVE  Solid' /\ r'[a] = t /\ \A x \in Tries : x # a => r'[x] = r[x]
<1>1. spent'.calls \in Nat /\ spent.calls \in Nat
    BY CountsAreNat DEF Solid, Counts, SpentRec
<1>2. Holder' /\ Offered' = Offered
    BY <1>1, HolderKeeps DEF Solid
<1>3. Receiver' /\ r'[a] = t /\ \A x \in Tries : x # a => r'[x] = r[x]
    BY <1>1, <1>2, ReceiverMoves DEF Solid
<1>4. Wires'
    BY <1>1, <1>2, WiresKeep DEF Solid, Wires
<1>5. \A x \in Tries : x # a => \/ r'[x].pc = "no"
                                \/ r'[x].at \notin {"asked", "ready"}
                                \/ /\ r'[x].own = r[x].own /\ r'[x].plan = r[x].plan
                                   /\ r[x].at \in {"asked", "ready"} /\ r'[x].pc = r[x].pc
    BY <1>3
<1>6. \/ r'[a].pc = "no"
      \/ r'[a].at \notin {"asked", "ready"}
      \/ r'[a].pc = "up" /\ \A b \in Serves : h[b].to # r'[a].own
      \/ /\ r'[a].own = r[a].own /\ r'[a].plan = r[a].plan /\ r[a].at \in {"asked", "ready"}
         /\ \/ r'[a].pc = r[a].pc
            \/ /\ r[a].plan = 0 /\ h[r[a].own[1]].to = r[a].own
               /\ \E b \in Serves : Joined(a, b)
    BY <1>3
<1>7. Channel'
    BY <1>5, <1>6, ChannelKeepsR DEF Solid
<1>8. Receipts'
    BY DEF Solid, Receipts
<1> QED
    BY <1>2, <1>3, <1>4, <1>7, <1>8 DEF Solid

\* A step of the holder.
LEMMA SolidH ==
    ASSUME Solid, NEW b \in Serves, NEW t, h' = [h EXCEPT ![b] = t],
           ServeOk(b, t, spent.serves, spent.calls), h[b].at \notin Early => t.at \notin Early,
           hLive' \in {hLive, 0}, hLive' = b => ~t.done,
           UNCHANGED <<r, rLive, tile, held, direct>>, Counts',
           spent'.tries = spent.tries, spent'.serves = spent.serves, spent'.calls = spent.calls,
           toH' \in Seq(HolderFrames), toR' \in Seq(ReceiverFrames), In(toH') \subseteq In(toH),
           \A f \in In(toR') : f \in In(toR) \/ /\ f.t = "chunk" => f.n < Relayed
                                                /\ f.t = "offer" => f.n = b /\ t.at \notin Early,
           t.ok => held, told' => held,
           \/ t.to = h[b].to /\ t.pc \in {h[b].pc, "no"}
           \/ h[b].to = NoCall /\ t.pc \in {"no", "up", "wrong"}
           \/ h[b].to = NoCall /\ t.pc = "ready" /\ t.to # NoCall /\ t.to[1] = b
    PROVE  Solid' /\ h'[b] = t /\ (\A x \in Serves : x # b => h'[x] = h[x]) /\ Offered \subseteq Offered'
<1>1. spent'.calls \in Nat /\ spent.calls \in Nat /\ spent.calls <= spent'.calls
    BY CountsAreNat DEF Solid, Counts, SpentRec
<1>2. Holder' /\ Offered \subseteq Offered' /\ h'[b] = t /\ \A x \in Serves : x # b => h'[x] = h[x]
    BY HolderMoves DEF Solid
<1>3. Receiver'
    BY <1>1, <1>2, ReceiverKeeps DEF Solid
<1>4. Wires'
    <2>1. t.at \notin Early => b \in Offered'
        BY <1>2 DEF Offered
    <2> QED
        BY <1>1, <1>2, <2>1, WiresKeep DEF Solid, Wires
<1>5. \A x \in Serves : x # b => h'[x].to = h[x].to /\ h'[x].pc \in {h[x].pc, "no"}
    BY <1>2
<1>6. \/ h'[b].to = h[b].to /\ h'[b].pc \in {h[b].pc, "no"}
      \/ h[b].to = NoCall /\ h'[b].pc \in {"no", "up", "wrong"}
      \/ h[b].to = NoCall /\ h'[b].pc = "ready" /\ h'[b].to # NoCall /\ h'[b].to[1] = b
    BY <1>2
<1>7. Channel'
    BY <1>5, <1>6, ChannelKeepsH DEF Solid
<1>8. Receipts'
    <2>1. \A x \in Serves : h'[x].ok => held'
        BY <1>2 DEF Solid, Receipts
    <2> QED
        BY <2>1 DEF Solid, Receipts
<1> QED
    BY <1>2, <1>3, <1>4, <1>7, <1>8 DEF Solid

\* A step of the relay alone.
LEMMA SolidW ==
    ASSUME Solid, UNCHANGED <<h, hLive, r, rLive, tile, held, direct, told>>, Counts',
           spent'.tries = spent.tries, spent'.serves = spent.serves, spent'.calls = spent.calls,
           toH' \in Seq(HolderFrames), toR' \in Seq(ReceiverFrames),
           In(toH') \subseteq In(toH), In(toR') \subseteq In(toR)
    PROVE  Solid'
<1>1. spent'.calls \in Nat /\ spent.calls \in Nat /\ spent.calls <= spent'.calls
    BY CountsAreNat DEF Solid, Counts, SpentRec
<1>2. Holder' /\ Offered' = Offered
    BY <1>1, HolderKeeps DEF Solid
<1>3. Receiver'
    BY <1>1, <1>2, ReceiverKeeps DEF Solid
<1>4. Wires'
    BY <1>1, <1>2, WiresKeep DEF Solid, Wires
<1>5. Channel'
    BY DEF Solid, Channel, Awaiting, Reading, Joined
<1>6. Receipts'
    BY DEF Solid, Receipts
<1> QED
    BY <1>2, <1>3, <1>4, <1>5, <1>6 DEF Solid

-----------------------------------------------------------------------------
(* Steps of the receiver *)

\* A transfer that ends.
LEMMA EndingOk ==
    ASSUME NEW a \in Tries, NEW t, TryOk(a, t, spent.tries), t.at # "none"
    PROVE  /\ TryOk(a, Ended(t), spent.tries)
           /\ Ended(t).pc = "no" /\ Ended(t).at \in {"verify", "over"}
           /\ Ended(t).at = "verify" => t.at = "verify"
           /\ Ended(t).plan = t.plan /\ Ended(t).got = t.got
<1>1. t \in TryRec
    BY DEF TryOk
<1> DEFINE u == Ended(t)
<1>2. /\ u = [t EXCEPT !.pc = "no", !.at = IF t.at = "verify" THEN "verify" ELSE "over"]
      /\ u.pc = "no" /\ u.path = t.path /\ u.plan = t.plan /\ u.got = t.got /\ u.own = t.own
      /\ u.at = (IF t.at = "verify" THEN "verify" ELSE "over")
    BY <1>1 DEF Ended, TryRec
<1>3. u \in TryRec
    BY <1>1, <1>2 DEF TryRec
<1>5. ~(a > spent.tries)
    BY DEF TryOk, NoTry
<1> HIDE DEF u
<1>6. t.at = "verify" => Complete(u)
    BY <1>2 DEF TryOk, Complete
<1>7. u.plan # 0 => u.got \subseteq 0..(ChunkCount(u.plan) - 1)
    BY <1>2 DEF TryOk
<1>8. TryOk(a, u, spent.tries)
    BY <1>2, <1>3, <1>5, <1>6, <1>7 DEF TryOk
<1> QED
    BY <1>2, <1>8 DEF u

\* A frame of no connection.
LEMMA FramesAre ==
    /\ NoCall \in Calls
    /\ \A t \in {"req", "cancel", "error", "ok", "answer"}, n \in Nat : Frame(t, n) \in HolderFrames
    /\ \A t \in {"accept", "offer", "chunk", "done", "deny", "error", "cancel"}, n \in Nat :
          Frame(t, n) \in ReceiverFrames
    /\ \A t, n : Frame(t, n).t = t /\ Frame(t, n).n = n
    /\ \A c, t, n : FrameOf(c, t, n).t = t /\ FrameOf(c, t, n).n = n /\ FrameOf(c, t, n).of = c
    /\ \A c \in Calls, n \in Nat : FrameOf(c, "answer", n) \in HolderFrames
    /\ \A c \in Calls, t \in {"hdr", "chunk", "fin"}, n \in Nat : FrameOf(c, t, n) \in DirectFrames
    BY DEF Frame, FrameOf, NoCall, Calls, HolderFrames, ReceiverFrames, DirectFrames

\* A transfer that ends, whatever is said of it.
LEMMA EndsR ==
    ASSUME Solid, NEW a \in Tries, r[a].at # "none", FinishR(a),
           UNCHANGED <<h, hLive, direct, told>>, Counts',
           spent'.tries = spent.tries, spent'.serves = spent.serves, spent'.calls = spent.calls,
           toR' \in Seq(ReceiverFrames), In(toR') \subseteq In(toR), held' = held,
           toH' = toH \/ \E t \in {"cancel", "error"} : ToHolder(t, 0)
    PROVE  Solid'
<1> DEFINE u == Ended(r[a])
<1>1. TryOk(a, r[a], spent.tries)
    BY DEF Solid, Receiver
<1>2. TryOk(a, u, spent.tries) /\ u.pc = "no"
    BY <1>1, EndingOk
<1>3. r' = [r EXCEPT ![a] = u] /\ rLive' = 0
    BY DEF FinishR
<1> HIDE DEF u
<1>4. /\ toH' \in Seq(HolderFrames)
      /\ \A f \in In(toH') : f \in In(toH) \/ f.t \notin {"answer", "ok"}
    <2>1. toH \in Seq(HolderFrames)
        BY DEF Solid, Wires
    <2>2. CASE toH' = toH
        BY <2>1, <2>2
    <2>3. CASE \E t \in {"cancel", "error"} : ToHolder(t, 0)
        <3>1. PICK t \in {"cancel", "error"} : toH' = Append(toH, Frame(t, 0))
            BY <2>3 DEF ToHolder
        <3>2. Frame(t, 0) \in HolderFrames /\ Frame(t, 0).t = t
            BY FramesAre
        <3>3. toH' \in Seq(HolderFrames) /\ In(toH') = In(toH) \cup {Frame(t, 0)}
            BY <2>1, <3>1, <3>2, AddIn
        <3> QED
            BY <3>2, <3>3
    <2> QED
        BY <2>2, <2>3
<1>5. a # 0 /\ spent.calls <= spent'.calls
    BY CountsAreNat DEF Tries, Solid
<1> QED
    BY <1>2, <1>3, <1>4, <1>5, SolidR

\* Any of its transfers.
LEMMA OneEnds ==
    ASSUME Solid, NEW a \in Tries, Deadline(a) \/ Idle(a) \/ ClosedUnderR(a)
    PROVE  Solid'
<1>1. r[a].at # "none" /\ FinishR(a) /\ \E t \in {"cancel", "error"} : ToHolder(t, 0)
    BY DEF Deadline, Idle, IdleArmed, ClosedUnderR, AbortR
<1>2. UNCHANGED <<h, hLive, direct, told, spent, toR, held>> /\ tile' = "error"
    BY DEF Deadline, Idle, ClosedUnderR, AbortR, HolderRests
<1>3. excused' \in BOOLEAN
    BY DEF Deadline, Idle, ClosedUnderR, Solid, Counts
<1>4. Counts'
    BY <1>2, <1>3 DEF Solid, Counts
<1>5. toR' \in Seq(ReceiverFrames)
    BY <1>2 DEF Solid, Wires
<1> QED
    BY <1>1, <1>2, <1>4, <1>5, EndsR

\* The one that is live is one of them.
LEMMA LiveR ==
    ASSUME Solid, rLive # 0
    PROVE  rLive \in Tries /\ r[rLive].at \in {"asked", "ready", "verify"} /\ TryOk(rLive, r[rLive], spent.tries)
    BY CountsAreNat DEF Solid, Receiver, Tries

\* The live one is cancelled.
LEMMA CancelREnds == ASSUME Solid, CancelR PROVE Solid'
<1>1. rLive \in Tries /\ r[rLive].at # "none" /\ FinishR(rLive) /\ ToHolder("cancel", 0)
    BY LiveR DEF CancelR
<1>2. UNCHANGED <<h, hLive, direct, told, toR, held>> /\ Spend("cancels")
    BY DEF CancelR, HolderRests
<1>3. /\ spent' \in SpentRec /\ spent'.tries = spent.tries /\ spent'.serves = spent.serves
      /\ spent'.calls = spent.calls
    BY <1>2, Spends DEF Solid
<1>4. tile' \in {"done", "cancelled"} /\ excused' \in BOOLEAN
    BY DEF CancelR, Cancelled
<1>5. Counts'
    BY <1>2, <1>3, <1>4 DEF Solid, Counts
<1>6. toR' \in Seq(ReceiverFrames)
    BY <1>2 DEF Solid, Wires
<1> QED
    BY <1>1, <1>2, <1>3, <1>5, <1>6, EndsR

\* What was verified is kept.
LEMMA VerifiedSolid ==
    ASSUME Solid, NEW a \in Tries, Verified(a)
    PROVE  Solid' /\ r'[a].at = "over" /\ \A x \in Tries : x # a => r'[x] = r[x]
<1> DEFINE s == [r[a] EXCEPT !.at = "over"]
           u == Ended(s)
<1>1. TryOk(a, r[a], spent.tries) /\ r[a].at = "verify"
    BY DEF Solid, Receiver, Verified
<1>2. /\ u.pc = "no" /\ u.path = r[a].path /\ u.plan = r[a].plan /\ u.got = r[a].got
      /\ u.own = r[a].own /\ u.at = "over" /\ u \in TryRec
    BY <1>1 DEF Ended, TryOk, TryRec
<1>3. r' = [r EXCEPT ![a] = u] /\ rLive' = 0 /\ ToHolder("ok", 0) /\ held' = TRUE /\ tile' = "done"
    BY DEF Verified
<1>4. UNCHANGED <<h, hLive, direct, told, spent, toR, excused>>
    BY DEF Verified, HolderRests
<1> HIDE DEF u
<1>5. TryOk(a, u, spent.tries)
    BY <1>1, <1>2 DEF TryOk, NoTry
<1>6. Counts'
    BY <1>3, <1>4 DEF Solid, Counts
<1>7. toH' \in Seq(HolderFrames) /\ In(toH') = In(toH) \cup {Frame("ok", 0)} /\ Frame("ok", 0).t = "ok"
    <2>1. Frame("ok", 0) \in HolderFrames /\ Frame("ok", 0).t = "ok"
        BY FramesAre
    <2> QED
        BY <1>3, <2>1, AddIn DEF ToHolder, Solid, Wires
<1>8. toR' \in Seq(ReceiverFrames)
    BY <1>4 DEF Solid, Wires
<1>9. a # 0 /\ spent.calls <= spent'.calls
    BY <1>4, CountsAreNat DEF Tries, Solid
<1>10. \A f \in In(toH') : f \in In(toH) \/ (f.t # "answer" /\ held')
    BY <1>3, <1>7
<1>11. Solid' /\ r'[a] = u /\ \A x \in Tries : x # a => r'[x] = r[x]
    BY <1>2, <1>3, <1>4, <1>5, <1>6, <1>7, <1>8, <1>9, <1>10, SolidR
<1> QED
    BY <1>2, <1>11

\* A request begins another of them.
LEMMA RequestSolid ==
    ASSUME Solid, Request
    PROVE  /\ Solid' /\ rLive' = spent.tries + 1 /\ rLive' \in Tries /\ spent'.tries = spent.tries + 1
           /\ r'[rLive'] = [NoTry EXCEPT !.at = "asked"]
           /\ \A x \in Tries : x # rLive' => r'[x] = r[x]
           /\ In(toH') = In(toH) \cup {Frame("req", 0)}
<1> DEFINE n == spent.tries + 1
           t == [NoTry EXCEPT !.at = "asked"]
<1>1. /\ spent.tries \in Nat /\ MaxTries \in Nat /\ spent.tries < MaxTries /\ n \in Tries
      /\ spent.calls \in Nat /\ spent.serves \in Nat
    BY CountsAreNat DEF Solid, Request, Tries
<1>2. /\ spent' \in SpentRec /\ spent'.tries = n /\ spent'.serves = spent.serves
      /\ spent'.calls = spent.calls
    BY Spends DEF Solid, Request
<1>3. r' = [r EXCEPT ![n] = t] /\ rLive' = n /\ tile' = "busy" /\ ToHolder("req", 0)
    BY DEF Request
<1>4. UNCHANGED <<h, hLive, direct, told, toR, held, excused>>
    BY DEF Request, HolderRests
<1>5. /\ t.at = "asked" /\ t.path = "none" /\ t.plan = 0 /\ t.got = {} /\ t.pc = "no" /\ t.own = NoCall
      /\ t \in TryRec
    BY FramesAre DEF NoTry, TryRec
<1> HIDE DEF t
<1>6. r \in [Tries -> TryRec] /\ r' \in [Tries -> TryRec] /\ r'[n] = t /\ \A x \in Tries : x # n => r'[x] = r[x]
    BY <1>1, <1>3, <1>5 DEF Solid, Receiver
<1>7. TryOk(n, t, spent'.tries)
    BY <1>1, <1>2, <1>5 DEF TryOk, Complete
<1>8. \A x \in Tries : TryOk(x, r'[x], spent'.tries)
    <2> SUFFICES ASSUME NEW x \in Tries, x # n PROVE TryOk(x, r[x], spent'.tries)
        BY <1>6, <1>7
    <2>1. TryOk(x, r[x], spent.tries)
        BY DEF Solid, Receiver
    <2>2. x > spent'.tries => x > spent.tries
        BY <1>1, <1>2 DEF Tries
    <2> QED
        BY <2>1, <2>2 DEF TryOk
<1>9. Holder' /\ Offered' = Offered
    BY <1>1, <1>2, <1>4, HolderKeeps DEF Solid
<1>10. Receiver'
    <2>1. \A x \in Tries : r'[x].pc # "no" => MadeOf(r'[x].own, Offered', spent'.calls)
        BY <1>2, <1>5, <1>6, <1>9 DEF Solid, Receiver, Made
    <2>2. rLive' \in 0..MaxTries /\ rLive' <= spent'.tries /\ r'[rLive'].at \in {"asked", "ready", "verify"}
        BY <1>1, <1>2, <1>3, <1>5, <1>6
    <2> QED
        BY <1>6, <1>8, <2>1, <2>2 DEF Receiver, Made
<1>11. Counts'
    BY <1>1, <1>2, <1>3, <1>4 DEF Solid, Counts, Tries
<1>12. toH' \in Seq(HolderFrames) /\ In(toH') = In(toH) \cup {Frame("req", 0)} /\ Frame("req", 0).t = "req"
    <2>1. Frame("req", 0) \in HolderFrames /\ Frame("req", 0).t = "req"
        BY FramesAre
    <2> QED
        BY <1>3, <2>1, AddIn DEF ToHolder, Solid, Wires
<1>13. Wires'
    BY <1>1, <1>2, <1>4, <1>9, <1>12, WiresKeep DEF Solid, Wires
<1>14. Channel'
    <2>1. \A x \in Tries : r'[x].pc = "no"
                           \/ r'[x].at \notin {"asked", "ready"}
                           \/ /\ r'[x].own = r[x].own /\ r'[x].plan = r[x].plan
                              /\ r[x].at \in {"asked", "ready"} /\ r'[x].pc = r[x].pc
        BY <1>5, <1>6
    <2> QED
        BY <1>4, <2>1, ChannelKeepsR DEF Solid
<1>15. Receipts'
    BY <1>4, <1>12 DEF Solid, Receipts
<1> QED
    BY <1>1, <1>2, <1>3, <1>6, <1>9, <1>10, <1>11, <1>12, <1>13, <1>14, <1>15 DEF Solid, t

\* The direct connection opens.
LEMMA OpenRSolid ==
    ASSUME Solid, NEW a \in Tries, OpenR(a)
    PROVE  /\ Solid' /\ r[a].own[1] \in Serves /\ Joined(a, r[a].own[1]) /\ r[a].pc = "up"
           /\ r'[a].pc = "open" /\ r'[a].path = "direct"
           /\ r'[a].at = r[a].at /\ r'[a].plan = r[a].plan /\ r'[a].got = r[a].got /\ r'[a].own = r[a].own
           /\ \A x \in Tries : x # a => r'[x] = r[x]
           /\ r[a].at \in {"asked", "ready", "verify"} /\ (r[a].at # "verify" => r[a].plan = 0)
<1> DEFINE t == [r[a] EXCEPT !.pc = "open", !.path = "direct"]
<1>1. TryOk(a, r[a], spent.tries) /\ r[a].pc = "up" /\ Joined(a, r[a].own[1])
    BY DEF Solid, Receiver, OpenR
<1>2. /\ t.pc = "open" /\ t.path = "direct" /\ t.at = r[a].at /\ t.plan = r[a].plan /\ t.got = r[a].got
      /\ t.own = r[a].own /\ t \in TryRec
    BY <1>1 DEF TryOk, TryRec
<1>3. r' = [r EXCEPT ![a] = t]
    <2>1. r' = [r EXCEPT ![a] = [[r[a] EXCEPT !.pc = "open"] EXCEPT !.path = "direct"]]
        BY DEF OpenR, Solid, Receiver
    <2> QED
        BY <2>1
<1>4. UNCHANGED <<h, hLive, direct, told, spent, toR, toH, held, excused, rLive, tile>>
    BY DEF OpenR, HolderRests
<1>5. /\ r[a].at \in {"asked", "ready", "verify"} /\ (r[a].at # "verify" => r[a].plan = 0)
      /\ ~(a > spent.tries)
    BY <1>1 DEF TryOk, NoTry, TryRec
<1> HIDE DEF t
<1>6. Complete(t) <=> Complete(r[a])
    BY <1>2 DEF Complete
<1>7. TryOk(a, t, spent.tries)
    BY <1>1, <1>2, <1>5, <1>6 DEF TryOk
<1>8. Made(r[a].own) /\ r[a].own[1] \in Serves
    BY <1>1 DEF Solid, Receiver, Made, MadeOf, Offered
<1>9. h[r[a].own[1]].to = r[a].own /\ \E b \in Serves : Joined(a, b)
    BY <1>1, <1>8 DEF Joined
<1>10. Counts' /\ toH' \in Seq(HolderFrames) /\ toR' \in Seq(ReceiverFrames) /\ spent.calls <= spent'.calls
    BY <1>4, CountsAreNat DEF Solid, Counts, Wires
<1>11. MadeOf(t.own, Offered, spent'.calls)
    BY <1>2, <1>4, <1>8 DEF Made
<1>12. rLive' \in {rLive, 0} /\ (rLive' = a => t.at \in {"asked", "ready", "verify"})
    BY <1>2, <1>4, <1>5
<1>13. In(toR') \subseteq In(toR) /\ \A f \in In(toH') : f \in In(toH)
    BY <1>4
<1>14. Solid' /\ r'[a] = t /\ \A x \in Tries : x # a => r'[x] = r[x]
    BY <1>2, <1>3, <1>4, <1>5, <1>7, <1>9, <1>10, <1>11, <1>12, <1>13, SolidR
<1> QED
    BY <1>1, <1>2, <1>5, <1>8, <1>14

\* It is given up.
LEMMA GivesUpSolid ==
    ASSUME Solid, NEW a \in Tries, GivesUp(a)
    PROVE  /\ Solid' /\ r[a].pc = "up" /\ r'[a] = [r[a] EXCEPT !.pc = "no"]
           /\ \A x \in Tries : x # a => r'[x] = r[x]
<1> DEFINE t == [r[a] EXCEPT !.pc = "no"]
<1>1. TryOk(a, r[a], spent.tries) /\ r[a].pc = "up" /\ r[a].path = "none"
    BY DEF Solid, Receiver, GivesUp
<1>2. /\ t.pc = "no" /\ t.path = "none" /\ t.at = r[a].at /\ t.plan = r[a].plan /\ t.got = r[a].got
      /\ t.own = r[a].own /\ t \in TryRec
    BY <1>1 DEF TryOk, TryRec
<1>3. r' = [r EXCEPT ![a] = t]
    BY DEF GivesUp, Solid, Receiver
<1>4. UNCHANGED <<h, hLive, direct, told, spent, toR, toH, held, rLive, tile>>
    BY DEF GivesUp, HolderRests
<1>5. excused' \in BOOLEAN
    BY DEF GivesUp, Solid, Counts
<1>6. ~(a > spent.tries)
    BY <1>1 DEF TryOk, NoTry
<1> HIDE DEF t
<1>7. Complete(t) <=> Complete(r[a])
    BY <1>2 DEF Complete
<1>8. TryOk(a, t, spent.tries)
    BY <1>1, <1>2, <1>6, <1>7 DEF TryOk
<1>9. Counts' /\ toH' \in Seq(HolderFrames) /\ toR' \in Seq(ReceiverFrames) /\ spent.calls <= spent'.calls
    BY <1>4, <1>5, CountsAreNat DEF Solid, Counts, Wires
<1>10. rLive' \in {rLive, 0} /\ (rLive' = a => t.at \in {"asked", "ready", "verify"})
    BY <1>2, <1>4, LiveR, CountsAreNat DEF Tries
<1>11. In(toR') \subseteq In(toR) /\ \A f \in In(toH') : f \in In(toH)
    BY <1>4
<1>12. Solid' /\ r'[a] = t /\ \A x \in Tries : x # a => r'[x] = r[x]
    BY <1>2, <1>3, <1>4, <1>8, <1>9, <1>10, <1>11, SolidR
<1> QED
    BY <1>1, <1>12 DEF t

-----------------------------------------------------------------------------
(* Frames that reach the receiver *)

\* A transfer that may be complete.
LEMMA Settling ==
    ASSUME NEW a, NEW tries, ~(a > tries), NEW u \in TryRec, u.at = "ready", u.plan # 0,
           u.got \subseteq 0..(ChunkCount(u.plan) - 1),
           u.pc = "up" => u.path = "none", u.pc = "open" => u.path = "direct",
           Complete(u) \/ u.path = "relay" \/ (u.path = "direct" /\ u.pc = "open" /\ u.plan = DirectBytes)
    PROVE  /\ TryOk(a, Settle(u), tries)
           /\ Settle(u).path = u.path /\ Settle(u).plan = u.plan /\ Settle(u).got = u.got
           /\ Settle(u).pc = u.pc /\ Settle(u).own = u.own
           /\ Settle(u).at = (IF Complete(u) THEN "verify" ELSE "ready")
<1> DEFINE s == Settle(u)
<1>1. CASE Complete(u)
    <2>1. s = [u EXCEPT !.at = "verify"]
        BY <1>1 DEF Settle
    <2>2. /\ s \in TryRec /\ s.path = u.path /\ s.plan = u.plan /\ s.got = u.got
          /\ s.pc = u.pc /\ s.own = u.own /\ s.at = "verify"
        BY <2>1 DEF TryRec
    <2> HIDE DEF s
    <2>3. Complete(s)
        BY <1>1, <2>2 DEF Complete
    <2>4. TryOk(a, s, tries)
        BY <2>2, <2>3 DEF TryOk
    <2> QED
        BY <1>1, <2>2, <2>4 DEF s
<1>2. CASE ~Complete(u)
    <2>1. s = u
        BY <1>2 DEF Settle
    <2>2. TryOk(a, u, tries)
        BY <1>2 DEF TryOk
    <2> QED
        BY <1>2, <2>1, <2>2
<1> QED
    BY <1>1, <1>2

\* What delivering takes and leaves.
LEMMA Delivering ==
    ASSUME Solid, DeliverR
    PROVE  /\ Head(toR) \in ReceiverFrames /\ Head(toR) \in In(toR) /\ toR # <<>>
           /\ toR' = Tail(toR) /\ toR' \in Seq(ReceiverFrames) /\ In(toR') \subseteq In(toR)
           /\ toH \in Seq(HolderFrames)
           /\ UNCHANGED <<h, hLive, direct, told, held, excused>>
           /\ Head(toR).t = "chunk" => Head(toR).n < Relayed
           /\ Head(toR).t = "offer" => Head(toR).n \in Offered
<1>1. toR \in Seq(ReceiverFrames) /\ toH \in Seq(HolderFrames) /\ toR # <<>> /\ toR' = Tail(toR)
    BY DEF Solid, Wires, DeliverR
<1>2. /\ Head(toR) \in ReceiverFrames /\ Head(toR) \in In(toR)
      /\ Tail(toR) \in Seq(ReceiverFrames) /\ In(Tail(toR)) \subseteq In(toR)
    BY <1>1, TakeIn
<1>3. UNCHANGED <<h, hLive, direct, told, held, excused>>
    BY DEF DeliverR, HolderRests
<1>4. /\ Head(toR).t = "chunk" => Head(toR).n < Relayed
      /\ Head(toR).t = "offer" => Head(toR).n \in Offered
    BY <1>2 DEF Solid, Wires
<1> QED
    BY <1>1, <1>2, <1>3, <1>4

\* A frame that changes nothing at the receiver's end, or only what is shown.
LEMMA Ignoring ==
    ASSUME Solid, DeliverR, UNCHANGED <<r, rLive, toH, spent>>, tile' \in {tile, "error"}
    PROVE  Solid'
<1>1. Counts'
    BY Delivering DEF Solid, Counts
<1>2. tile' = tile \/ tile' = "error"
    OBVIOUS
<1>3. Wires' /\ Holder' /\ Receiver' /\ Channel' /\ Receipts'
    <2>1. Holder' /\ Offered' = Offered
        BY Delivering, CountsAreNat, HolderKeeps DEF Solid
    <2>2. Receiver'
        BY <2>1, CountsAreNat, ReceiverKeeps DEF Solid
    <2>3. Wires'
        BY <2>1, Delivering, CountsAreNat, WiresKeep DEF Solid, Wires
    <2>4. Channel'
        BY Delivering DEF Solid, Channel, Awaiting, Reading, Joined
    <2>5. Receipts'
        BY Delivering DEF Solid, Receipts
    <2> QED
        BY <2>1, <2>2, <2>3, <2>4, <2>5
<1> QED
    BY <1>1, <1>3 DEF Solid

\* A frame that ends the transfer.
LEMMA EndsByFrame ==
    ASSUME Solid, DeliverR, rLive # 0, FinishR(rLive), UNCHANGED spent,
           tile' \in {"error", "done", "cancelled"}, UNCHANGED toH \/ ToHolder("error", 0)
    PROVE  Solid'
<1>1. rLive \in Tries /\ r[rLive].at # "none"
    BY LiveR
<1>2. Counts'
    BY Delivering DEF Solid, Counts
<1>3. /\ UNCHANGED <<h, hLive, direct, told, held>> /\ toR' \in Seq(ReceiverFrames)
      /\ In(toR') \subseteq In(toR)
    BY Delivering
<1> QED
    BY <1>1, <1>2, <1>3, EndsR

\* A frame that moves the transfer.
LEMMA MovesByFrame ==
    ASSUME Solid, DeliverR, rLive # 0, NEW t, Keeps(t), UNCHANGED <<spent, toH>>, tile' \in {tile, "busy"},
           TryOk(rLive, t, spent.tries), t.at \in {"ready", "verify"},
           t.pc # "no" => t.pc = r[rLive].pc /\ t.own = r[rLive].own,
           t.pc = "no" \/ t.at = "verify" \/ (t.plan = r[rLive].plan /\ r[rLive].at \in {"asked", "ready"})
    PROVE  Solid' /\ r'[rLive] = t /\ (\A x \in Tries : x # rLive => r'[x] = r[x]) /\ rLive' = rLive
<1>1. rLive \in Tries
    BY LiveR
<1>2. r' = [r EXCEPT ![rLive] = t] /\ rLive' = rLive
    BY DEF Keeps
<1>3. Counts'
    BY Delivering DEF Solid, Counts
<1>4. t.pc # "no" => MadeOf(t.own, Offered, spent'.calls)
    BY <1>1 DEF Solid, Receiver, Made
<1>5. /\ toH' \in Seq(HolderFrames) /\ toR' \in Seq(ReceiverFrames) /\ In(toR') \subseteq In(toR)
      /\ UNCHANGED <<h, hLive, direct, told, held>> /\ spent.calls <= spent'.calls
    BY Delivering, CountsAreNat DEF Solid
<1>6. \A f \in In(toH') : f \in In(toH)
    OBVIOUS
<1>7. Solid' /\ r'[rLive] = t /\ \A x \in Tries : x # rLive => r'[x] = r[x]
    BY <1>1, <1>2, <1>3, <1>4, <1>5, <1>6, SolidR
<1> QED
    BY <1>2, <1>7

\* A plan is made.
LEMMA PlanReaches ==
    ASSUME Solid, DeliverR, rLive # 0, Head(toR).t = "accept"
    PROVE  /\ Solid' /\ r'[rLive] = [r[rLive] EXCEPT !.at = IF @ = "asked" THEN "ready" ELSE @]
           /\ \A x \in Tries : x # rLive => r'[x] = r[x]
           /\ rLive' = rLive /\ tile' = "busy" /\ UNCHANGED <<toH, spent>>
<1> DEFINE t == [r[rLive] EXCEPT !.at = IF @ = "asked" THEN "ready" ELSE @]
<1>1. /\ rLive \in Tries /\ r[rLive].at \in {"asked", "ready", "verify"}
      /\ TryOk(rLive, r[rLive], spent.tries)
    BY LiveR
<1>2. Keeps(t) /\ tile' = "busy" /\ UNCHANGED <<toH, spent>>
    BY DEF DeliverR, ReceiverTakes, OnAccept
<1>3. /\ t.pc = r[rLive].pc /\ t.path = r[rLive].path /\ t.plan = r[rLive].plan /\ t.got = r[rLive].got
      /\ t.own = r[rLive].own /\ t \in TryRec
      /\ t.at = (IF r[rLive].at = "asked" THEN "ready" ELSE r[rLive].at)
    BY <1>1 DEF TryOk, TryRec
<1> HIDE DEF t
<1>4. Complete(t) <=> Complete(r[rLive])
    BY <1>3 DEF Complete
<1>5. ~(rLive > spent.tries)
    BY <1>1 DEF TryOk, NoTry
<1>6. TryOk(rLive, t, spent.tries)
    BY <1>1, <1>3, <1>4, <1>5 DEF TryOk
<1>7. t.at \in {"ready", "verify"} /\ (t.at = "verify" \/ r[rLive].at \in {"asked", "ready"})
    BY <1>1, <1>3
<1>8. Solid' /\ r'[rLive] = t /\ (\A x \in Tries : x # rLive => r'[x] = r[x]) /\ rLive' = rLive
    BY <1>2, <1>3, <1>6, <1>7, MovesByFrame
<1> QED
    BY <1>2, <1>8 DEF t

\* An offer is made.
LEMMA OfferReaches ==
    ASSUME Solid, DeliverR, rLive # 0, Head(toR).t = "offer"
    PROVE  /\ Solid' /\ UNCHANGED <<rLive, tile>> /\ spent'.tries = spent.tries
           /\ \/ UNCHANGED <<r, toH>>
              \/ /\ Connects(r[rLive]) /\ r[rLive].pc = "no"
                 /\ r'[rLive].pc = "up" /\ r'[rLive].own = <<Head(toR).n, spent.calls + 1>>
                 /\ r'[rLive].at = r[rLive].at /\ r'[rLive].path = r[rLive].path
                 /\ r'[rLive].plan = r[rLive].plan /\ r'[rLive].got = r[rLive].got
                 /\ \A x \in Tries : x # rLive => r'[x] = r[x]
                 /\ In(toH') = In(toH) \cup {FrameOf(r'[rLive].own, "answer", 0)}
                 /\ \A b \in Serves : h[b].to # r'[rLive].own
<1>1. /\ rLive \in Tries /\ r[rLive].at \in {"asked", "ready", "verify"}
      /\ TryOk(rLive, r[rLive], spent.tries)
    BY LiveR
<1> DEFINE n == Head(toR).n
           call == <<n, spent.calls + 1>>
           t == [r[rLive] EXCEPT !.pc = "up", !.own = call]
<1>2. CASE ~Connects(r[rLive])
    <2>1. UNCHANGED <<r, rLive, tile, toH, spent>>
        BY <1>2 DEF DeliverR, ReceiverTakes, OnOffer, Ignores
    <2> QED
        BY <2>1, Ignoring
<1>3. CASE Connects(r[rLive])
    <2>1. /\ r' = [r EXCEPT ![rLive] = t] /\ UNCHANGED <<rLive, tile>>
          /\ toH' = Append(toH, FrameOf(call, "answer", 0)) /\ Spend("calls")
        BY <1>3 DEF DeliverR, ReceiverTakes, OnOffer, Keeps
    <2>2. /\ spent' \in SpentRec /\ spent'.tries = spent.tries /\ spent'.serves = spent.serves
          /\ spent'.calls = spent.calls + 1 /\ spent.calls \in Nat
        BY <2>1, Spends DEF Solid
    <2>3. /\ r[rLive].pc = "no" /\ r[rLive].path # "relay" /\ r[rLive].at \in {"asked", "ready"}
          /\ r[rLive].path = "none"
        BY <1>1, <1>3 DEF Connects, TryOk, TryRec
    <2>4. n \in Offered /\ n \in Nat /\ n \in Serves
        BY Delivering DEF ReceiverFrames, Offered
    <2>5. call \in Calls /\ call[1] = n /\ call[2] = spent.calls + 1
        BY <2>2, <2>4 DEF Calls
    <2>6. /\ t.pc = "up" /\ t.path = r[rLive].path /\ t.plan = r[rLive].plan /\ t.got = r[rLive].got
          /\ t.own = call /\ t.at = r[rLive].at /\ t \in TryRec
        BY <1>1, <2>5 DEF TryOk, TryRec
    <2> HIDE DEF t, call
    <2>7. Complete(t) <=> Complete(r[rLive])
        BY <2>6 DEF Complete
    <2>8. ~(rLive > spent.tries)
        BY <1>1, <2>3 DEF TryOk, NoTry
    <2>9. TryOk(rLive, t, spent.tries)
        BY <1>1, <2>3, <2>6, <2>7, <2>8 DEF TryOk
    <2>10. \A b \in Serves : h[b].to # call
        <3> SUFFICES ASSUME NEW b \in Serves, h[b].to = call PROVE FALSE
            OBVIOUS
        <3>1. h[b].to = NoCall \/ h[b].to[2] \in 1..spent.calls
            BY DEF Solid, Holder, ServeOk
        <3>2. call[2] # NoCall[2]
            BY <2>2, <2>5 DEF NoCall
        <3> QED
            BY <2>2, <2>5, <3>1, <3>2
    <2>11. MadeOf(call, Offered, spent'.calls)
        BY <2>2, <2>4, <2>5 DEF MadeOf
    <2>12. /\ toH' \in Seq(HolderFrames) /\ In(toH') = In(toH) \cup {FrameOf(call, "answer", 0)}
           /\ FrameOf(call, "answer", 0).t = "answer" /\ FrameOf(call, "answer", 0).of = call
        <3>1. FrameOf(call, "answer", 0) \in HolderFrames
            BY <2>5, FramesAre
        <3> QED
            BY <2>1, <3>1, Delivering, AddIn, FramesAre
    <2>13. Counts'
        BY <2>1, <2>2, Delivering DEF Solid, Counts
    <2>14. \A f \in In(toH') : f \in In(toH) \/ (f.t = "answer" /\ f.of = call)
        BY <2>12
    <2>15. \A f \in In(toH') : f \in In(toH) \/ /\ f.t = "answer" => MadeOf(f.of, Offered, spent'.calls)
                                                /\ f.t = "ok" => held'
        BY <2>11, <2>14
    <2>16. /\ toR' \in Seq(ReceiverFrames) /\ In(toR') \subseteq In(toR)
           /\ UNCHANGED <<h, hLive, direct, told, held>>
        BY Delivering
    <2>17. /\ spent.calls <= spent'.calls /\ rLive' \in {rLive, 0}
           /\ t.at \in {"asked", "ready", "verify"}
           /\ MadeOf(t.own, Offered, spent'.calls)
           /\ t.pc = "up" /\ \A b \in Serves : h[b].to # t.own
        BY <1>1, <2>1, <2>2, <2>6, <2>10, <2>11
    <2>18. Solid' /\ r'[rLive] = t /\ \A x \in Tries : x # rLive => r'[x] = r[x]
        BY <1>1, <2>1, <2>2, <2>9, <2>12, <2>13, <2>15, <2>16, <2>17, SolidR
    <2> QED
        BY <1>3, <2>1, <2>2, <2>3, <2>6, <2>10, <2>12, <2>18 DEF call
<1> QED
    BY <1>2, <1>3

\* A relayed piece reaches the receiver.
LEMMA PieceReaches ==
    ASSUME Solid, DeliverR, rLive # 0, Head(toR).t = "chunk"
    PROVE  /\ Solid'
           /\ UNCHANGED spent
           /\ r[rLive].at = "verify" =>
                /\ UNCHANGED <<rLive, tile, toH>> /\ r'[rLive].at = "verify"
                /\ \A x \in Tries : x # rLive => r'[x] = r[x]
           /\ r[rLive].at = "ready" /\ (r[rLive].plan = 0 \/ r[rLive].plan = RelayBytes) =>
                /\ UNCHANGED <<rLive, tile, toH>>
                /\ r'[rLive].at \in {"ready", "verify"} /\ r'[rLive].pc = "no"
                /\ r'[rLive].path = "relay" /\ r'[rLive].plan = RelayBytes
                /\ r'[rLive].got = r[rLive].got \cup {Head(toR).n}
                /\ \A x \in Tries : x # rLive => r'[x] = r[x]
<1>1. /\ rLive \in Tries /\ r[rLive].at \in {"asked", "ready", "verify"}
      /\ TryOk(rLive, r[rLive], spent.tries) /\ ~(rLive > spent.tries)
    BY LiveR DEF TryOk, NoTry
<1> DEFINE n == Head(toR).n
           o == OverRelay(r[rLive])
           u == WithPlan(o)
<1>2. OnChunk(r[rLive], n) /\ UNCHANGED spent
    BY DEF DeliverR, ReceiverTakes
<1>3. n \in Nat /\ n < Relayed
    BY Delivering DEF ReceiverFrames
<1>4. /\ o.path = "relay" /\ o.pc = "no" /\ o.at = r[rLive].at /\ o.plan = r[rLive].plan
      /\ o.got = r[rLive].got /\ o.own = r[rLive].own /\ o \in TryRec
    <2>1. r[rLive] \in TryRec /\ (r[rLive].path = "relay" => r[rLive].pc = "no")
        BY <1>1 DEF TryOk, TryRec
    <2>2. CASE r[rLive].path = "relay"
        BY <2>1, <2>2 DEF OverRelay
    <2>3. CASE r[rLive].path # "relay"
        BY <2>1, <2>3 DEF OverRelay, TryRec
    <2> QED
        BY <2>2, <2>3
<1> HIDE DEF o
<1>5. /\ u.path = "relay" /\ u.pc = "no" /\ u.at = r[rLive].at
      /\ u.plan = (IF r[rLive].plan = 0 THEN RelayBytes ELSE r[rLive].plan)
      /\ u.got = r[rLive].got /\ u.own = r[rLive].own /\ u \in TryRec
    BY <1>4 DEF WithPlan, TryRec
<1> HIDE DEF u
<1>6. CASE r[rLive].at = "verify"
    <2>1. Keeps(o) /\ UNCHANGED <<tile, toH>>
        BY <1>2, <1>6 DEF OnChunk, o
    <2>2. Complete(o)
        BY <1>1, <1>4, <1>6 DEF TryOk, Complete
    <2>3. TryOk(rLive, o, spent.tries)
        BY <1>1, <1>4, <1>6, <2>2 DEF TryOk
    <2>4. Solid' /\ r'[rLive] = o /\ (\A x \in Tries : x # rLive => r'[x] = r[x]) /\ rLive' = rLive
        BY <1>2, <1>4, <1>6, <2>1, <2>3, MovesByFrame
    <2> QED
        BY <1>2, <1>4, <1>6, <2>1, <2>4
<1>7. CASE r[rLive].at # "verify" /\ (r[rLive].at = "asked" \/ ~Fits(u.plan))
    <2>1. FinishR(rLive) /\ tile' = "error" /\ UNCHANGED toH
        BY <1>2, <1>7 DEF OnChunk, u, o
    <2>2. Solid'
        BY <1>2, <2>1, EndsByFrame
    <2>3. Fits(RelayBytes)
        BY DEF Fits
    <2>4. ~(r[rLive].at = "ready" /\ (r[rLive].plan = 0 \/ r[rLive].plan = RelayBytes))
        BY <1>5, <1>7, <2>3
    <2> QED
        BY <1>2, <1>7, <2>2, <2>4
<1>8. CASE r[rLive].at = "ready" /\ Fits(u.plan)
    <2> DEFINE v == [u EXCEPT !.got = @ \cup {n}]
    <2>1. Keeps(Settle(v)) /\ UNCHANGED <<tile, toH>>
        BY <1>2, <1>8 DEF OnChunk, u, o
    <2>2. /\ v.path = "relay" /\ v.pc = "no" /\ v.at = "ready" /\ v.plan = u.plan
          /\ v.got = r[rLive].got \cup {n} /\ v \in TryRec
        BY <1>3, <1>5, <1>8 DEF TryRec
    <2> HIDE DEF v
    <2>3. u.plan \in {RelayBytes, DirectBytes} /\ u.plan # 0
        BY <1>1, <1>5, PlansAreNat DEF TryOk, TryRec
    <2>4. v.got \subseteq 0..(ChunkCount(v.plan) - 1)
        <3>1. n \in 0..(ChunkCount(u.plan) - 1)
            BY <1>3, <1>8, <2>3, FitsIn
        <3>2. r[rLive].got \subseteq 0..(ChunkCount(u.plan) - 1)
            BY <1>1, <1>5, <1>8 DEF TryOk
        <3> QED
            BY <2>2, <3>1, <3>2
    <2>5. /\ TryOk(rLive, Settle(v), spent.tries)
          /\ Settle(v).path = "relay" /\ Settle(v).plan = u.plan /\ Settle(v).got = v.got
          /\ Settle(v).pc = "no" /\ Settle(v).at \in {"ready", "verify"}
        BY <1>1, <2>2, <2>3, <2>4, Settling
    <2>6. Solid' /\ r'[rLive] = Settle(v) /\ (\A x \in Tries : x # rLive => r'[x] = r[x]) /\ rLive' = rLive
        BY <1>2, <2>1, <2>5, MovesByFrame
    <2> QED
        BY <1>2, <1>5, <1>8, <2>1, <2>2, <2>5, <2>6
<1> QED
    BY <1>1, <1>6, <1>7, <1>8

\* The end of what the relay carries reaches the receiver.
LEMMA EndReaches ==
    ASSUME Solid, DeliverR, rLive # 0, Head(toR).t = "done"
    PROVE  /\ Solid'
           /\ UNCHANGED spent
           /\ r[rLive].at = "verify" => UNCHANGED <<r, rLive, tile, toH>>
           /\ r[rLive].at = "ready" /\ Complete(WithPlan(r[rLive])) =>
                /\ UNCHANGED <<rLive, tile, toH>> /\ r'[rLive].at = "verify"
                /\ \A x \in Tries : x # rLive => r'[x] = r[x]
<1>1. /\ rLive \in Tries /\ r[rLive].at \in {"asked", "ready", "verify"}
      /\ TryOk(rLive, r[rLive], spent.tries) /\ ~(rLive > spent.tries)
    BY LiveR DEF TryOk, NoTry
<1> DEFINE u == WithPlan(r[rLive])
<1>2. OnDone(r[rLive]) /\ UNCHANGED spent
    BY DEF DeliverR, ReceiverTakes
<1>3. CASE r[rLive].at = "verify"
    <2>1. UNCHANGED <<r, rLive, tile, toH>>
        BY <1>2, <1>3 DEF OnDone, Ignores
    <2> QED
        BY <1>2, <1>3, <2>1, Ignoring
<1>4. CASE r[rLive].at # "verify" /\ ~(r[rLive].at = "ready" /\ Complete(u))
    <2>1. FinishR(rLive) /\ tile' = "error" /\ ToHolder("error", 0)
        BY <1>2, <1>4 DEF OnDone, AbortR
    <2>2. Solid'
        BY <1>2, <2>1, EndsByFrame
    <2> QED
        BY <1>2, <1>4, <2>2
<1>5. CASE r[rLive].at = "ready" /\ Complete(u)
    <2>1. Keeps(Settle(u)) /\ UNCHANGED <<tile, toH>>
        BY <1>2, <1>5 DEF OnDone
    <2>2. /\ u.path = r[rLive].path /\ u.pc = r[rLive].pc /\ u.at = "ready"
          /\ u.plan = (IF r[rLive].plan = 0 THEN RelayBytes ELSE r[rLive].plan)
          /\ u.got = r[rLive].got /\ u.own = r[rLive].own /\ u \in TryRec
        BY <1>1, <1>5 DEF WithPlan, TryRec, TryOk
    <2>3. Complete(u)
        BY <1>5
    <2> HIDE DEF u
    <2>4. u.plan # 0 /\ u.got \subseteq 0..(ChunkCount(u.plan) - 1)
        BY <2>3, <2>2, PlansAreNat DEF Complete
    <2>5. (u.pc = "up" => u.path = "none") /\ (u.pc = "open" => u.path = "direct")
        BY <1>1, <2>2 DEF TryOk
    <2>6. /\ TryOk(rLive, Settle(u), spent.tries)
          /\ Settle(u).pc = u.pc /\ Settle(u).own = u.own /\ Settle(u).at = "verify"
        BY <1>1, <2>2, <2>3, <2>4, <2>5, Settling
    <2>7. Solid' /\ r'[rLive] = Settle(u) /\ (\A x \in Tries : x # rLive => r'[x] = r[x]) /\ rLive' = rLive
        BY <1>2, <2>1, <2>2, <2>6, MovesByFrame
    <2> QED
        BY <1>2, <1>5, <2>1, <2>6, <2>7
<1> QED
    BY <1>1, <1>3, <1>4, <1>5

\* Any frame.
LEMMA DeliverRSolid == ASSUME Solid, DeliverR PROVE Solid'
<1> DEFINE f == Head(toR)
<1>1. f.t \in {"accept", "offer", "chunk", "done", "deny", "error", "cancel"}
    BY Delivering DEF ReceiverFrames
<1>2. CASE f.t \in {"deny", "error"}
    <2>1. OnRefusal /\ UNCHANGED spent
        BY <1>2 DEF DeliverR, ReceiverTakes
    <2>2. CASE rLive # 0
        BY <2>1, <2>2, EndsByFrame DEF OnRefusal
    <2>3. CASE rLive = 0
        BY <2>1, <2>3, Ignoring DEF OnRefusal
    <2> QED
        BY <2>2, <2>3
<1>3. CASE f.t \notin {"deny", "error"} /\ rLive = 0
    <2>1. UNCHANGED <<r, rLive, tile, toH, spent>>
        BY <1>3 DEF DeliverR, ReceiverTakes, Ignores
    <2> QED
        BY <2>1, Ignoring
<1>4. CASE f.t = "cancel" /\ rLive # 0
    <2>1. FinishR(rLive) /\ tile' \in {"done", "cancelled"} /\ UNCHANGED <<toH, spent>>
        BY <1>4 DEF DeliverR, ReceiverTakes, OnCancel, Cancelled
    <2> QED
        BY <1>4, <2>1, EndsByFrame
<1> QED
    BY <1>1, <1>2, <1>3, <1>4, PlanReaches, OfferReaches, PieceReaches, EndReaches

-----------------------------------------------------------------------------
(* What the receiver reads of the data channel *)

\* A frame of the data channel, at a transfer that reads it.
LEMMA Reader ==
    ASSUME Solid, ReadDirect, NEW a \in Tries, Reads(a, Head(direct).of)
    PROVE  /\ TryOk(a, r'[a], spent.tries) /\ Reading(a)
           /\ r'[a].own = r[a].own /\ r'[a].pc = r[a].pc /\ r'[a].path = r[a].path
           /\ r'[a].at \in {"ready", "verify"} /\ r'[a].plan = DirectBytes
           /\ Head(direct).t = "hdr" => r[a].plan = 0 /\ r'[a].got = {} /\ Head(direct) \in Headers(r[a].own)
           /\ Head(direct).t # "hdr" => r[a].plan # 0
           /\ Head(direct).t = "chunk" => r'[a].got = r[a].got \cup {Head(direct).n}
           /\ Head(direct).t = "fin" => r'[a].got = r[a].got
<1> DEFINE f == Head(direct)
<1>1. f \in DirectFrames /\ f \in In(direct) /\ direct # <<>> /\ direct \in Seq(DirectFrames)
    <2>1. direct # <<>> /\ direct \in Seq(DirectFrames)
        BY DEF ReadDirect, Solid, Wires
    <2> QED
        BY <2>1, TakeIn
<1>2. /\ TryOk(a, r[a], spent.tries) /\ r[a].pc = "open" /\ r[a].own = f.of /\ r[a].at \in {"asked", "ready"}
      /\ Reading(a)
    BY DEF Solid, Receiver, Reads, Reading
<1>3. r'[a] = TakesDirect(r[a], f)
    BY DEF ReadDirect
<1>4. r[a].path = "direct" /\ r[a].plan \in {0, DirectBytes} /\ ~(a > spent.tries) /\ r[a] \in TryRec
    BY <1>2 DEF TryOk, NoTry
<1>5. f.t \in {"hdr", "chunk", "fin"} /\ f.n \in Nat /\ (f.t = "chunk" => f.n < Streamed)
    BY <1>1 DEF DirectFrames, Solid, Wires
<1> HIDE DEF f
<1>6. DirectBytes # 0 /\ DirectBytes \in Nat
    BY PlansAreNat
<1>7. CASE f.t = "hdr"
    <2> DEFINE v == [r[a] EXCEPT !.plan = DirectBytes, !.got = {}, !.at = "ready"]
    <2>1. r'[a] = Settle(v)
        BY <1>3, <1>7 DEF TakesDirect
    <2>2. /\ v.path = "direct" /\ v.pc = "open" /\ v.at = "ready" /\ v.plan = DirectBytes /\ v.got = {}
          /\ v.own = r[a].own /\ v \in TryRec
        BY <1>2, <1>4 DEF TryRec
    <2> HIDE DEF v
    <2>3. /\ TryOk(a, Settle(v), spent.tries)
          /\ Settle(v).path = v.path /\ Settle(v).plan = v.plan /\ Settle(v).got = v.got
          /\ Settle(v).pc = v.pc /\ Settle(v).own = v.own
          /\ Settle(v).at \in {"ready", "verify"}
        BY <1>4, <1>6, <2>2, Settling
    <2>4. f \in Headers(r[a].own)
        BY <1>1, <1>2, <1>7 DEF Headers
    <2>5. r[a].plan = 0
        BY <1>1, <1>2, <2>4 DEF Solid, Channel
    <2> QED
        BY <1>2, <1>4, <1>7, <2>1, <2>2, <2>3, <2>4, <2>5 DEF f
<1>8. CASE f.t # "hdr"
    <2>1. r[a].plan # 0
        <3>1. CASE r[a].plan = 0
            <4>1. Awaiting(a)
                BY <1>2, <3>1 DEF Awaiting
            <4>2. Led(direct, Through(r[a].own), Headers(r[a].own))
                BY <4>1 DEF Solid, Channel
            <4>3. f \in Through(r[a].own)
                BY <1>1, <1>2 DEF Through
            <4>4. f \in Headers(r[a].own)
                BY <1>1, <4>2, <4>3, TakeLed DEF f
            <4> QED
                BY <1>8, <4>4 DEF Headers
        <3> QED
            BY <3>1
    <2>2. r[a].plan = DirectBytes /\ r[a].at = "ready"
        BY <1>2, <1>4, <2>1 DEF TryOk
    <2>3. CASE f.t = "fin"
        <3>1. r'[a] = r[a]
            BY <1>3, <2>3 DEF TakesDirect
        <3> QED
            BY <1>2, <1>4, <2>1, <2>2, <2>3, <3>1 DEF f
    <2>4. CASE f.t = "chunk"
        <3> DEFINE v == [r[a] EXCEPT !.got = @ \cup {f.n}]
        <3>1. r'[a] = Settle(v)
            BY <1>3, <2>4 DEF TakesDirect
        <3>2. /\ v.path = "direct" /\ v.pc = "open" /\ v.at = "ready" /\ v.plan = DirectBytes
              /\ v.own = r[a].own /\ v \in TryRec /\ v.got = r[a].got \cup {f.n}
            BY <1>2, <1>4, <1>5, <2>2 DEF TryRec
        <3> HIDE DEF v
        <3>3. v.got \subseteq 0..(ChunkCount(v.plan) - 1)
            <4>1. r[a].got \subseteq 0..(Streamed - 1)
                BY <1>2, <1>6, <2>2 DEF TryOk, Streamed
            <4>2. f.n \in 0..(Streamed - 1)
                BY <1>5, <2>4, PlansAreNat
            <4> QED
                BY <3>2, <4>1, <4>2 DEF Streamed
        <3>4. /\ TryOk(a, Settle(v), spent.tries)
              /\ Settle(v).path = v.path /\ Settle(v).plan = v.plan /\ Settle(v).got = v.got
              /\ Settle(v).pc = v.pc /\ Settle(v).own = v.own
              /\ Settle(v).at \in {"ready", "verify"}
            BY <1>4, <1>6, <3>2, <3>3, Settling
        <3> QED
            BY <1>2, <1>4, <2>1, <2>4, <3>1, <3>2, <3>4 DEF f
    <2> QED
        BY <1>5, <1>8, <2>3, <2>4
<1> QED
    BY <1>7, <1>8

\* Any frame of the data channel.
LEMMA ReadDirectSolid ==
    ASSUME Solid, ReadDirect
    PROVE  /\ Solid' /\ UNCHANGED <<h, hLive, told, rLive, tile, held, toH, toR, excused, spent>>
           /\ direct # <<>> /\ In(direct) = In(direct') \cup {Head(direct)}
           /\ \A a \in Tries : ~Reads(a, Head(direct).of) => r'[a] = r[a]
           /\ \A a \in Tries : r'[a].own = r[a].own /\ r'[a].pc = r[a].pc /\ r'[a].path = r[a].path
<1> DEFINE f == Head(direct)
<1>1. /\ f \in DirectFrames /\ f \in In(direct) /\ direct # <<>> /\ direct \in Seq(DirectFrames)
      /\ direct' = Tail(direct) /\ direct' \in Seq(DirectFrames)
      /\ In(direct) = In(direct') \cup {f} /\ In(direct') \subseteq In(direct)
    <2>1. direct # <<>> /\ direct \in Seq(DirectFrames) /\ direct' = Tail(direct)
        BY DEF ReadDirect, Solid, Wires
    <2> QED
        BY <2>1, TakeIn
<1>2. UNCHANGED <<h, hLive, told, rLive, tile, held, toH, toR, excused, spent>>
    BY DEF ReadDirect, HolderRests
<1>3. \A a \in Tries : ~Reads(a, f.of) => r'[a] = r[a]
    BY DEF ReadDirect
<1>4. \A a \in Tries : r[a].pc = "up" /\ r[a].own = f.of => ~Joined(a, f.of[1])
    BY DEF ReadDirect
<1>5. \A a \in Tries : r'[a].own = r[a].own /\ r'[a].pc = r[a].pc /\ r'[a].path = r[a].path
    BY <1>3, Reader
<1> HIDE DEF f
<1>6. Counts' /\ Receipts'
    BY <1>2 DEF Solid, Counts, Receipts
<1>7. Holder' /\ Offered' = Offered
    BY <1>2, CountsAreNat, HolderKeeps DEF Solid
<1>8. Wires'
    BY <1>1, <1>2, <1>7, CountsAreNat, WiresKeep DEF Solid, Wires
<1>9. \A a \in Tries : TryOk(a, r'[a], spent.tries)
    BY <1>3, Reader DEF Solid, Receiver, f
<1>10. r' \in [Tries -> TryRec]
    <2>1. r' = [a \in Tries |-> r'[a]]
        BY DEF ReadDirect
    <2> QED
        BY <1>9, <2>1 DEF TryOk
<1>11. rLive' # 0 => r'[rLive'].at \in {"asked", "ready", "verify"}
    <2> SUFFICES ASSUME rLive # 0 PROVE r'[rLive].at \in {"asked", "ready", "verify"}
        BY <1>2
    <2>1. rLive \in Tries /\ r[rLive].at \in {"asked", "ready", "verify"}
        BY LiveR
    <2> QED
        BY <1>3, <2>1, Reader DEF f
<1>12. Receiver'
    <2>1. \A a \in Tries : r'[a].pc # "no" => MadeOf(r'[a].own, Offered', spent'.calls)
        BY <1>2, <1>5, <1>7 DEF Solid, Receiver, Made
    <2> QED
        BY <1>2, <1>9, <1>10, <1>11, <2>1 DEF Solid, Receiver, Made
<1>13. \A a \in Tries, b \in Serves : Joined(a, b)' <=> Joined(a, b)
    BY <1>2, <1>5 DEF Joined
<1>14. ASSUME NEW a \in Tries, Awaiting(a)'
       PROVE  r'[a] = r[a] /\ Awaiting(a) /\ f \notin Headers(r[a].own)
    <2>1. r'[a] = r[a]
        <3>1. CASE Reads(a, f.of)
            <4>1. r'[a].plan = DirectBytes
                BY <3>1, Reader DEF f
            <4> QED
                BY <1>14, <4>1, PlansAreNat DEF Awaiting
        <3> QED
            BY <1>3, <3>1
    <2>2. Awaiting(a)
        BY <1>13, <1>14, <2>1 DEF Awaiting
    <2>3. ASSUME f \in Headers(r[a].own) PROVE FALSE
        <3>1. f.of = r[a].own
            BY <2>3 DEF Headers
        <3>2. CASE r[a].pc = "open"
            <4>1. Reads(a, f.of)
                BY <2>2, <3>1, <3>2 DEF Reads, Awaiting
            <4>2. r'[a].plan = DirectBytes
                BY <4>1, Reader DEF f
            <4> QED
                BY <1>14, <4>2, PlansAreNat DEF Awaiting
        <3>3. CASE r[a].pc # "open"
            <4>1. PICK b \in Serves : Joined(a, b)
                BY <2>2, <3>3 DEF Awaiting
            <4>2. h[b].to = f.of /\ h[b].to[1] = b /\ r[a].pc = "up"
                BY <3>1, <3>3, <4>1 DEF Joined, Solid, Holder, ServeOk
            <4> QED
                BY <1>4, <3>1, <4>1, <4>2
        <3> QED
            BY <3>2, <3>3
    <2> QED
        BY <2>1, <2>2, <2>3
<1>15. \A a \in Tries : Awaiting(a)' => Led(direct', Through(r'[a].own), Headers(r'[a].own))
    <2> SUFFICES ASSUME NEW a \in Tries, Awaiting(a)'
                 PROVE  Led(direct', Through(r'[a].own), Headers(r'[a].own))
        OBVIOUS
    <2>1. r'[a] = r[a] /\ Awaiting(a) /\ f \notin Headers(r[a].own)
        BY <1>14
    <2>2. Led(direct, Through(r[a].own), Headers(r[a].own))
        BY <2>1 DEF Solid, Channel
    <2> QED
        BY <1>1, <2>1, <2>2, TakeLed DEF f
<1>16. \A a \in Tries, b \in Serves : Awaiting(a)' /\ Joined(a, b)' /\ h'[b].pc = "open"
          => In(direct') \cap Headers(r'[a].own) # {}
    <2> SUFFICES ASSUME NEW a \in Tries, NEW b \in Serves, Awaiting(a)', Joined(a, b)', h'[b].pc = "open"
                 PROVE  In(direct') \cap Headers(r'[a].own) # {}
        OBVIOUS
    <2>1. r'[a] = r[a] /\ Awaiting(a) /\ f \notin Headers(r[a].own)
        BY <1>14
    <2>2. In(direct) \cap Headers(r[a].own) # {}
        BY <1>2, <1>13, <2>1 DEF Solid, Channel
    <2> QED
        BY <1>1, <2>1, <2>2
<1>17. ASSUME NEW a \in Tries, Reading(a)', r'[a].plan # 0, r[a].plan = 0
       PROVE  f \in Headers(r[a].own) /\ Reads(a, f.of)
    <2>1. Reads(a, f.of)
        BY <1>3, <1>17
    <2> QED
        BY <1>17, <2>1, Reader DEF f
<1>18. \A a \in Tries : Reading(a)' => Reading(a)
    BY <1>3, Reader DEF f, Reading
<1>19. \A a \in Tries : Reading(a)' /\ r'[a].plan # 0 => In(direct') \cap Headers(r'[a].own) = {}
    <2> SUFFICES ASSUME NEW a \in Tries, Reading(a)', r'[a].plan # 0
                 PROVE  In(direct') \cap Headers(r[a].own) = {}
        BY <1>5
    <2>1. CASE r[a].plan # 0
        BY <1>1, <1>18, <2>1 DEF Solid, Channel
    <2>2. CASE r[a].plan = 0
        <3>1. f \in Headers(r[a].own) /\ r[a].own \in Calls
            BY <1>17, <2>2 DEF Solid, Receiver, TryRec
        <3>2. Last(direct, Headers(r[a].own), Headers(r[a].own))
            BY <3>1 DEF Solid, Channel
        <3> QED
            BY <1>1, <3>1, <3>2, TakeLast DEF f
    <2> QED
        BY <2>1, <2>2
<1>20. \A a \in Tries, b \in Serves : Joined(a, b)' /\ Reading(a)' /\ r'[a].plan # 0 => h'[b].pc = "open"
    <2> SUFFICES ASSUME NEW a \in Tries, NEW b \in Serves, Joined(a, b), Reading(a)', r'[a].plan # 0
                 PROVE  h[b].pc = "open"
        BY <1>2, <1>13
    <2>1. CASE r[a].plan # 0
        BY <1>18, <2>1 DEF Solid, Channel
    <2>2. CASE r[a].plan = 0
        <3>1. f.of = r[a].own
            BY <1>17, <2>2 DEF Headers
        <3>2. h[f.of[1]].pc \in {"open", "no"}
            BY <1>1 DEF Solid, Channel
        <3>3. h[b].pc \in {"ready", "open"} /\ h[b].to = f.of /\ h[b].to[1] = b
            BY <3>1 DEF Joined, Solid, Holder, ServeOk
        <3> QED
            BY <3>2, <3>3
    <2> QED
        BY <2>1, <2>2
<1>21. /\ \A x \in In(direct') : /\ x.of[1] \in Serves
                                 /\ h'[x.of[1]].to = x.of /\ h'[x.of[1]].pc \in {"open", "no"}
       /\ \A c \in Calls : Last(direct', Headers(c), Headers(c))
    <2>1. \A c \in Calls : Last(Tail(direct), Headers(c), Headers(c))
        BY <1>1, TakeLast DEF Solid, Channel
    <2> QED
        BY <1>1, <1>2, <2>1 DEF Solid, Channel
<1>22. \A a \in Tries : Reading(a)' => h'[r'[a].own[1]].to = r'[a].own
    BY <1>2, <1>5, <1>18 DEF Solid, Channel
<1>23. Channel'
    BY <1>15, <1>16, <1>19, <1>20, <1>21, <1>22 DEF Channel
<1> QED
    BY <1>1, <1>2, <1>3, <1>5, <1>6, <1>7, <1>8, <1>12, <1>23 DEF Solid, f

-----------------------------------------------------------------------------
(* Steps of the holder *)

\* A transfer that is stopped.
LEMMA StoppingOk ==
    ASSUME NEW b \in Serves, NEW t, NEW serves, NEW calls, ServeOk(b, t, serves, calls), t.at # "none"
    PROVE  /\ ServeOk(b, Stopped(t), serves, calls)
           /\ Stopped(t).pc = "no" /\ Stopped(t).to = t.to /\ Stopped(t).ok = t.ok
           /\ Stopped(t).at \in {"prompt", "digest", "over"}
           /\ t.at \notin {"prompt", "digest"} => Stopped(t).at = "over"
           /\ t.at \notin Early => Stopped(t).at \notin Early
<1> DEFINE s == Stopped(t)
<1>1. t \in ServeRec
    BY DEF ServeOk
<1>2. /\ s.at = (IF t.at \in {"prompt", "digest"} THEN t.at ELSE "over")
      /\ s.done = TRUE /\ s.next = t.next /\ s.pc = "no" /\ s.to = t.to /\ s.ok = t.ok
    BY <1>1 DEF Stopped, ServeRec
<1>3. s \in ServeRec
    BY <1>1 DEF Stopped, ServeRec, Stages
<1> HIDE DEF s
<1>4. ~(b > serves)
    BY DEF ServeOk
<1>5. s.at \notin {"none", "race", "direct", "flush", "relay", "receipt"} /\ s.at \in {"prompt", "digest", "over"}
    BY <1>2
<1>6. ServeOk(b, s, serves, calls)
    BY <1>2, <1>3, <1>4, <1>5 DEF ServeOk, Early
<1> QED
    BY <1>2, <1>5, <1>6 DEF s, Early

\* A transfer of the holder.
LEMMA ServeIs ==
    ASSUME Solid, NEW b \in Serves
    PROVE  /\ ServeOk(b, h[b], spent.serves, spent.calls) /\ h[b] \in ServeRec
           /\ h[b].at # "none" => ~(b > spent.serves)
           /\ b # 0 /\ hLive = b => ~h[b].done
    BY DEF Solid, Holder, ServeOk, Serves

\* What is said to the receiver when a transfer is stopped.
LEMMA Telling ==
    ASSUME Solid, NEW k \in {"accept", "offer", "done", "deny", "error", "cancel", "chunk"}, NEW n \in Nat,
           toR' = Append(toR, Frame(k, n))
    PROVE  /\ toR' \in Seq(ReceiverFrames) /\ In(toR') = In(toR) \cup {Frame(k, n)}
           /\ Frame(k, n) \in ReceiverFrames /\ Frame(k, n).t = k /\ Frame(k, n).n = n
<1>1. Frame(k, n) \in ReceiverFrames /\ Frame(k, n).t = k /\ Frame(k, n).n = n
    BY FramesAre
<1> QED
    BY <1>1, AddIn DEF Solid, Wires

\* A transfer is stopped, whatever is said of it.
LEMMA StopsH ==
    ASSUME Solid, NEW b \in Serves, NEW t, t.at # "none",
           ServeOk(b, t, spent.serves, spent.calls), h[b].at \notin Early => t.at \notin Early,
           t.to = h[b].to, t.ok = h[b].ok,
           h' = [h EXCEPT ![b] = Stopped(t)], hLive' = 0,
           UNCHANGED <<r, rLive, tile, held, direct>>, Counts',
           spent'.tries = spent.tries, spent'.serves = spent.serves, spent'.calls = spent.calls,
           toH' \in Seq(HolderFrames), In(toH') \subseteq In(toH),
           toR' = toR \/ \E k \in {"deny", "error", "cancel"} : ToReceiver(k, 0), told' => held
    PROVE  /\ Solid' /\ h'[b] = Stopped(t) /\ (\A x \in Serves : x # b => h'[x] = h[x])
           /\ Offered \subseteq Offered'
<1>1. /\ ServeOk(b, Stopped(t), spent.serves, spent.calls)
      /\ Stopped(t).pc = "no" /\ Stopped(t).to = h[b].to /\ Stopped(t).ok = h[b].ok
      /\ h[b].at \notin Early => Stopped(t).at \notin Early
    BY StoppingOk
<1>2. /\ toR' \in Seq(ReceiverFrames)
      /\ \A f \in In(toR') : f \in In(toR) \/ (f.t # "chunk" /\ f.t # "offer")
    <2>1. CASE toR' = toR
        BY <2>1 DEF Solid, Wires
    <2>2. CASE \E k \in {"deny", "error", "cancel"} : ToReceiver(k, 0)
        <3>1. PICK k \in {"deny", "error", "cancel"} : toR' = Append(toR, Frame(k, 0))
            BY <2>2 DEF ToReceiver
        <3>2. toR' \in Seq(ReceiverFrames) /\ In(toR') = In(toR) \cup {Frame(k, 0)} /\ Frame(k, 0).t = k
            BY <3>1, Telling
        <3> QED
            BY <3>2
    <2> QED
        BY <2>1, <2>2
<1>3. h[b].ok => held
    BY DEF Solid, Receipts
<1>4. hLive' \in {hLive, 0} /\ hLive' # b
    BY DEF Serves
<1> HIDE DEF Solid
<1>5. Stopped(t).ok => held
    BY <1>1, <1>3
<1>6. \A f \in In(toR') : f \in In(toR) \/ /\ f.t = "chunk" => f.n < Relayed
                                           /\ f.t = "offer" => f.n = b /\ Stopped(t).at \notin Early
    BY <1>2
<1>7. Stopped(t).to = h[b].to /\ Stopped(t).pc \in {h[b].pc, "no"}
    BY <1>1
<1> QED
    BY <1>1, <1>2, <1>4, <1>5, <1>6, <1>7, SolidH

\* The transfer that is live is one of them.
LEMMA LiveH == ASSUME Solid, hLive # 0
               PROVE  hLive \in Serves /\ ~h[hLive].done /\ h[hLive].at # "none"
    BY CountsAreNat DEF Solid, Holder, Serves, ServeOk

\* Two frames are added.
LEMMA AddTwo ==
    ASSUME NEW S, NEW q \in Seq(S), NEW x \in S, NEW y \in S
    PROVE  /\ q \o <<x, y>> = Append(Append(q, x), y)
           /\ q \o <<x>> = Append(q, x)
           /\ q \o <<>> = q
<1> DEFINE two == <<x, y>>
           one == <<x>>
           p == q \o two
           s == q \o one
           o == Append(Append(q, x), y)
<1>1. Len(q) \in Nat /\ DOMAIN q = 1..Len(q)
    BY LenProperties
<1>2. two \in Seq(S) /\ Len(two) = 2 /\ two[1] = x /\ two[2] = y
    OBVIOUS
<1>3. one \in Seq(S) /\ Len(one) = 1 /\ one[1] = x
    OBVIOUS
<1> HIDE DEF two, one
<1>4. /\ p \in Seq(S) /\ Len(p) = Len(q) + Len(two)
      /\ \A i \in 1..(Len(q) + Len(two)) : p[i] = IF i <= Len(q) THEN q[i] ELSE two[i - Len(q)]
    BY <1>2, ConcatProperties
<1>5. /\ s \in Seq(S) /\ Len(s) = Len(q) + Len(one)
      /\ \A i \in 1..(Len(q) + Len(one)) : s[i] = IF i <= Len(q) THEN q[i] ELSE one[i - Len(q)]
    BY <1>3, ConcatProperties
<1>6. /\ Append(q, x) \in Seq(S) /\ Len(Append(q, x)) = Len(q) + 1
      /\ \A i \in 1..Len(q) : Append(q, x)[i] = q[i]
      /\ Append(q, x)[Len(q) + 1] = x
    BY AppendProperties
<1>7. /\ o \in Seq(S) /\ Len(o) = Len(Append(q, x)) + 1
      /\ \A i \in 1..Len(Append(q, x)) : o[i] = Append(q, x)[i]
      /\ o[Len(Append(q, x)) + 1] = y
    BY <1>6, AppendProperties
<1> HIDE DEF p, s, o
<1>8. p = o
    <2>1. Len(p) = Len(q) + 2 /\ Len(o) = Len(q) + 2
        BY <1>1, <1>2, <1>4, <1>6, <1>7
    <2>2. ASSUME NEW i \in 1..Len(p) PROVE p[i] = o[i]
        <3>1. CASE i \in 1..Len(q)
            BY <1>1, <1>2, <1>4, <1>6, <1>7, <2>1, <3>1
        <3>2. CASE i = Len(q) + 1
            BY <1>1, <1>2, <1>4, <1>6, <1>7, <2>1, <3>2
        <3>3. CASE i = Len(q) + 2
            BY <1>1, <1>2, <1>4, <1>6, <1>7, <2>1, <3>3
        <3> QED
            BY <1>1, <2>1, <3>1, <3>2, <3>3
    <2> QED
        BY <1>4, <1>7, <2>1, <2>2, SeqEqual
<1>9. s = Append(q, x)
    <2>1. Len(s) = Len(q) + 1
        BY <1>1, <1>3, <1>5
    <2>2. ASSUME NEW i \in 1..Len(s) PROVE s[i] = Append(q, x)[i]
        <3>1. CASE i \in 1..Len(q)
            BY <1>1, <1>3, <1>5, <1>6, <2>1, <3>1
        <3>2. CASE i = Len(q) + 1
            BY <1>1, <1>3, <1>5, <1>6, <2>1, <3>2
        <3> QED
            BY <1>1, <2>1, <3>1, <3>2
    <2> QED
        BY <1>5, <1>6, <2>1, <2>2, SeqEqual
<1>10. q \o <<>> = q
    BY ConcatEmptySeq
<1> QED
    BY <1>8, <1>9, <1>10 DEF p, s, o, two, one

\* A transfer of the holder moves, and may say something to the receiver.
LEMMA GoesSolid ==
    ASSUME Solid, NEW b \in Serves, NEW t, Goes(b, t), ReceiverRests, UNCHANGED <<toH, direct, told, spent>>,
           excused' \in BOOLEAN,
           ServeOk(b, t, spent.serves, spent.calls), h[b].at \notin Early => t.at \notin Early,
           t.done => h[b].done, t.ok = h[b].ok,
           t.to = h[b].to \/ (h[b].to = NoCall /\ t.to = NoCall),
           t.pc \in {h[b].pc, "no"} \/ (h[b].to = NoCall /\ t.pc = "up"),
           toR' \in Seq(ReceiverFrames),
           \A f \in In(toR') : f \in In(toR) \/ /\ f.t = "chunk" => f.n < Relayed
                                                /\ f.t = "offer" => f.n = b /\ t.at \notin Early
    PROVE  /\ Solid' /\ h'[b] = t /\ (\A x \in Serves : x # b => h'[x] = h[x])
           /\ Offered \subseteq Offered' /\ hLive' = hLive
<1>1. h' = [h EXCEPT ![b] = t] /\ hLive' = hLive /\ UNCHANGED <<r, rLive, tile, held>>
    BY DEF Goes, ReceiverRests
<1>2. Counts'
    BY <1>1 DEF Solid, Counts
<1>3. (h[b].ok => held) /\ (told => held)
    BY DEF Solid, Receipts
<1>4. hLive' = b => ~t.done
    BY <1>1, ServeIs DEF Serves
<1>5. toH' \in Seq(HolderFrames) /\ In(toH') \subseteq In(toH)
    BY DEF Solid, Wires
<1>6. t.ok => held
    BY <1>3
<1>7. told' => held
    BY <1>3
<1>8. \/ t.to = h[b].to /\ t.pc \in {h[b].pc, "no"}
      \/ h[b].to = NoCall /\ t.pc \in {"no", "up", "wrong"}
    OBVIOUS
<1>9. hLive' \in {hLive, 0} /\ spent'.tries = spent.tries /\ spent'.serves = spent.serves /\ spent'.calls = spent.calls
    BY <1>1
<1>10. \/ t.to = h[b].to /\ t.pc \in {h[b].pc, "no"}
       \/ h[b].to = NoCall /\ t.pc \in {"no", "up", "wrong"}
       \/ h[b].to = NoCall /\ t.pc = "ready" /\ t.to # NoCall /\ t.to[1] = b
    BY <1>8
<1>11. UNCHANGED <<r, rLive, tile, held, direct>>
    BY <1>1
<1> QED
    BY <1>1, <1>2, <1>4, <1>5, <1>6, <1>7, <1>9, <1>10, <1>11, SolidH

\* The user agrees.
LEMMA ApproveSolid ==
    ASSUME Solid, NEW b \in Serves, Approve(b)
    PROVE  /\ Solid' /\ (\A x \in Serves : x # b => h'[x] = h[x]) /\ hLive' = hLive
           /\ h[b].at = "prompt" /\ h'[b] = [h[b] EXCEPT !.at = IF ~h[b].done THEN "digest" ELSE "over"]
           /\ Offered \subseteq Offered'
<1> DEFINE t == [h[b] EXCEPT !.at = IF ~h[b].done THEN "digest" ELSE "over"]
<1>1. /\ ServeOk(b, h[b], spent.serves, spent.calls) /\ h[b] \in ServeRec /\ h[b].at = "prompt"
    BY ServeIs DEF Approve
<1>2. /\ Goes(b, t) /\ ReceiverRests /\ UNCHANGED <<toH, toR, direct, told, spent, excused>>
    BY DEF Approve, Proceeds
<1>3. /\ t.at = (IF ~h[b].done THEN "digest" ELSE "over") /\ t.done = h[b].done /\ t.next = h[b].next
      /\ t.pc = h[b].pc /\ t.to = h[b].to /\ t.ok = h[b].ok
    BY <1>1 DEF ServeRec
<1>4. t \in ServeRec
    BY <1>1 DEF ServeRec, Stages
<1> HIDE DEF t
<1>5. h[b].pc = "no" /\ h[b].to = NoCall
    BY <1>1 DEF ServeOk, Directly, Early
<1>6. t.at \in {"digest", "over"} /\ (t.done => t.at = "over")
    BY <1>3
<1>7. ServeOk(b, t, spent.serves, spent.calls)
    BY <1>1, <1>3, <1>4, <1>5, <1>6 DEF ServeOk, Early, Directly
<1>8. excused' \in BOOLEAN /\ toR' \in Seq(ReceiverFrames) /\ \A f \in In(toR') : f \in In(toR)
    BY <1>2 DEF Solid, Counts, Wires
<1>9. /\ Solid' /\ h'[b] = t /\ (\A x \in Serves : x # b => h'[x] = h[x])
      /\ Offered \subseteq Offered' /\ hLive' = hLive
    BY <1>1, <1>2, <1>3, <1>5, <1>7, <1>8, GoesSolid DEF Early
<1> QED
    BY <1>1, <1>9 DEF t

\* The plan is sent.
LEMMA AcceptSolid ==
    ASSUME Solid, NEW b \in Serves, Accept(b)
    PROVE  /\ Solid' /\ (\A x \in Serves : x # b => h'[x] = h[x]) /\ hLive' = hLive
           /\ h[b].at = "digest" /\ h'[b].next = 0 /\ h'[b].at \in {"over", "race", "relay"}
           /\ h'[b].at = "over" => toR' = toR /\ h'[b].pc = "no"
           /\ h'[b].at = "relay" => toR' = Append(toR, Frame("accept", 0)) /\ h'[b].pc = "no"
           /\ h'[b].at = "race" =>
                toR' = Append(Append(toR, Frame("accept", 0)), Frame("offer", b)) /\ h'[b].pc = "up"
           /\ Offered \subseteq Offered' /\ UNCHANGED excused
<1>1. /\ ServeOk(b, h[b], spent.serves, spent.calls) /\ h[b] \in ServeRec /\ h[b].at = "digest"
      /\ toR \in Seq(ReceiverFrames)
    BY ServeIs DEF Accept, Solid, Wires
<1>2. ReceiverRests /\ UNCHANGED <<toH, direct, told, spent, excused>> /\ excused' \in BOOLEAN
    BY DEF Accept, Solid, Counts
<1>3. h[b].pc = "no" /\ h[b].to = NoCall /\ h[b].next = 0 /\ b \in Nat
    BY <1>1 DEF ServeOk, Directly, Early, Serves
<1>4. Frame("accept", 0) \in ReceiverFrames /\ Frame("accept", 0).t = "accept"
    BY FramesAre
<1>5. Frame("offer", b) \in ReceiverFrames /\ Frame("offer", b).t = "offer" /\ Frame("offer", b).n = b
    BY <1>3, FramesAre
<1>6. CASE h[b].done
    <2> DEFINE t == [h[b] EXCEPT !.at = "over"]
    <2>1. Goes(b, t) /\ toR' = toR
        BY <1>6 DEF Accept, Proceeds
    <2>2. /\ t.at = "over" /\ t.done = h[b].done /\ t.next = 0 /\ t.pc = "no" /\ t.to = NoCall
          /\ t.ok = h[b].ok /\ t \in ServeRec
        BY <1>1, <1>3 DEF ServeRec, Stages
    <2> HIDE DEF t
    <2>3. ServeOk(b, t, spent.serves, spent.calls)
        BY <1>1, <2>2 DEF ServeOk, Early, Directly
    <2>4. toR' \in Seq(ReceiverFrames) /\ \A f \in In(toR') : f \in In(toR)
        BY <1>1, <2>1
    <2>5. /\ Solid' /\ h'[b] = t /\ (\A x \in Serves : x # b => h'[x] = h[x])
          /\ Offered \subseteq Offered' /\ hLive' = hLive
        BY <1>1, <1>2, <1>3, <2>1, <2>2, <2>3, <2>4, GoesSolid DEF Early
    <2> QED
        BY <1>1, <1>2, <2>1, <2>2, <2>5
<1>7. CASE /\ ~h[b].done /\ Goes(b, [h[b] EXCEPT !.at = "race", !.pc = "up"])
           /\ toR' = toR \o <<Frame("accept", 0), Frame("offer", b)>>
    <2> DEFINE t == [h[b] EXCEPT !.at = "race", !.pc = "up"]
               q == Append(toR, Frame("accept", 0))
    <2>1. Goes(b, t) /\ toR' = Append(q, Frame("offer", b))
        BY <1>1, <1>4, <1>5, <1>7, AddTwo
    <2>2. /\ t.at = "race" /\ t.done = FALSE /\ t.next = 0 /\ t.pc = "up" /\ t.to = NoCall
          /\ t.ok = h[b].ok /\ t \in ServeRec
        BY <1>1, <1>3, <1>7 DEF ServeRec, Stages
    <2> HIDE DEF t
    <2>3. ServeOk(b, t, spent.serves, spent.calls)
        BY <1>1, <2>2 DEF ServeOk, Early, Directly
    <2>4. q \in Seq(ReceiverFrames) /\ In(q) = In(toR) \cup {Frame("accept", 0)}
        BY <1>1, <1>4, AddIn
    <2> HIDE DEF q
    <2>5. toR' \in Seq(ReceiverFrames) /\ In(toR') = In(q) \cup {Frame("offer", b)}
        BY <1>5, <2>1, <2>4, AddIn
    <2>6. \A f \in In(toR') : f \in In(toR) \/ /\ f.t = "chunk" => f.n < Relayed
                                               /\ f.t = "offer" => f.n = b /\ t.at \notin Early
        BY <1>4, <1>5, <2>2, <2>4, <2>5 DEF Early
    <2>7. /\ Solid' /\ h'[b] = t /\ (\A x \in Serves : x # b => h'[x] = h[x])
          /\ Offered \subseteq Offered' /\ hLive' = hLive
        BY <1>1, <1>2, <1>3, <1>7, <2>1, <2>2, <2>3, <2>5, <2>6, GoesSolid DEF Early
    <2> QED
        BY <1>1, <1>2, <2>1, <2>2, <2>7 DEF q
<1>8. CASE /\ ~h[b].done /\ Goes(b, [h[b] EXCEPT !.at = "relay"])
           /\ ToReceiver("accept", 0)
    <2> DEFINE t == [h[b] EXCEPT !.at = "relay"]
    <2>1. Goes(b, t) /\ toR' = Append(toR, Frame("accept", 0))
        BY <1>8 DEF ToReceiver
    <2>2. /\ t.at = "relay" /\ t.done = FALSE /\ t.next = 0 /\ t.pc = "no" /\ t.to = NoCall
          /\ t.ok = h[b].ok /\ t \in ServeRec
        BY <1>1, <1>3, <1>8 DEF ServeRec, Stages
    <2> HIDE DEF t
    <2>3. ServeOk(b, t, spent.serves, spent.calls)
        BY <1>1, <2>2 DEF ServeOk, Early, Directly
    <2>4. toR' \in Seq(ReceiverFrames) /\ In(toR') = In(toR) \cup {Frame("accept", 0)}
        BY <1>1, <1>4, <2>1, AddIn
    <2>5. \A f \in In(toR') : f \in In(toR) \/ /\ f.t = "chunk" => f.n < Relayed
                                               /\ f.t = "offer" => f.n = b /\ t.at \notin Early
        BY <1>4, <2>4
    <2>6. /\ Solid' /\ h'[b] = t /\ (\A x \in Serves : x # b => h'[x] = h[x])
          /\ Offered \subseteq Offered' /\ hLive' = hLive
        BY <1>1, <1>2, <1>3, <1>8, <2>1, <2>2, <2>3, <2>4, <2>5, GoesSolid DEF Early
    <2> QED
        BY <1>1, <1>2, <2>1, <2>2, <2>6
<1> QED
    BY <1>6, <1>7, <1>8 DEF Accept, Proceeds

\* The race is lost.
LEMMA ToRelaySolid ==
    ASSUME Solid, NEW b \in Serves, ToRelay(b)
    PROVE  /\ Solid' /\ (\A x \in Serves : x # b => h'[x] = h[x]) /\ hLive' = hLive
           /\ h[b].at = "race" /\ h'[b].next = 0 /\ h'[b].at = "relay" /\ h'[b].pc = "no"
           /\ Offered \subseteq Offered'
<1> DEFINE t == [h[b] EXCEPT !.at = "relay", !.pc = "no"]
<1>1. /\ ServeOk(b, h[b], spent.serves, spent.calls) /\ h[b] \in ServeRec /\ h[b].at = "race"
    BY ServeIs DEF ToRelay, Racing
<1>2. Goes(b, t) /\ ReceiverRests /\ UNCHANGED <<toH, toR, direct, told, spent>> /\ excused' \in BOOLEAN
    BY DEF ToRelay, Solid, Counts
<1>3. h[b].next = 0 /\ ~h[b].done
    BY <1>1 DEF ServeOk, Early
<1>4. /\ t.at = "relay" /\ t.done = h[b].done /\ t.next = 0 /\ t.pc = "no" /\ t.to = h[b].to
      /\ t.ok = h[b].ok /\ t \in ServeRec
    BY <1>1, <1>3 DEF ServeRec, Stages
<1> HIDE DEF t
<1>5. ServeOk(b, t, spent.serves, spent.calls)
    BY <1>1, <1>3, <1>4 DEF ServeOk, Early, Directly
<1>6. toR' \in Seq(ReceiverFrames) /\ \A f \in In(toR') : f \in In(toR)
    BY <1>2 DEF Solid, Wires
<1>7. /\ Solid' /\ h'[b] = t /\ (\A x \in Serves : x # b => h'[x] = h[x])
      /\ Offered \subseteq Offered' /\ hLive' = hLive
    BY <1>1, <1>2, <1>4, <1>5, <1>6, GoesSolid DEF Early
<1> QED
    BY <1>1, <1>4, <1>7

\* A piece goes through the relay, and the end behind the last.
LEMMA SendChunkSolid ==
    ASSUME Solid, NEW b \in Serves, SendChunk(b)
    PROVE  /\ Solid' /\ (\A x \in Serves : x # b => h'[x] = h[x]) /\ hLive' = hLive
           /\ h[b].at = "relay" /\ h[b].next \in Nat /\ h'[b].next = h[b].next + 1 /\ h'[b].pc = "no"
           /\ h'[b].at = (IF h[b].next + 1 >= Relayed THEN "receipt" ELSE "relay")
           /\ \E q : /\ q \in Seq(ReceiverFrames)
                     /\ \/ h[b].next < Relayed /\ q = Append(toR, Frame("chunk", h[b].next))
                        \/ h[b].next >= Relayed /\ q = toR
                     /\ toR' = (IF h[b].next + 1 >= Relayed THEN Append(q, Frame("done", 0)) ELSE q)
           /\ Offered \subseteq Offered' /\ UNCHANGED excused
<1> DEFINE n == h[b].next
           last == n + 1 >= Relayed
           t == [h[b] EXCEPT !.next = n + 1, !.at = IF last THEN "receipt" ELSE @]
           q == IF n < Relayed THEN Append(toR, Frame("chunk", n)) ELSE toR
<1>1. /\ ServeOk(b, h[b], spent.serves, spent.calls) /\ h[b] \in ServeRec /\ h[b].at = "relay"
      /\ toR \in Seq(ReceiverFrames) /\ Relayed \in Nat
    BY ServeIs, PlansAreNat DEF SendChunk, Solid, Wires
<1>2. Goes(b, t) /\ ReceiverRests /\ UNCHANGED <<toH, direct, told, spent, excused>> /\ excused' \in BOOLEAN
    BY DEF SendChunk, Solid, Counts, Relayed
<1>3. n \in Nat /\ ~h[b].done /\ h[b].pc = "no"
    BY <1>1 DEF ServeOk, ServeRec, Directly
<1>4. /\ t.at = (IF last THEN "receipt" ELSE "relay") /\ t.done = h[b].done /\ t.next = n + 1 /\ t.pc = "no"
      /\ t.to = h[b].to /\ t.ok = h[b].ok
    BY <1>1, <1>3 DEF ServeRec
<1>5. t \in ServeRec
    <2>1. "receipt" \in Stages /\ "relay" \in Stages
        BY DEF Stages
    <2>2. t = [h[b] EXCEPT !.next = n + 1, !.at = t.at] /\ t.at \in Stages
        BY <1>1, <1>4, <2>1
    <2>3. n + 1 \in Nat
        BY <1>3
    <2> HIDE DEF t
    <2> QED
        BY <1>1, <2>2, <2>3 DEF ServeRec
<1>6. Frame("chunk", n) \in ReceiverFrames /\ Frame("chunk", n).t = "chunk" /\ Frame("chunk", n).n = n
    BY <1>3, FramesAre
<1>7. Frame("done", 0) \in ReceiverFrames /\ Frame("done", 0).t = "done"
    BY FramesAre
<1>8. q \in Seq(ReceiverFrames) /\ \A f \in In(q) : f \in In(toR) \/ (f.t = "chunk" /\ f.n < Relayed)
    BY <1>1, <1>6, AddIn
<1>9. toR' = (IF last THEN Append(q, Frame("done", 0)) ELSE q)
    <2> DEFINE c == IF n < Relayed THEN <<Frame("chunk", n)>> ELSE <<>>
               d == IF last THEN <<Frame("done", 0)>> ELSE <<>>
    <2>1. toR' = toR \o c \o d
        BY DEF SendChunk, Relayed
    <2>2. toR \o c = q
        BY <1>1, <1>6, <1>7, AddTwo
    <2> HIDE DEF q, c
    <2>3. q \o d = (IF last THEN Append(q, Frame("done", 0)) ELSE q)
        BY <1>7, <1>8, AddTwo
    <2> QED
        BY <2>1, <2>2, <2>3
<1> HIDE DEF t, q
<1>10. t.at \in {"receipt", "relay"}
    BY <1>4
<1>11. ServeOk(b, t, spent.serves, spent.calls)
    BY <1>1, <1>3, <1>4, <1>5, <1>10 DEF ServeOk, Early, Directly
<1>12. /\ toR' \in Seq(ReceiverFrames)
       /\ \A f \in In(toR') : f \in In(toR) \/ (f.t = "chunk" /\ f.n < Relayed) \/ f.t = "done"
    <2>1. CASE last
        <3>1. toR' \in Seq(ReceiverFrames) /\ In(toR') = In(q) \cup {Frame("done", 0)}
            BY <1>7, <1>8, <1>9, <2>1, AddIn
        <3> QED
            BY <1>7, <1>8, <3>1
    <2>2. CASE ~last
        BY <1>8, <1>9, <2>2
    <2> QED
        BY <2>1, <2>2
<1>13. \A f \in In(toR') : f \in In(toR) \/ /\ f.t = "chunk" => f.n < Relayed
                                            /\ f.t = "offer" => f.n = b /\ t.at \notin Early
    BY <1>12
<1>14. /\ Solid' /\ h'[b] = t /\ (\A x \in Serves : x # b => h'[x] = h[x])
       /\ Offered \subseteq Offered' /\ hLive' = hLive
    BY <1>1, <1>2, <1>4, <1>10, <1>11, <1>12, <1>13, GoesSolid DEF Early
<1>15. /\ q \in Seq(ReceiverFrames)
       /\ \/ n < Relayed /\ q = Append(toR, Frame("chunk", n))
          \/ n >= Relayed /\ q = toR
    BY <1>1, <1>3, <1>8 DEF q
<1> QED
    BY <1>1, <1>2, <1>3, <1>4, <1>9, <1>14, <1>15

\* All that was queued has left.
LEMMA FlushedSolid ==
    ASSUME Solid, NEW b \in Serves, Flushed(b)
    PROVE  /\ Solid' /\ (\A x \in Serves : x # b => h'[x] = h[x]) /\ hLive' = hLive
           /\ h[b].at = "flush" /\ h'[b].at = "receipt" /\ h'[b].pc = "no" /\ ~Underway(b)
           /\ Offered \subseteq Offered'
<1> DEFINE t == [h[b] EXCEPT !.at = "receipt", !.pc = "no"]
<1>1. /\ ServeOk(b, h[b], spent.serves, spent.calls) /\ h[b] \in ServeRec /\ h[b].at = "flush" /\ ~Underway(b)
    BY ServeIs DEF Flushed
<1>2. /\ Goes(b, t) /\ ReceiverRests /\ UNCHANGED <<toH, toR, direct, told, spent, excused>>
      /\ excused' \in BOOLEAN
    BY DEF Flushed, Solid, Counts
<1>3. ~h[b].done
    BY <1>1 DEF ServeOk
<1>4. /\ t.at = "receipt" /\ t.done = h[b].done /\ t.next = h[b].next /\ t.pc = "no" /\ t.to = h[b].to
      /\ t.ok = h[b].ok /\ t \in ServeRec
    BY <1>1, <1>3 DEF ServeRec, Stages
<1> HIDE DEF t
<1>5. ServeOk(b, t, spent.serves, spent.calls)
    BY <1>1, <1>3, <1>4 DEF ServeOk, Early, Directly
<1>6. toR' \in Seq(ReceiverFrames) /\ \A f \in In(toR') : f \in In(toR)
    BY <1>2 DEF Solid, Wires
<1>7. /\ Solid' /\ h'[b] = t /\ (\A x \in Serves : x # b => h'[x] = h[x])
      /\ Offered \subseteq Offered' /\ hLive' = hLive
    BY <1>1, <1>2, <1>4, <1>5, <1>6, GoesSolid DEF Early
<1> QED
    BY <1>1, <1>4, <1>7

\* The transfer is stopped, or its receipt is no longer awaited.
LEMMA OneStops ==
    ASSUME Solid, NEW b \in Serves, Deny(b) \/ Breaks(b) \/ Receipt(b)
    PROVE  /\ Solid' /\ (\A x \in Serves : x # b => h'[x] = h[x]) /\ hLive' = 0
           /\ Receipt(b) => h[b].at = "receipt" /\ h'[b].at = "over" /\ h'[b].pc = "no" /\ toR' = toR
           /\ Offered \subseteq Offered'
<1>1. /\ ServeOk(b, h[b], spent.serves, spent.calls) /\ h[b] \in ServeRec
      /\ toH \in Seq(HolderFrames) /\ excused \in BOOLEAN /\ told \in BOOLEAN /\ Counts
      /\ (told => held) /\ (h[b].ok => held)
    BY ServeIs DEF Solid, Wires, Counts, Receipts
<1>2. CASE Deny(b)
    <2> DEFINE s == [h[b] EXCEPT !.at = "over"]
    <2>1. /\ h[b].at = "prompt" /\ h' = [h EXCEPT ![b] = Stopped(s)] /\ hLive' = 0 /\ ToReceiver("deny", 0)
          /\ UNCHANGED <<r, rLive, tile, held, direct, toH, told, spent>> /\ excused' = TRUE
        BY <1>2 DEF Deny, ReceiverRests
    <2>2. /\ s.at = "over" /\ s.done = h[b].done /\ s.next = h[b].next /\ s.pc = h[b].pc /\ s.to = h[b].to
          /\ s.ok = h[b].ok /\ s \in ServeRec
        BY <1>1 DEF ServeRec, Stages
    <2> HIDE DEF s
    <2>3. h[b].pc = "no" /\ h[b].to = NoCall
        BY <1>1, <2>1 DEF ServeOk, Directly, Early
    <2>4. ServeOk(b, s, spent.serves, spent.calls)
        BY <1>1, <2>1, <2>2, <2>3 DEF ServeOk, Early, Directly
    <2>5. Counts'
        BY <1>1, <2>1 DEF Counts
    <2>6. /\ Solid' /\ (\A x \in Serves : x # b => h'[x] = h[x]) /\ Offered \subseteq Offered'
        BY <1>1, <2>1, <2>2, <2>4, <2>5, StopsH DEF Early
    <2>7. ~Receipt(b)
        BY <2>1 DEF Receipt
    <2> QED
        BY <2>1, <2>6, <2>7
<1>3. CASE Breaks(b)
    <2>1. /\ h[b].at \in {"direct", "flush"} /\ h' = [h EXCEPT ![b] = Stopped(h[b])] /\ hLive' = 0
          /\ ToReceiver("error", 0)
          /\ UNCHANGED <<r, rLive, tile, held, direct, toH, told, spent>> /\ excused' = TRUE
        BY <1>3 DEF Breaks, AbortH, FinishH, StopH, ReceiverRests
    <2>2. Counts'
        BY <1>1, <2>1 DEF Counts
    <2>3. /\ Solid' /\ (\A x \in Serves : x # b => h'[x] = h[x]) /\ Offered \subseteq Offered'
        BY <1>1, <2>1, <2>2, StopsH
    <2>4. ~Receipt(b)
        BY <2>1 DEF Receipt
    <2> QED
        BY <2>1, <2>3, <2>4
<1>4. CASE Receipt(b)
    <2>1. /\ h[b].at = "receipt" /\ h' = [h EXCEPT ![b] = Stopped(h[b])] /\ hLive' = 0
          /\ UNCHANGED <<r, rLive, tile, held, direct, toH, toR, excused, spent>>
          /\ told' = (told \/ h[b].ok)
        BY <1>4 DEF Receipt, FinishH, StopH, ReceiverRests, Confirmed
    <2>2. told' \in BOOLEAN /\ (told' => held)
        BY <1>1, <2>1
    <2>3. Counts'
        BY <1>1, <2>1, <2>2 DEF Counts
    <2>4. /\ Solid' /\ h'[b] = Stopped(h[b]) /\ (\A x \in Serves : x # b => h'[x] = h[x])
          /\ Offered \subseteq Offered'
        BY <1>1, <2>1, <2>2, <2>3, StopsH
    <2>5. h'[b].at = "over" /\ h'[b].pc = "no"
        <3>1. h[b].at = "receipt" /\ h[b].at # "none" /\ h[b].at \notin {"prompt", "digest"}
            BY <2>1
        <3>2. Stopped(h[b]).at = "over" /\ Stopped(h[b]).pc = "no"
            BY <1>1, <3>1, StoppingOk
        <3> QED
            BY <2>4, <3>2
    <2> QED
        BY <2>1, <2>4, <2>5
<1> QED
    BY <1>2, <1>3, <1>4

\* The live one is cancelled.
LEMMA CancelHStops == ASSUME Solid, CancelH PROVE Solid'
<1>1. /\ hLive \in Serves /\ h[hLive].at # "none"
      /\ ServeOk(hLive, h[hLive], spent.serves, spent.calls)
      /\ toH \in Seq(HolderFrames) /\ (told => held)
    BY LiveH, ServeIs DEF CancelH, Solid, Wires, Receipts
<1>2. /\ h' = [h EXCEPT ![hLive] = Stopped(h[hLive])] /\ hLive' = 0 /\ ToReceiver("cancel", 0)
      /\ UNCHANGED <<r, rLive, tile, held, direct, toH, told>> /\ excused' = TRUE /\ Spend("cancels")
    BY DEF CancelH, FinishH, StopH, ReceiverRests
<1>3. /\ spent' \in SpentRec /\ spent'.tries = spent.tries /\ spent'.serves = spent.serves
      /\ spent'.calls = spent.calls
    BY <1>2, Spends DEF Solid
<1>4. Counts'
    BY <1>2, <1>3 DEF Solid, Counts
<1> QED
    BY <1>1, <1>2, <1>3, <1>4, StopsH

-----------------------------------------------------------------------------
(* What the holder sends through the data channel *)

\* A frame that follows its header, or is it.
LEMMA FeedsSolid ==
    ASSUME Solid, NEW b \in Serves, NEW t, NEW k \in {"hdr", "chunk", "fin"}, NEW n \in Nat,
           Goes(b, t), ReceiverRests, UNCHANGED <<toH, toR, told, spent, excused>>,
           direct' = Append(direct, FrameOf(h[b].to, k, n)),
           k = "hdr" => h[b].pc = "ready", k # "hdr" => h[b].pc = "open", k = "chunk" => n < Streamed,
           ServeOk(b, t, spent.serves, spent.calls), t.at \notin Early, h[b].pc \in {"ready", "open"},
           t.done => h[b].done, t.ok = h[b].ok, t.to = h[b].to, t.pc = "open"
    PROVE  /\ Solid' /\ h'[b] = t /\ (\A x \in Serves : x # b => h'[x] = h[x]) /\ hLive' = hLive
           /\ In(direct') = In(direct) \cup {FrameOf(h[b].to, k, n)}
           /\ Offered \subseteq Offered'
<1> DEFINE c == h[b].to
           f == FrameOf(c, k, n)
<1>1. h' = [h EXCEPT ![b] = t] /\ hLive' = hLive /\ UNCHANGED <<r, rLive, tile, held>>
    BY DEF Goes, ReceiverRests
<1>2. /\ ServeOk(b, h[b], spent.serves, spent.calls) /\ h[b] \in ServeRec /\ c \in Calls /\ c[1] = b
      /\ (b # 0 /\ hLive = b => ~h[b].done) /\ b # 0
    BY ServeIs DEF ServeOk, ServeRec, Serves
<1>3. f \in DirectFrames /\ f.t = k /\ f.n = n /\ f.of = c
    BY <1>2, FramesAre
<1> HIDE DEF f, c
<1>4. /\ direct \in Seq(DirectFrames) /\ direct' = Append(direct, f) /\ direct' \in Seq(DirectFrames)
      /\ In(direct') = In(direct) \cup {f}
    <2>1. direct \in Seq(DirectFrames) /\ direct' = Append(direct, f)
        BY DEF Solid, Wires, f, c
    <2> QED
        BY <1>3, <2>1, AddIn
<1>5. Counts' /\ Receipts'
    <2>1. Counts'
        BY <1>1 DEF Solid, Counts
    <2>2. \A x \in Serves : h'[x].ok = h[x].ok
        BY <1>1 DEF Solid, Holder
    <2> QED
        BY <1>1, <2>1, <2>2 DEF Solid, Receipts
<1>6. /\ Holder' /\ h'[b] = t /\ (\A x \in Serves : x # b => h'[x] = h[x]) /\ Offered \subseteq Offered'
    <2>1. hLive' \in {hLive, 0} /\ (hLive' = b => ~t.done)
        BY <1>1, <1>2
    <2>2. Counts /\ Holder
        BY DEF Solid
    <2> QED
        BY <1>1, <2>1, <2>2, HolderMoves
<1>7. Receiver'
    BY <1>1, <1>6, CountsAreNat, ReceiverKeeps DEF Solid
<1>8. Wires'
    <2>1. \A x \in In(direct') : x \in In(direct) \/ (x.t = "chunk" => x.n < Streamed)
        BY <1>3, <1>4
    <2> QED
        BY <1>4, <1>6, <2>1, CountsAreNat, WiresKeep DEF Solid, Wires
<1>9. \A a \in Tries, x \in Serves : Joined(a, x)' <=> Joined(a, x)
    <2>1. \A x \in Serves : h'[x].to = h[x].to /\ (h'[x].pc \in {"ready", "open"} <=> h[x].pc \in {"ready", "open"})
        BY <1>6
    <2> QED
        BY <1>1, <2>1 DEF Joined
<1>10. \A a \in Tries : (Awaiting(a)' <=> Awaiting(a)) /\ (Reading(a)' <=> Reading(a))
    BY <1>1, <1>9 DEF Awaiting, Reading
<1>11. \A a \in Tries : (Awaiting(a) \/ Reading(a)) /\ r[a].own = c => Joined(a, b)
    BY DEF Awaiting, Reading, Joined, c
<1>12. \A x \in Serves : h'[x].to = h[x].to /\ (h[x].pc \in {"open", "no"} => h'[x].pc \in {"open", "no"})
    BY <1>6
<1>13. \A x \in In(direct') : /\ x.of[1] \in Serves
                              /\ h'[x.of[1]].to = x.of /\ h'[x.of[1]].pc \in {"open", "no"}
    <2>1. \A x \in In(direct) : /\ x.of[1] \in Serves
                                /\ h[x.of[1]].to = x.of /\ h[x.of[1]].pc \in {"open", "no"}
        BY DEF Solid, Channel
    <2>2. f.of[1] = b /\ h'[b].to = c /\ h'[b].pc = "open"
        BY <1>2, <1>3, <1>6 DEF c
    <2> QED
        BY <1>3, <1>4, <1>12, <2>1, <2>2
<1>14. k = "hdr" => In(direct) \cap Through(c) = {}
    <2> SUFFICES ASSUME k = "hdr", NEW x \in In(direct), x.of = c PROVE FALSE
        BY DEF Through
    <2>1. h[x.of[1]].pc \in {"open", "no"} /\ x.of[1] = b
        BY <1>2 DEF Solid, Channel
    <2> QED
        BY <2>1
<1>15. \A d \in Calls : Last(direct', Headers(d), Headers(d))
    <2> SUFFICES ASSUME NEW d \in Calls PROVE Last(direct', Headers(d), Headers(d))
        OBVIOUS
    <2>1. Last(direct, Headers(d), Headers(d))
        BY DEF Solid, Channel
    <2>2. f \notin Headers(d) \/ In(direct) \cap Headers(d) = {}
        BY <1>3, <1>14 DEF Headers, Through
    <2> QED
        BY <1>3, <1>4, <2>1, <2>2, AddLast
<1>16. \A a \in Tries : Awaiting(a)' => Led(direct', Through(r'[a].own), Headers(r'[a].own))
    <2> SUFFICES ASSUME NEW a \in Tries, Awaiting(a) PROVE Led(direct', Through(r[a].own), Headers(r[a].own))
        BY <1>1, <1>10
    <2>1. Led(direct, Through(r[a].own), Headers(r[a].own))
        BY DEF Solid, Channel
    <2>2. \/ f \notin Through(r[a].own) \/ f \in Headers(r[a].own)
          \/ In(direct) \cap Headers(r[a].own) # {}
        <3>1. CASE r[a].own # c
            BY <1>3, <3>1 DEF Through
        <3>2. CASE r[a].own = c /\ k = "hdr"
            BY <1>3, <3>2 DEF Headers
        <3>3. CASE r[a].own = c /\ k # "hdr"
            BY <1>11, <3>3 DEF Solid, Channel
        <3> QED
            BY <3>1, <3>2, <3>3
    <2> QED
        BY <1>3, <1>4, <2>1, <2>2, AddLed
<1>17. \A a \in Tries, x \in Serves : Awaiting(a)' /\ Joined(a, x)' /\ h'[x].pc = "open"
          => In(direct') \cap Headers(r'[a].own) # {}
    <2> SUFFICES ASSUME NEW a \in Tries, NEW x \in Serves, Awaiting(a), Joined(a, x), h'[x].pc = "open"
                 PROVE  In(direct') \cap Headers(r[a].own) # {}
        BY <1>1, <1>9, <1>10
    <2>1. CASE h[x].pc = "open"
        BY <1>4, <2>1 DEF Solid, Channel
    <2>2. CASE h[x].pc # "open"
        <3>1. x = b /\ k = "hdr"
            BY <1>6, <2>2
        <3>2. r[a].own = c
            BY <3>1 DEF Joined, c
        <3>3. f \in Headers(r[a].own)
            BY <1>3, <3>1, <3>2 DEF Headers
        <3> QED
            BY <1>4, <3>3
    <2> QED
        BY <2>1, <2>2
<1>18. \A a \in Tries : Reading(a)' /\ r'[a].plan # 0 => In(direct') \cap Headers(r'[a].own) = {}
    <2> SUFFICES ASSUME NEW a \in Tries, Reading(a), r[a].plan # 0 PROVE In(direct') \cap Headers(r[a].own) = {}
        BY <1>1, <1>10
    <2>1. In(direct) \cap Headers(r[a].own) = {}
        BY DEF Solid, Channel
    <2>2. f \notin Headers(r[a].own)
        <3>1. CASE r[a].own # c
            BY <1>3, <3>1 DEF Headers
        <3>2. CASE k # "hdr"
            BY <1>3, <3>2 DEF Headers
        <3>3. CASE r[a].own = c /\ k = "hdr"
            <4>1. h[b].pc = "open"
                BY <1>11, <3>3 DEF Solid, Channel
            <4> QED
                BY <3>3, <4>1
        <3> QED
            BY <3>1, <3>2, <3>3
    <2> QED
        BY <1>4, <2>1, <2>2
<1>19. \A a \in Tries, x \in Serves : Joined(a, x)' /\ Reading(a)' /\ r'[a].plan # 0 => h'[x].pc = "open"
    <2> SUFFICES ASSUME NEW a \in Tries, NEW x \in Serves, Joined(a, x), Reading(a), r[a].plan # 0
                 PROVE  h'[x].pc = "open"
        BY <1>1, <1>9, <1>10
    <2>1. h[x].pc = "open"
        BY DEF Solid, Channel
    <2> QED
        BY <1>6, <2>1
<1>20. \A a \in Tries : Reading(a)' => h'[r'[a].own[1]].to = r'[a].own
    <2> SUFFICES ASSUME NEW a \in Tries, Reading(a) PROVE h'[r[a].own[1]].to = r[a].own
        BY <1>1, <1>10
    <2>1. h[r[a].own[1]].to = r[a].own /\ r[a].own[1] \in Serves
        BY DEF Solid, Channel, Receiver, Reading, Made, MadeOf, Offered
    <2> QED
        BY <1>12, <2>1
<1>21. Channel'
    BY <1>13, <1>15, <1>16, <1>17, <1>18, <1>19, <1>20 DEF Channel
<1> QED
    BY <1>1, <1>4, <1>5, <1>6, <1>7, <1>8, <1>21 DEF Solid, f, c

\* The connection opens at the holder's end.
LEMMA OpenHSolid ==
    ASSUME Solid, NEW b \in Serves, OpenH(b)
    PROVE  /\ Solid' /\ (\A x \in Serves : x # b => h'[x] = h[x]) /\ hLive' = hLive
           /\ Linked(b) /\ h[b].pc = "ready" /\ h[b].at = "race"
           /\ h'[b].at = "direct" /\ h'[b].pc = "open" /\ h'[b].next = 0 /\ h'[b].to = h[b].to
           /\ In(direct) \subseteq In(direct')
<1> DEFINE t == [h[b] EXCEPT !.at = "direct", !.pc = "open"]
<1>1. /\ ServeOk(b, h[b], spent.serves, spent.calls) /\ h[b] \in ServeRec /\ h[b].at = "race"
      /\ h[b].pc = "ready" /\ Linked(b)
    BY ServeIs DEF OpenH, Racing
<1>2. /\ Goes(b, t) /\ ReceiverRests /\ UNCHANGED <<toH, toR, told, spent, excused>>
      /\ direct' = Append(direct, FrameOf(h[b].to, "hdr", 0))
    BY DEF OpenH
<1>3. h[b].next = 0 /\ ~h[b].done /\ h[b].to[1] = b
    BY <1>1 DEF ServeOk, Early
<1>4. /\ t.at = "direct" /\ t.done = h[b].done /\ t.next = 0 /\ t.pc = "open" /\ t.to = h[b].to
      /\ t.ok = h[b].ok /\ t \in ServeRec
    BY <1>1, <1>3 DEF ServeRec, Stages
<1> HIDE DEF t
<1>5. ServeOk(b, t, spent.serves, spent.calls)
    BY <1>1, <1>3, <1>4 DEF ServeOk, Early, Directly
<1>6. t.at \notin Early
    BY <1>4 DEF Early
<1>7. /\ Solid' /\ h'[b] = t /\ (\A x \in Serves : x # b => h'[x] = h[x]) /\ hLive' = hLive
      /\ In(direct') = In(direct) \cup {FrameOf(h[b].to, "hdr", 0)}
    BY <1>1, <1>2, <1>4, <1>5, <1>6, FeedsSolid
<1> QED
    BY <1>1, <1>4, <1>7

\* A piece goes directly, or the end.
LEMMA SendDirectSolid ==
    ASSUME Solid, NEW b \in Serves, SendDirect(b)
    PROVE  /\ Solid' /\ (\A x \in Serves : x # b => h'[x] = h[x]) /\ hLive' = hLive
           /\ h[b].at = "direct" /\ h[b].pc = "open"
           /\ h'[b].pc = "open" /\ h'[b].to = h[b].to /\ h'[b].at \in {"direct", "flush"}
           /\ h[b].next \in Nat /\ h'[b].next = (IF h[b].next < Streamed THEN h[b].next + 1 ELSE h[b].next)
           /\ In(direct) \subseteq In(direct')
           /\ Linked(b) /\ h[b].next < Streamed => In(direct') \cap PiecesOf(h[b].to, h[b].next) # {}
           /\ UNCHANGED <<r, rLive, tile, held, toH, toR, told, spent, excused>>
<1> DEFINE n == h[b].next
           go == n < Streamed
           k == IF go THEN "chunk" ELSE "fin"
           m == IF go THEN n ELSE 0
           t == IF go THEN [h[b] EXCEPT !.next = n + 1] ELSE [h[b] EXCEPT !.at = "flush"]
<1>1. /\ ServeOk(b, h[b], spent.serves, spent.calls) /\ h[b] \in ServeRec /\ h[b].at = "direct"
      /\ Streamed \in Nat
    BY ServeIs, PlansAreNat DEF SendDirect
<1>2. /\ Goes(b, t) /\ ReceiverRests /\ UNCHANGED <<toH, toR, told, spent, excused>> /\ excused' \in BOOLEAN
      /\ direct' = IF Linked(b) THEN Append(direct, FrameOf(h[b].to, k, m)) ELSE direct
    BY DEF SendDirect, Feeds, Streamed, Solid, Counts
<1>3. n \in Nat /\ ~h[b].done /\ h[b].to[1] = b /\ h[b].pc = "open" /\ h[b].to \in Calls
    BY <1>1 DEF ServeOk, ServeRec
<1>4. /\ t.at = (IF go THEN "direct" ELSE "flush") /\ t.done = h[b].done
      /\ t.next = (IF go THEN n + 1 ELSE n) /\ t.pc = "open" /\ t.to = h[b].to
      /\ t.ok = h[b].ok
    BY <1>1, <1>3 DEF ServeRec
<1>5. t \in ServeRec
    <2>1. CASE go
        BY <1>1, <1>3, <2>1 DEF ServeRec
    <2>2. CASE ~go
        BY <1>1, <2>2 DEF ServeRec, Stages
    <2> QED
        BY <2>1, <2>2
<1> HIDE DEF t
<1>6. t.at \in {"direct", "flush"} /\ (t.at = "flush" => t.next >= Streamed)
    BY <1>1, <1>3, <1>4
<1>7. ServeOk(b, t, spent.serves, spent.calls)
    BY <1>1, <1>3, <1>4, <1>5, <1>6 DEF ServeOk, Early, Directly
<1>8. t.at \notin Early /\ k \in {"hdr", "chunk", "fin"} /\ k # "hdr" /\ m \in Nat
      /\ (k = "chunk" => m < Streamed)
    BY <1>3, <1>6 DEF Early
<1>9. CASE Linked(b)
    <2>1. direct' = Append(direct, FrameOf(h[b].to, k, m))
        BY <1>2, <1>9
    <2> HIDE DEF k, m
    <2>2. /\ Solid' /\ h'[b] = t /\ (\A x \in Serves : x # b => h'[x] = h[x]) /\ hLive' = hLive
          /\ In(direct') = In(direct) \cup {FrameOf(h[b].to, k, m)}
        BY <1>1, <1>2, <1>3, <1>4, <1>7, <1>8, <2>1, FeedsSolid
    <2>3. go => FrameOf(h[b].to, k, m) \in PiecesOf(h[b].to, n)
        <3> SUFFICES ASSUME go PROVE FrameOf(h[b].to, "chunk", n) \in PiecesOf(h[b].to, n)
            BY DEF k, m
        <3> QED
            BY <1>3, FramesAre DEF PiecesOf
    <2>4. /\ In(direct) \subseteq In(direct')
          /\ go => In(direct') \cap PiecesOf(h[b].to, n) # {}
        BY <2>2, <2>3
    <2> QED
        BY <1>1, <1>2, <1>3, <1>4, <1>6, <2>2, <2>4 DEF ReceiverRests
<1>10. CASE ~Linked(b)
    <2>1. direct' = direct /\ toR' \in Seq(ReceiverFrames) /\ \A f \in In(toR') : f \in In(toR)
        BY <1>2, <1>10 DEF Solid, Wires
    <2>2. /\ Solid' /\ h'[b] = t /\ (\A x \in Serves : x # b => h'[x] = h[x]) /\ hLive' = hLive
        BY <1>1, <1>2, <1>3, <1>4, <1>7, <1>8, <2>1, GoesSolid
    <2> QED
        BY <1>1, <1>2, <1>3, <1>4, <1>6, <1>10, <2>1, <2>2 DEF ReceiverRests
<1> QED
    BY <1>9, <1>10

-----------------------------------------------------------------------------
(* Frames that reach the holder *)

\* What delivering takes and leaves.
LEMMA Taking ==
    ASSUME Solid, DeliverH
    PROVE  /\ Head(toH) \in HolderFrames /\ Head(toH) \in In(toH) /\ toH # <<>>
           /\ toH' = Tail(toH) /\ toH' \in Seq(HolderFrames) /\ In(toH') \subseteq In(toH)
           /\ toR \in Seq(ReceiverFrames)
           /\ UNCHANGED <<r, rLive, tile, held, direct, told, excused>>
           /\ Head(toH).t = "answer" => Made(Head(toH).of) /\ Head(toH).of \in Calls
           /\ Head(toH).t = "ok" => held
           /\ HolderTakes(Head(toH))
<1>1. /\ toH # <<>> /\ toH' = Tail(toH) /\ UNCHANGED <<r, rLive, tile, held, direct, told, excused>>
      /\ HolderTakes(Head(toH))
    BY DEF DeliverH, ReceiverRests
<1>2. toH \in Seq(HolderFrames) /\ toR \in Seq(ReceiverFrames)
    BY DEF Solid, Wires
<1>3. /\ Head(toH) \in HolderFrames /\ Tail(toH) \in Seq(HolderFrames)
      /\ Head(toH) \in In(toH) /\ In(Tail(toH)) \subseteq In(toH)
    BY <1>1, <1>2, TakeIn
<1>4. Head(toH).t = "answer" => Made(Head(toH).of) /\ Head(toH).of \in Calls
    BY <1>3 DEF Solid, Wires, HolderFrames
<1>5. Head(toH).t = "ok" => held
    BY <1>3 DEF Solid, Receipts
<1> QED
    BY <1>1, <1>2, <1>3, <1>4, <1>5

\* A frame that changes nothing at the holder's end.
LEMMA Passing == ASSUME Solid, DeliverH, UNCHANGED <<h, hLive, toR, spent>> PROVE Solid'
<1>1. Counts'
    BY Taking DEF Solid, Counts
<1> QED
    BY <1>1, Taking, SolidW

\* A request begins another transfer, or repeats one.
LEMMA RequestReaches ==
    ASSUME Solid, DeliverH, Head(toH).t = "req"
    PROVE  /\ Solid' /\ UNCHANGED toR /\ spent'.tries = spent.tries
           /\ \/ UNCHANGED <<h, hLive, spent>>
              \/ /\ hLive = 0 /\ hLive' \in Serves
                 /\ h[hLive'].at = "none" /\ h[hLive'].pc = "no" /\ h[hLive'].to = NoCall
                 /\ h'[hLive'].at = "prompt" /\ h'[hLive'].next = 0 /\ h'[hLive'].pc = "no"
                 /\ h'[hLive'].to = NoCall
                 /\ \A x \in Serves : x # hLive' => h'[x] = h[x]
<1>1. OnReq
    BY Taking DEF HolderTakes
<1>2. CASE UNCHANGED <<h, hLive, toR, spent>>
    BY <1>2, Passing
<1>3. CASE ~UNCHANGED <<h, hLive, toR, spent>>
    <2> DEFINE n == spent.serves + 1
               t == [NoServe EXCEPT !.at = "prompt"]
    <2>1. /\ hLive = 0 /\ ~(spent.serves >= MaxServes) /\ hLive' = n /\ h' = [h EXCEPT ![n] = t]
          /\ Spend("serves") /\ UNCHANGED toR
        BY <1>1, <1>3 DEF OnReq, OnRepeat
    <2>2. /\ spent.tries \in Nat /\ spent.calls \in Nat /\ spent.serves \in Nat /\ MaxServes \in Nat
          /\ n \in Serves /\ n > spent.serves
        BY <2>1, CountsAreNat DEF Solid, Serves
    <2>3. /\ spent' \in SpentRec /\ spent'.serves = n /\ spent'.tries = spent.tries
          /\ spent'.calls = spent.calls
        BY <2>1, Spends DEF Solid
    <2>4. /\ t.at = "prompt" /\ t.done = FALSE /\ t.next = 0 /\ t.pc = "no" /\ t.to = NoCall /\ t.ok = FALSE
          /\ t \in ServeRec
        BY FramesAre DEF NoServe, ServeRec, Stages
    <2> HIDE DEF t
    <2>5. /\ h' \in [Serves -> ServeRec] /\ h'[n] = t /\ (\A x \in Serves : x # n => h'[x] = h[x])
        BY <2>1, <2>2, <2>4 DEF Solid, Holder
    <2>6. ServeOk(n, h[n], spent.serves, spent.calls)
        BY <2>2, ServeIs
    <2>7. /\ h[n].at = "none" /\ h[n].pc = "no" /\ h[n].to = NoCall
        BY <2>2, <2>6 DEF ServeOk, Early, Directly
    <2>8. ServeOk(n, t, n, spent.calls)
        BY <2>2, <2>4 DEF ServeOk, Early, Directly
    <2>9. \A x \in Serves : ServeOk(x, h'[x], spent'.serves, spent'.calls)
        <3> SUFFICES ASSUME NEW x \in Serves, x # n PROVE ServeOk(x, h[x], n, spent.calls)
            BY <2>3, <2>5, <2>8
        <3>1. ServeOk(x, h[x], spent.serves, spent.calls)
            BY ServeIs
        <3>2. x > n <=> x > spent.serves
            BY <2>2 DEF Serves
        <3> QED
            BY <3>1, <3>2 DEF ServeOk
    <2>10. Holder'
        <3>1. hLive' \in 0..MaxServes /\ hLive' <= spent'.serves /\ ~h'[hLive'].done
            BY <2>1, <2>2, <2>3, <2>4, <2>5
        <3> QED
            BY <2>5, <2>9, <3>1 DEF Holder
    <2>11. Offered' = Offered
        BY <2>4, <2>5, <2>7 DEF Offered, Early
    <2>12. Counts'
        <3>1. n <= MaxServes
            BY <2>1, <2>2
        <3> QED
            BY <2>2, <2>3, <3>1, Taking DEF Solid, Counts
    <2>13. Receiver'
        BY <2>2, <2>3, <2>11, Taking, ReceiverKeeps DEF Solid
    <2>14. Wires'
        BY <2>1, <2>2, <2>3, <2>11, Taking, WiresKeep DEF Solid, Wires
    <2>15. Channel'
        <3>1. \A x \in Serves : h'[x].to = h[x].to /\ h'[x].pc \in {h[x].pc, "no"}
            BY <2>4, <2>5, <2>7
        <3> QED
            BY <3>1, Taking, ChannelKeepsH DEF Solid
    <2>16. Receipts'
        <3>1. \A x \in Serves : h'[x].ok => h[x].ok
            BY <2>4, <2>5
        <3> QED
            BY <3>1, Taking DEF Solid, Receipts
    <2> QED
        BY <2>1, <2>2, <2>3, <2>4, <2>5, <2>7, <2>10, <2>12, <2>13, <2>14, <2>15, <2>16 DEF Solid
<1> QED
    BY <1>2, <1>3

\* An answer that reaches the holder waits to be applied.
LEMMA AnswerReaches ==
    ASSUME Solid, DeliverH, hLive # 0, Head(toH).t = "answer"
    PROVE  Solid' /\ UNCHANGED <<h, hLive, toR, spent>> /\ OnAnswer(Head(toH).of)
<1>1. OnAnswer(Head(toH).of)
    <2>1. Head(toH).t # "req"
        OBVIOUS
    <2> QED
        BY <2>1, Taking DEF HolderTakes
<1>2. UNCHANGED <<h, hLive, toR, spent>>
    BY <1>1 DEF OnAnswer
<1> QED
    BY <1>1, <1>2, Passing

\* The receiver's word reaches the holder.
LEMMA WordReaches ==
    ASSUME Solid, DeliverH, hLive # 0, Head(toH).t = "ok"
    PROVE  /\ Solid' /\ UNCHANGED <<toR, spent, hLive>>
           /\ \A x \in Serves : x # hLive => h'[x] = h[x]
           /\ h'[hLive].at = h[hLive].at /\ h'[hLive].next = h[hLive].next
           /\ h'[hLive].pc = h[hLive].pc /\ h'[hLive].to = h[hLive].to
<1> DEFINE t == [h[hLive] EXCEPT !.ok = TRUE]
<1>1. OnOk
    <2>1. Head(toH).t # "req" /\ Head(toH).t # "answer"
        OBVIOUS
    <2> QED
        BY <2>1, Taking DEF HolderTakes
<1>2. UNCHANGED <<toR, spent>> /\ h' = [h EXCEPT ![hLive] = t] /\ hLive' = hLive
    BY <1>1 DEF OnOk, Goes
<1>3. hLive \in Serves /\ ~h[hLive].done
    BY LiveH
<1>4. ServeOk(hLive, h[hLive], spent.serves, spent.calls) /\ h[hLive] \in ServeRec
    BY <1>3, ServeIs
<1>5. /\ t.at = h[hLive].at /\ t.done = h[hLive].done /\ t.next = h[hLive].next
      /\ t.pc = h[hLive].pc /\ t.to = h[hLive].to /\ t \in ServeRec
    BY <1>4 DEF ServeRec
<1> HIDE DEF t
<1>6. ServeOk(hLive, t, spent.serves, spent.calls)
    BY <1>4, <1>5 DEF ServeOk
<1>7. Counts' /\ (told' => held) /\ held
    BY <1>2, Taking DEF Solid, Counts, Receipts
<1>8. /\ toR' \in Seq(ReceiverFrames) /\ toH' \in Seq(HolderFrames) /\ In(toH') \subseteq In(toH)
      /\ In(toR') = In(toR)
    BY <1>2, Taking
<1>9. UNCHANGED <<r, rLive, tile, held, direct>>
    BY Taking
<1>10. ~t.done /\ (h[hLive].at \notin Early => t.at \notin Early) /\ t.pc \in {h[hLive].pc, "no"}
    BY <1>3, <1>5
<1>11. Solid' /\ h'[hLive] = t /\ (\A x \in Serves : x # hLive => h'[x] = h[x])
    BY <1>2, <1>3, <1>5, <1>6, <1>7, <1>8, <1>9, <1>10, SolidH
<1> QED
    BY <1>2, <1>5, <1>11

\* A transfer is stopped by the receiver.
LEMMA StopReaches ==
    ASSUME Solid, DeliverH, hLive # 0, Head(toH).t \in {"cancel", "error"}
    PROVE  Solid'
<1>1. FinishH(hLive) /\ UNCHANGED <<toR, spent>>
    <2>1. Head(toH).t # "req" /\ Head(toH).t # "answer" /\ Head(toH).t # "ok"
        OBVIOUS
    <2> QED
        BY <2>1, Taking DEF HolderTakes
<1>2. h' = [h EXCEPT ![hLive] = Stopped(h[hLive])] /\ hLive' = 0
    BY <1>1 DEF FinishH, StopH
<1>3. hLive \in Serves /\ h[hLive].at # "none" /\ ServeOk(hLive, h[hLive], spent.serves, spent.calls)
    BY LiveH, ServeIs
<1>4. Counts' /\ (told' => held)
    BY <1>1, Taking DEF Solid, Counts, Receipts
<1>5. toH' \in Seq(HolderFrames) /\ In(toH') \subseteq In(toH) /\ UNCHANGED <<r, rLive, tile, held, direct>>
    BY Taking
<1> QED
    BY <1>1, <1>2, <1>3, <1>4, <1>5, StopsH

\* Any frame.
LEMMA DeliverHSolid == ASSUME Solid, DeliverH PROVE Solid'
<1>1. CASE Head(toH).t = "req"
    BY <1>1, RequestReaches
<1>2. CASE Head(toH).t # "req" /\ hLive = 0
    <2>1. UNCHANGED <<h, hLive, toR, spent>>
        BY <1>2, Taking DEF HolderTakes
    <2> QED
        BY <2>1, Passing
<1>3. CASE hLive # 0 /\ Head(toH).t = "answer"
    BY <1>3, AnswerReaches
<1>4. CASE hLive # 0 /\ Head(toH).t = "ok"
    BY <1>4, WordReaches
<1>5. CASE hLive # 0 /\ Head(toH).t \in {"cancel", "error"}
    BY <1>5, StopReaches
<1>6. Head(toH).t \in {"req", "cancel", "error", "ok", "answer"}
    BY Taking DEF HolderFrames
<1> QED
    BY <1>1, <1>2, <1>3, <1>4, <1>5, <1>6

-----------------------------------------------------------------------------
(* Answers *)

\* An answer is applied.
LEMMA AppliedSolid ==
    ASSUME Solid, Waiting, NEW b \in Serves, Applied(b)
    PROVE  /\ Solid' /\ (\A x \in Serves : x # b => h'[x] = h[x]) /\ hLive' = hLive
           /\ h'[b].at = h[b].at /\ h'[b].next = h[b].next /\ h[b].at = "race"
           /\ h[b].pc = "up" /\ h'[b].pc \in {"ready", "wrong"}
           /\ UNCHANGED <<r, rLive, tile, held, direct, toH, toR, told, excused, spent>>
<1> DEFINE c == Head(answers[b])
           t == [h[b] EXCEPT !.pc = IF c[1] = b THEN "ready" ELSE "wrong", !.to = c]
<1>1. /\ h[b].pc = "up" /\ answers[b] # <<>> /\ h' = [h EXCEPT ![b] = t] /\ hLive' = hLive
      /\ UNCHANGED <<r, rLive, tile, held, direct, toH, toR, told, excused, spent>>
    BY DEF Applied, Goes, ReceiverRests
<1>2. c \in Calls /\ c[2] \in 1..spent.calls /\ c # NoCall /\ spent.calls \in Nat
    <2>1. answers[b] \in Seq(Calls) /\ In(answers[b]) \subseteq Answers
        BY DEF Waiting
    <2>2. c \in Answers
        BY <1>1, <2>1, TakeIn
    <2>3. NoCall[2] = 0
        BY DEF NoCall
    <2> QED
        BY <2>2, <2>3, CountsAreNat DEF Solid, Answers
<1>3. ServeOk(b, h[b], spent.serves, spent.calls) /\ h[b] \in ServeRec
    BY ServeIs
<1> HIDE DEF c
<1>4. /\ t.at = h[b].at /\ t.done = h[b].done /\ t.next = h[b].next
      /\ t.pc = (IF c[1] = b THEN "ready" ELSE "wrong") /\ t.to = c /\ t.ok = h[b].ok
    BY <1>3 DEF ServeRec
<1>5. t \in ServeRec
    <2>1. CASE c[1] = b
        BY <1>2, <1>3, <2>1 DEF ServeRec
    <2>2. CASE c[1] # b
        BY <1>2, <1>3, <2>2 DEF ServeRec
    <2> QED
        BY <2>1, <2>2
<1> HIDE DEF t
<1>6. h[b].at = "race" /\ h[b].to = NoCall /\ ~h[b].done
    BY <1>1, <1>3 DEF ServeOk, Directly
<1>7. ServeOk(b, t, spent.serves, spent.calls)
    BY <1>2, <1>3, <1>4, <1>5, <1>6 DEF ServeOk, Early, Directly
<1>8. t.at \notin Early /\ ~t.done
    BY <1>4, <1>6 DEF Early
<1>9. (t.ok => held) /\ (told' => held)
    BY <1>1, <1>4 DEF Solid, Receipts
<1>10. Counts'
    BY <1>1 DEF Solid, Counts
<1>11. t.pc \in {"ready", "wrong"} /\ (t.pc = "ready" => t.to[1] = b) /\ t.to # NoCall
    BY <1>2, <1>4
<1>12. \/ h[b].to = NoCall /\ t.pc \in {"no", "up", "wrong"}
       \/ h[b].to = NoCall /\ t.pc = "ready" /\ t.to # NoCall /\ t.to[1] = b
    BY <1>6, <1>11
<1>13. /\ toR' \in Seq(ReceiverFrames) /\ toH' \in Seq(HolderFrames) /\ In(toH') \subseteq In(toH)
       /\ In(toR') = In(toR)
    BY <1>1 DEF Solid, Wires
<1>14. Solid' /\ h'[b] = t /\ (\A x \in Serves : x # b => h'[x] = h[x])
    BY <1>1, <1>7, <1>8, <1>9, <1>10, <1>12, <1>13, SolidH
<1> QED
    BY <1>1, <1>4, <1>6, <1>11, <1>14

\* An answer is rejected.
LEMMA RejectedSolid ==
    ASSUME Solid, NEW b \in Serves, Rejected(b)
    PROVE  /\ Solid' /\ UNCHANGED <<r, rLive, tile, held, direct, toH, toR, told, spent>>
           /\ \/ UNCHANGED <<h, hLive, excused>>
              \/ hLive \in Serves /\ StopH(hLive) /\ excused' = TRUE
<1>1. /\ UNCHANGED <<r, rLive, tile, held, direct, toH, toR, told, spent>>
      /\ \/ UNCHANGED <<h, hLive, excused>>
         \/ hLive # 0 /\ StopH(hLive) /\ excused' = TRUE
    BY DEF Rejected, ReceiverRests
<1>2. /\ toH' \in Seq(HolderFrames) /\ toR' \in Seq(ReceiverFrames)
      /\ In(toH') = In(toH) /\ In(toR') = In(toR)
    BY <1>1 DEF Solid, Wires
<1>3. Counts' /\ (told' => held)
    BY <1>1 DEF Solid, Counts, Receipts
<1>4. CASE UNCHANGED <<h, hLive, excused>>
    BY <1>1, <1>2, <1>3, <1>4, SolidW
<1>5. CASE hLive # 0 /\ StopH(hLive) /\ excused' = TRUE
    <2>1. hLive \in Serves /\ h[hLive].at # "none" /\ ServeOk(hLive, h[hLive], spent.serves, spent.calls)
        BY <1>5, LiveH, ServeIs
    <2>2. h' = [h EXCEPT ![hLive] = Stopped(h[hLive])] /\ hLive' = 0
        BY <1>5 DEF StopH
    <2>3. Solid'
        BY <1>1, <1>2, <1>3, <2>1, <2>2, StopsH
    <2> QED
        BY <1>1, <1>5, <2>1, <2>3
<1> QED
    BY <1>1, <1>4, <1>5

\* The count of the answers made never falls.
LEMMA CallsGrow ==
    ASSUME Solid, [Next]_vars
    PROVE  spent.calls \in Nat /\ spent'.calls \in Nat /\ spent.calls <= spent'.calls
<1> DEFINE Spent == UNCHANGED spent \/ \E what \in {"tries", "serves", "lost", "twice", "cancels", "calls"} : Spend(what)
<1>1. ASSUME UNCHANGED vars PROVE Spent
    BY <1>1 DEF vars
<1>2. ASSUME Request \/ CancelR \/ CancelH \/ DeliverR \/ ReadDirect \/ LosesOne \/ RepeatsOne PROVE Spent
    BY <1>2 DEF Request, CancelR, CancelH, DeliverR, ReadDirect, LosesOne, RepeatsOne
<1>3. ASSUME DeliverH PROVE Spent
    <2>1. Head(toH).t \in {"req", "cancel", "error", "ok", "answer"} /\ HolderTakes(Head(toH))
        BY <1>3, Taking DEF HolderFrames
    <2> QED
        BY <2>1 DEF HolderTakes, OnReq, OnRepeat, OnAnswer, OnOk
<1>4. ASSUME NEW a \in Tries, Deadline(a) \/ Idle(a) \/ Verified(a) \/ OpenR(a) \/ GivesUp(a) \/ ClosedUnderR(a)
      PROVE  Spent
    BY <1>4 DEF Deadline, Idle, Verified, OpenR, GivesUp, ClosedUnderR
<1>5. ASSUME NEW b \in Serves, Approve(b) \/ Works(b) \/ Expires(b) \/ Rejected(b) PROVE Spent
    BY <1>5 DEF Approve, Works, Expires, Accept, OpenH, SendChunk, SendDirect, Flushed, Deny, ToRelay,
                Breaks, Receipt, Applied, Rejected
<1>6. Spent
    BY <1>1, <1>2, <1>3, <1>4, <1>5 DEF Next
<1>7. Counts /\ spent.calls \in Nat
    BY CountsAreNat DEF Solid
<1>8. CASE UNCHANGED spent
    BY <1>7, <1>8
<1>9. ASSUME NEW what \in {"tries", "serves", "lost", "twice", "cancels", "calls"}, Spend(what)
      PROVE  spent'.calls = spent.calls \/ spent'.calls = spent.calls + 1
    BY <1>7, <1>9, Spends
<1> QED
    BY <1>6, <1>7, <1>8, <1>9

\* Answers are added as they come, and taken or dropped with their connection.
LEMMA WaitingNext == ASSUME Solid, Waiting, [Next]_vars PROVE Waiting'
<1> DEFINE Kept(b) == /\ answers'[b] \in Seq(Calls)
                      /\ In(answers'[b]) \subseteq In(answers[b]) \cup Answers
           Fine == DOMAIN answers' = Serves /\ (\A b \in Serves : Kept(b)) /\ answers' = [b \in Serves |-> answers'[b]]
<1>1. /\ answers \in [Serves -> Seq(Calls)] /\ answers = [b \in Serves |-> answers[b]]
      /\ \A b \in Serves : answers[b] \in Seq(Calls) /\ In(answers[b]) \subseteq Answers
    BY DEF Waiting
<1>2. <<>> \in Seq(Calls) /\ In(<<>>) = {}
    BY NoneIn
<1>3. ASSUME UNCHANGED answers PROVE Fine
    BY <1>1, <1>3
<1>4. ASSUME NEW b \in Serves, Closes(b) PROVE Fine
    BY <1>1, <1>2, <1>4 DEF Closes
<1>5. ASSUME NEW b \in Serves, answers[b] # <<>>
      PROVE  Tail(answers[b]) \in Seq(Calls) /\ In(Tail(answers[b])) \subseteq In(answers[b])
    BY <1>1, <1>5, TakeIn
<1>6. ASSUME NEW b \in Serves, answers[b] # <<>>, Applies(b) PROVE Fine
    BY <1>1, <1>5, <1>6 DEF Applies
<1>7. ASSUME UNCHANGED vars PROVE Fine
    BY <1>3, <1>7 DEF vars
<1>8. ASSUME Request \/ CancelR \/ DeliverR \/ ReadDirect \/ LosesOne \/ RepeatsOne PROVE Fine
    BY <1>3, <1>8 DEF Request, CancelR, DeliverR, ReadDirect, LosesOne, RepeatsOne, HolderRests
<1>9. ASSUME CancelH PROVE Fine
    BY <1>4, <1>9, LiveH DEF CancelH, FinishH
<1>10. ASSUME DeliverH PROVE Fine
    <2>1. Head(toH).t \in {"req", "cancel", "error", "ok", "answer"} /\ HolderTakes(Head(toH))
        BY <1>10, Taking DEF HolderFrames
    <2>2. CASE Head(toH).t = "req" \/ hLive = 0 \/ Head(toH).t = "ok"
        BY <1>3, <2>1, <2>2 DEF HolderTakes
    <2>3. CASE hLive # 0 /\ Head(toH).t \in {"cancel", "error"}
        <3>1. Head(toH).t # "req" /\ Head(toH).t # "answer" /\ Head(toH).t # "ok"
            BY <2>3
        <3>2. Closes(hLive)
            BY <2>1, <2>3, <3>1 DEF HolderTakes, FinishH
        <3> QED
            BY <1>4, <2>3, <3>2, LiveH
    <2>4. CASE hLive # 0 /\ Head(toH).t = "answer"
        <3> DEFINE c == Head(toH).of
        <3>1. OnAnswer(c) /\ hLive \in Serves
            BY <1>10, <2>4, AnswerReaches, LiveH
        <3>2. c \in Calls /\ c \in Answers
            BY <1>10, <2>4, Taking DEF Made, MadeOf, Answers
        <3> HIDE DEF c
        <3>3. Append(answers[hLive], c) \in Seq(Calls) /\ In(Append(answers[hLive], c)) = In(answers[hLive]) \cup {c}
            BY <1>1, <3>1, <3>2, AddIn
        <3>4. UNCHANGED answers \/ answers' = [answers EXCEPT ![hLive] = Append(answers[hLive], c)]
            BY <3>1 DEF OnAnswer
        <3> QED
            BY <1>1, <1>3, <3>1, <3>2, <3>3, <3>4
    <2> QED
        BY <2>1, <2>2, <2>3, <2>4
<1>11. ASSUME NEW a \in Tries, Deadline(a) \/ Idle(a) \/ Verified(a) \/ OpenR(a) \/ GivesUp(a) \/ ClosedUnderR(a)
       PROVE  Fine
    <2>1. UNCHANGED answers
        BY <1>11 DEF Deadline, Idle, Verified, OpenR, GivesUp, ClosedUnderR, HolderRests
    <2> QED
        BY <1>3, <2>1
<1>12. ASSUME NEW b \in Serves, Approve(b) \/ Works(b) \/ Expires(b) PROVE Fine
    <2>1. UNCHANGED answers \/ Closes(b) \/ (answers[b] # <<>> /\ Applies(b))
        BY <1>12 DEF Approve, Works, Expires, Accept, OpenH, SendChunk, SendDirect, Flushed, Deny, ToRelay,
                     Breaks, AbortH, Receipt, FinishH, Applied
    <2> QED
        BY <1>3, <1>4, <1>6, <2>1
<1>13. ASSUME NEW b \in Serves, Rejected(b) PROVE Fine
    <2>1. CASE Applies(b)
        BY <1>6, <1>13, <2>1 DEF Rejected
    <2>2. CASE ~Applies(b)
        <3>1. /\ answers[b] # <<>> /\ hLive # 0
              /\ answers' = [answers EXCEPT ![b] = Tail(answers[b]), ![hLive] = <<>>]
            BY <1>13, <2>2 DEF Rejected
        <3>2. hLive \in Serves
            BY <3>1, LiveH
        <3>3. \A x \in Serves : answers'[x] = IF x = hLive THEN <<>> ELSE IF x = b THEN Tail(answers[b]) ELSE answers[x]
            BY <1>1, <3>1, <3>2
        <3> QED
            BY <1>1, <1>2, <1>5, <3>1, <3>2, <3>3
    <2> QED
        BY <2>1, <2>2
<1>14. Fine
    BY <1>7, <1>8, <1>9, <1>10, <1>11, <1>12, <1>13 DEF Next
<1>15. \A c \in Answers : c \in Calls /\ c[2] \in 1..spent'.calls
    BY CallsGrow DEF Answers
<1>16. answers' \in [Serves -> Seq(Calls)]
    BY <1>14
<1>17. ASSUME NEW b \in Serves PROVE In(answers'[b]) \subseteq {c \in Calls : c[2] \in 1..spent'.calls}
    BY <1>1, <1>14, <1>15
<1> QED
    BY <1>16, <1>17 DEF Waiting, Answers

-----------------------------------------------------------------------------
(* The relay *)

\* A frame is lost.
LEMMA LosesOneSolid == ASSUME Solid, LosesOne PROVE Solid'
<1>1. /\ Spend("lost") /\ excused' = TRUE /\ UNCHANGED <<h, hLive, told, r, rLive, tile, held, direct>>
      /\ \/ toH # <<>> /\ toH' = Tail(toH) /\ UNCHANGED toR
         \/ toR # <<>> /\ toR' = Tail(toR) /\ UNCHANGED toH
    BY DEF LosesOne, HolderRests, ReceiverRests
<1>2. /\ spent' \in SpentRec /\ spent'.tries = spent.tries /\ spent'.serves = spent.serves
      /\ spent'.calls = spent.calls
    BY <1>1, Spends DEF Solid
<1>3. Counts'
    BY <1>1, <1>2 DEF Solid, Counts
<1>4. toH \in Seq(HolderFrames) /\ toR \in Seq(ReceiverFrames)
    BY DEF Solid, Wires
<1>5. /\ toH' \in Seq(HolderFrames) /\ toR' \in Seq(ReceiverFrames)
      /\ In(toH') \subseteq In(toH) /\ In(toR') \subseteq In(toR)
    <2>1. CASE toH # <<>> /\ toH' = Tail(toH) /\ UNCHANGED toR
        <3>1. Tail(toH) \in Seq(HolderFrames) /\ In(Tail(toH)) \subseteq In(toH)
            BY <1>4, <2>1, TakeIn
        <3> QED
            BY <1>4, <2>1, <3>1
    <2>2. CASE toR # <<>> /\ toR' = Tail(toR) /\ UNCHANGED toH
        <3>1. Tail(toR) \in Seq(ReceiverFrames) /\ In(Tail(toR)) \subseteq In(toR)
            BY <1>4, <2>2, TakeIn
        <3> QED
            BY <1>4, <2>2, <3>1
    <2> QED
        BY <1>1, <2>1, <2>2
<1> QED
    BY <1>1, <1>2, <1>3, <1>5, SolidW

\* A frame is delivered twice.
LEMMA RepeatsOneSolid ==
    ASSUME Solid, RepeatsOne
    PROVE  /\ Solid' /\ In(toH') = In(toH) /\ In(toR') = In(toR) /\ spent'.tries = spent.tries
           /\ UNCHANGED <<h, hLive, told, r, rLive, tile, held, direct, excused>>
           /\ (toR # <<>> /\ toR' = <<Head(toR)>> \o toR) \/ toR' = toR
           /\ toH = <<>> => toH' = toH
<1>1. /\ Spend("twice") /\ UNCHANGED <<h, hLive, told, r, rLive, tile, held, direct, excused>>
      /\ \/ toH # <<>> /\ toH' = <<Head(toH)>> \o toH /\ UNCHANGED toR
         \/ toR # <<>> /\ toR' = <<Head(toR)>> \o toR /\ UNCHANGED toH
    BY DEF RepeatsOne, HolderRests, ReceiverRests
<1>2. /\ spent' \in SpentRec /\ spent'.tries = spent.tries /\ spent'.serves = spent.serves
      /\ spent'.calls = spent.calls
    BY <1>1, Spends DEF Solid
<1>3. Counts'
    BY <1>1, <1>2 DEF Solid, Counts
<1>4. toH \in Seq(HolderFrames) /\ toR \in Seq(ReceiverFrames)
    BY DEF Solid, Wires
<1>5. /\ toH' \in Seq(HolderFrames) /\ toR' \in Seq(ReceiverFrames)
      /\ In(toH') = In(toH) /\ In(toR') = In(toR)
    BY <1>1, <1>4, TwiceIn
<1> QED
    BY <1>1, <1>2, <1>3, <1>5, SolidW

-----------------------------------------------------------------------------
(* As long as nothing went wrong: at the receiver's end *)

\* The live transfers are the only ones that have a connection.
LEMMA CalmIs ==
    ASSUME Solid, Calm
    PROVE  /\ \A a \in Tries : r[a].pc # "no" => a = rLive
           /\ \A b \in Serves : h[b].pc # "no" => hLive = b /\ h[b].at \in Directly /\ b \in Racers
           /\ \A a \in Tries, b \in Serves : Joined(a, b) =>
                 /\ a = rLive /\ hLive = b /\ r[a].own[1] = b /\ h[b].at \in Directly /\ b \in Racers
           /\ \A b \in Racers : hLive = b /\ b \in Serves
<1>1. \A a \in Tries : r[a].pc # "no" => a = rLive
    <2> SUFFICES ASSUME NEW a \in Tries, r[a].pc # "no" PROVE a = rLive
        OBVIOUS
    <2>1. r[a].at \in {"asked", "ready", "verify"}
        BY DEF Solid, Receiver, TryOk, TryRec
    <2> QED
        BY <2>1 DEF Calm
<1>2. \A b \in Serves : h[b].at \in Directly => hLive = b
    BY DEF Calm, Directly
<1>3. \A b \in Serves : h[b].pc # "no" => h[b].at \in Directly
    BY DEF Solid, Holder, ServeOk
<1>4. \A a \in Tries, b \in Serves : Joined(a, b) => r[a].pc # "no" /\ h[b].pc # "no" /\ r[a].own[1] = b
    BY DEF Solid, Holder, ServeOk, Joined
<1> QED
    BY <1>1, <1>2, <1>3, <1>4 DEF Racers

\* The transfer that is pending.
LEMMA PendingIs ==
    ASSUME Solid, Pending
    PROVE  /\ rLive \in Tries /\ rLive # 0 /\ r[rLive].at \in {"asked", "ready"}
           /\ TryOk(rLive, r[rLive], spent.tries) /\ r[rLive] \in TryRec
           /\ r[rLive].pc # "no" => Made(r[rLive].own)
    BY LiveR DEF Pending, TryOk, Solid, Receiver

\* Nothing is asked for at first.
LEMMA Begins == ASSUME Init PROVE TransferInv
<1>1. /\ h = [b \in Serves |-> NoServe] /\ hLive = 0 /\ r = [a \in Tries |-> NoTry] /\ rLive = 0
      /\ answers = [b \in Serves |-> <<>>]
      /\ tile = "idle" /\ held = FALSE /\ toH = <<>> /\ toR = <<>> /\ direct = <<>>
      /\ told = FALSE /\ excused = FALSE
      /\ spent = [tries |-> 0, serves |-> 0, lost |-> 0, twice |-> 0, cancels |-> 0, calls |-> 0]
    BY DEF Init
<1>2. /\ NoServe \in ServeRec /\ NoServe.at = "none" /\ NoServe.done = FALSE /\ NoServe.next = 0
      /\ NoServe.pc = "no" /\ NoServe.to = NoCall /\ NoServe.ok = FALSE
    BY FramesAre DEF NoServe, ServeRec, Stages
<1>3. /\ NoTry \in TryRec /\ NoTry.at = "none" /\ NoTry.path = "none" /\ NoTry.plan = 0
      /\ NoTry.got = {} /\ NoTry.pc = "no" /\ NoTry.own = NoCall
    BY FramesAre DEF NoTry, TryRec
<1>4. MaxTries \in Nat /\ MaxServes \in Nat
    BY BoundsAreNat
<1>5. spent \in SpentRec /\ spent.tries = 0 /\ spent.serves = 0 /\ spent.calls = 0
    BY <1>1 DEF SpentRec
<1>6. \A b \in Serves : h[b] = NoServe
    BY <1>1
<1>7. \A a \in Tries : r[a] = NoTry
    BY <1>1
<1>8. /\ In(toH) = {} /\ In(toR) = {} /\ In(direct) = {}
      /\ toH \in Seq(HolderFrames) /\ toR \in Seq(ReceiverFrames) /\ direct \in Seq(DirectFrames)
      /\ \A A, B : Last(direct, A, B)
    BY <1>1, NoneIn
<1>9. Counts
    <2>1. /\ tile \in {"idle", "busy", "done", "error", "cancelled"}
          /\ held \in BOOLEAN /\ told \in BOOLEAN /\ excused \in BOOLEAN
        BY <1>1, Zenon
    <2>2. spent.tries <= MaxTries /\ spent.serves <= MaxServes
        BY <1>4, <1>5
    <2> QED
        BY <1>5, <2>1, <2>2 DEF Counts
<1>10. Wires
    BY <1>8 DEF Wires
<1>11. Holder
    <2>1. h \in [Serves -> ServeRec]
        BY <1>1, <1>2
    <2>2. \A b \in Serves : b > 0 /\ ServeOk(b, NoServe, 0, 0)
        BY <1>2, <1>4 DEF ServeOk, Early, Directly, Serves
    <2> QED
        BY <1>1, <1>4, <1>5, <1>6, <2>1, <2>2 DEF Holder
<1>12. Receiver
    <2>1. r \in [Tries -> TryRec]
        BY <1>1, <1>3
    <2>2. \A a \in Tries : TryOk(a, NoTry, 0)
        BY <1>3 DEF TryOk
    <2> QED
        BY <1>1, <1>3, <1>4, <1>5, <1>7, <2>1, <2>2 DEF Receiver
<1>13. Channel
    <2>1. \A a \in Tries : ~Reading(a) /\ ~Awaiting(a)
        BY <1>3, <1>7 DEF Reading, Awaiting
    <2> QED
        BY <1>8, <2>1 DEF Channel
<1>14. Receipts
    BY <1>1, <1>2, <1>6, <1>8 DEF Receipts
<1>15. Calm
    BY <1>1, <1>2, <1>3, <1>5, <1>6, <1>7, <1>8 DEF Calm
<1>16. ~Pending
    BY <1>1 DEF Pending
<1>17. Waiting
    <2>1. <<>> \in Seq(Calls) /\ In(<<>>) = {}
        BY NoneIn
    <2> QED
        BY <1>1, <2>1 DEF Waiting
<1> QED
    BY <1>9, <1>10, <1>11, <1>12, <1>13, <1>14, <1>15, <1>16, <1>17 DEF TransferInv, Solid, Quiet, ByRelay, ByChannel

\* The file is asked for.
LEMMA RequestQuiet == ASSUME Solid, Quiet, Request PROVE Quiet'
<1>1. /\ Solid' /\ rLive' = spent.tries + 1 /\ rLive' \in Tries /\ spent'.tries = spent.tries + 1
      /\ r'[rLive'] = [NoTry EXCEPT !.at = "asked"]
      /\ \A x \in Tries : x # rLive' => r'[x] = r[x]
      /\ In(toH') = In(toH) \cup {Frame("req", 0)}
    BY RequestSolid
<1>2. spent.tries = 0
    BY CountsAreNat DEF Quiet, Calm, Request, Solid
<1>3. toH = <<>> /\ toR = <<>> /\ direct = <<>> /\ \A b \in Serves : h[b].at = "none"
    BY <1>2 DEF Quiet, Calm
<1>4. tile' = "busy" /\ UNCHANGED <<h, hLive, toR, direct, held>>
    BY DEF Request, HolderRests
<1>5. /\ r'[rLive'].at = "asked" /\ r'[rLive'].path = "none" /\ r'[rLive'].plan = 0
      /\ r'[rLive'].got = {} /\ r'[rLive'].pc = "no"
    BY <1>1 DEF NoTry
<1>6. In(toH') = {Frame("req", 0)} /\ Frame("req", 0).t = "req" /\ In(toR') = {}
    BY <1>1, <1>3, <1>4, NoneIn, FramesAre
<1>7. \A x \in Tries : x # rLive' => r'[x].at = "none"
    BY <1>1, <1>2 DEF Solid, Receiver, TryOk, NoTry, Tries
<1>8. Calm'
    BY <1>1, <1>2, <1>3, <1>4, <1>6, <1>7 DEF Calm
<1>9. \A b \in Serves : h[b].pc = "no"
    BY <1>3 DEF Solid, Holder, ServeOk, Directly
<1>10. \A A, B : Led(toR', A, B) /\ Last(toR', A, B)
    BY <1>6, NoneLed
<1>11. ByRelay'
    BY <1>3, <1>4, <1>5, <1>6, <1>10 DEF ByRelay, Ready, Sent, Whole, Relaying
<1>12. ByChannel'
    BY <1>4, <1>5, <1>9, <1>10 DEF ByChannel, Fed
<1> QED
    BY <1>8, <1>11, <1>12 DEF Quiet

\* It is kept.
LEMMA VerifiedQuiet == ASSUME Solid, Quiet, NEW a \in Tries, Verified(a) PROVE Quiet'
<1>1. Solid' /\ r'[a].at = "over" /\ \A x \in Tries : x # a => r'[x] = r[x]
    BY VerifiedSolid
<1>2. /\ r[a].at = "verify" /\ ToHolder("ok", 0) /\ rLive' = 0 /\ tile' = "done" /\ held' = TRUE
      /\ UNCHANGED <<h, hLive, toR, direct, excused, spent>>
    BY DEF Verified, HolderRests
<1>3. a = rLive /\ spent.tries # 0
    BY <1>2 DEF Quiet, Calm, Solid, Receiver, TryOk, NoTry, Tries
<1>4. In(toH') = In(toH) \cup {Frame("ok", 0)} /\ Frame("ok", 0).t = "ok"
    <2>1. Frame("ok", 0) \in HolderFrames /\ Frame("ok", 0).t = "ok"
        BY FramesAre
    <2> QED
        BY <1>2, <2>1, AddIn DEF Solid, Wires, ToHolder
<1>5. \A x \in Tries : r'[x].at \notin {"asked", "ready", "verify"}
    BY <1>1, <1>3 DEF Quiet, Calm
<1>6. Calm'
    BY <1>2, <1>3, <1>4, <1>5 DEF Quiet, Calm
<1>7. ~Pending'
    BY <1>2 DEF Pending
<1> QED
    BY <1>6, <1>7 DEF Quiet, ByRelay, ByChannel

\* A frame that moves the transfer, or changes nothing, keeps the peace.
LEMMA StaysCalm ==
    ASSUME Solid, Quiet, DeliverR, rLive' = rLive, tile' \in {tile, "busy"}, spent'.tries = spent.tries,
           \A f \in In(toH') : f \in In(toH) \/ f.t = "answer",
           \A x \in Tries : x # rLive => r'[x] = r[x]
    PROVE  Calm'
<1>1. /\ toR # <<>> /\ In(toR') \subseteq In(toR) /\ UNCHANGED <<h, hLive, direct, held>>
    BY Delivering
<1>2. spent.tries # 0 /\ tile' # "error"
    BY <1>1 DEF Quiet, Calm
<1>3. \A x \in Tries : r'[x].at \in {"asked", "ready", "verify"} => x = rLive'
    BY DEF Quiet, Calm
<1>4. \A f \in In(toH') : f.t \in {"req", "answer", "ok"}
    BY DEF Quiet, Calm
<1> QED
    BY <1>1, <1>2, <1>3, <1>4 DEF Quiet, Calm

\* What is behind the frame that is delivered.
LEMMA Behind ==
    ASSUME Solid, DeliverR
    PROVE  /\ In(toR) = In(toR') \cup {Head(toR)} /\ Head(toR) \in In(toR)
           /\ \A A, B : Last(toR, A, B) => Last(toR', A, B) /\ (Head(toR) \in A => In(toR') \cap B = {})
           /\ \A A, B : Led(toR, A, B) /\ Head(toR) \notin B => Led(toR', A, B) /\ Head(toR) \notin A
<1>1. toR \in Seq(ReceiverFrames) /\ toR # <<>> /\ toR' = Tail(toR)
    BY Delivering DEF Solid, Wires
<1>2. In(toR) = In(toR') \cup {Head(toR)} /\ Head(toR) \in In(toR)
    BY <1>1, TakeIn
<1>3. ASSUME NEW A, NEW B, Last(toR, A, B)
      PROVE Last(toR', A, B) /\ (Head(toR) \in A => In(toR') \cap B = {})
    BY <1>1, <1>3, TakeLast
<1>4. ASSUME NEW A, NEW B, Led(toR, A, B), Head(toR) \notin B
      PROVE Led(toR', A, B) /\ Head(toR) \notin A
    BY <1>1, <1>4, TakeLed
<1> QED
    BY <1>2, <1>3, <1>4

\* The relay carries something, and so nothing goes directly.
LEMMA NothingDirect ==
    ASSUME Solid, Quiet, Pending, In(toR) \cap Data # {}
    PROVE  /\ r[rLive].pc # "open" /\ r[rLive].path # "direct"
           /\ r[rLive].plan = 0 \/ r[rLive].plan = RelayBytes
           /\ r[rLive].plan = 0 => r[rLive].got = {}
           /\ \A b \in Serves : h[b].pc # "open"
<1>1. r[rLive].pc # "open" /\ r[rLive].path # "direct" /\ (r[rLive].path = "relay" => r[rLive].plan = RelayBytes)
    BY DEF Quiet, ByRelay, Relaying
<1>2. TryOk(rLive, r[rLive], spent.tries) /\ r[rLive] \in TryRec /\ rLive \in Tries
    BY PendingIs
<1>3. r[rLive].at \in {"asked", "ready"}
    BY PendingIs
<1>4. (r[rLive].path = "none" => r[rLive].plan = 0) /\ (r[rLive].plan = 0 => r[rLive].got = {})
    BY <1>2, <1>3 DEF TryOk
<1>5. r[rLive].path \in {"none", "relay", "direct"}
    BY <1>2 DEF TryRec
<1>6. ASSUME NEW b \in Serves, h[b].pc = "open" PROVE FALSE
    <2>1. Joined(rLive, b)
        BY <1>6 DEF Quiet, ByChannel, Fed
    <2>2. r[rLive].pc # "no" /\ r[rLive].own[1] \in Racers
        BY <1>2, <2>1, CalmIs DEF Quiet, Joined
    <2> QED
        BY <2>2 DEF Quiet, ByChannel
<1> QED
    BY <1>1, <1>4, <1>5, <1>6

\* The plan reaches the receiver.
LEMMA PlanQuiet == ASSUME Solid, Quiet, DeliverR, rLive # 0, Head(toR).t = "accept" PROVE Quiet'
<1>1. /\ r'[rLive] = [r[rLive] EXCEPT !.at = IF @ = "asked" THEN "ready" ELSE @]
      /\ \A x \in Tries : x # rLive => r'[x] = r[x]
      /\ rLive' = rLive /\ tile' = "busy" /\ UNCHANGED <<toH, spent>>
    BY PlanReaches
<1>2. Calm'
    BY <1>1, StaysCalm
<1>3. rLive \in Tries /\ r[rLive] \in TryRec /\ UNCHANGED <<h, hLive, direct>>
    BY LiveR, Delivering DEF TryOk
<1>4. /\ r'[rLive].path = r[rLive].path /\ r'[rLive].plan = r[rLive].plan /\ r'[rLive].got = r[rLive].got
      /\ r'[rLive].pc = r[rLive].pc /\ r'[rLive].own = r[rLive].own
      /\ r'[rLive].at = (IF r[rLive].at = "asked" THEN "ready" ELSE r[rLive].at)
    BY <1>1, <1>3 DEF TryRec
<1>5. Pending' => Pending /\ r'[rLive].at = "ready"
    BY <1>1, <1>4 DEF Pending
<1>6. Head(toR) \notin Data /\ \A n : Head(toR) \notin Pieces(n)
    BY DEF Data, Pieces
<1>7. ASSUME Pending' PROVE ByRelay' /\ ByChannel'
    <2>1. Pending /\ r'[rLive].at = "ready"
        BY <1>5, <1>7
    <2>2. \A b \in Serves : Sent(b)'
        <3> SUFFICES ASSUME NEW b \in Serves, h[b].at = "relay", NEW n \in 0..(h[b].next - 1), n \notin r[rLive].got
                     PROVE  In(toR') \cap Pieces(n) # {}
            BY <1>1, <1>3, <1>4 DEF Sent
        <3>1. In(toR) \cap Pieces(n) # {}
            BY <2>1 DEF Quiet, ByRelay, Sent
        <3> QED
            BY <1>6, <3>1, Behind
    <2>3. \A b \in Serves : Ready(b)'
        BY <1>1, <2>1 DEF Ready
    <2>4. \A n \in 0..(Relayed - 1) : Whole(n)'
        <3> SUFFICES ASSUME NEW n \in 0..(Relayed - 1), n \notin r[rLive].got PROVE Led(toR', Dones, Pieces(n))
            BY <1>1, <1>4 DEF Whole
        <3>1. Led(toR, Dones, Pieces(n))
            BY <2>1 DEF Quiet, ByRelay, Whole
        <3> QED
            BY <1>6, <3>1, Behind
    <2>5. Relaying' => Relaying
        BY <1>3, Behind DEF Relaying
    <2>6. ByRelay'
        BY <1>1, <1>4, <2>1, <2>2, <2>3, <2>4, <2>5 DEF Quiet, ByRelay
    <2>7. Racers' = Racers
        BY <1>3 DEF Racers
    <2>8. \A b \in Serves : Joined(rLive, b) => Joined(rLive, b)'
        BY <1>1, <1>3, <1>4 DEF Joined
    <2>9. \A b \in Serves : Fed(b)'
        <3> SUFFICES ASSUME NEW b \in Serves, h[b].pc = "open"
                     PROVE  /\ Joined(rLive, b)'
                            /\ \A n \in 0..(h[b].next - 1) : n < Streamed =>
                                  \/ r[rLive].plan # 0 /\ n \in r[rLive].got
                                  \/ In(direct) \cap PiecesOf(r[rLive].own, n) # {}
            <4>1. /\ h' = h /\ direct' = direct /\ rLive' = rLive
                  /\ r'[rLive].plan = r[rLive].plan /\ r'[rLive].got = r[rLive].got
                  /\ r'[rLive].own = r[rLive].own
                BY <1>1, <1>3, <1>4
            <4> QED
                BY <4>1 DEF Fed
        <3>1. Fed(b)
            BY <2>1 DEF Quiet, ByChannel
        <3> QED
            BY <2>8, <3>1 DEF Fed
    <2>10. Last(toR', Offers(Racers), Data)
        BY <2>1, Behind DEF Quiet, ByChannel
    <2>11. In(toR') \subseteq In(toR)
        BY Behind
    <2>12. r[rLive].pc = "open" => Joined(rLive, r[rLive].own[1])'
        <3> SUFFICES ASSUME r[rLive].pc = "open" PROVE Joined(rLive, r[rLive].own[1])'
            OBVIOUS
        <3>1. Joined(rLive, r[rLive].own[1])
            BY <2>1 DEF Quiet, ByChannel
        <3> QED
            BY <1>1, <1>3, <1>4, <3>1 DEF Joined
    <2> QED
        BY <1>1, <1>4, <2>1, <2>6, <2>7, <2>9, <2>10, <2>11, <2>12 DEF Quiet, ByChannel
<1> QED
    BY <1>2, <1>7 DEF Quiet, ByRelay, ByChannel

\* An offer reaches the receiver.
LEMMA OfferQuiet == ASSUME Solid, Quiet, DeliverR, rLive # 0, Head(toR).t = "offer" PROVE Quiet'
<1> DEFINE n == Head(toR).n
<1>1. /\ UNCHANGED <<rLive, tile>> /\ spent'.tries = spent.tries
      /\ \/ UNCHANGED <<r, toH>>
         \/ /\ r[rLive].pc = "no"
            /\ r'[rLive].pc = "up" /\ r'[rLive].own = <<n, spent.calls + 1>>
            /\ r'[rLive].at = r[rLive].at /\ r'[rLive].path = r[rLive].path
            /\ r'[rLive].plan = r[rLive].plan /\ r'[rLive].got = r[rLive].got
            /\ \A x \in Tries : x # rLive => r'[x] = r[x]
            /\ In(toH') = In(toH) \cup {FrameOf(r'[rLive].own, "answer", 0)}
    BY OfferReaches
<1>2. Head(toR) \in ReceiverFrames /\ UNCHANGED <<h, hLive, direct>>
    BY Delivering
<1>3. /\ \A x \in Tries : x # rLive => r'[x] = r[x]
      /\ \A f \in In(toH') : f \in In(toH) \/ f.t = "answer"
    BY <1>1, FramesAre
<1>4. Calm'
    BY <1>1, <1>3, StaysCalm
<1>5. /\ r'[rLive].at = r[rLive].at /\ r'[rLive].path = r[rLive].path
      /\ r'[rLive].plan = r[rLive].plan /\ r'[rLive].got = r[rLive].got
    BY <1>1
<1>6. /\ Head(toR) \notin Data /\ Head(toR) \notin Accepts /\ (\A k : Head(toR) \notin Pieces(k))
      /\ \A s : n \in s => Head(toR) \in Offers(s)
    BY <1>2 DEF Data, Accepts, Pieces, Offers
<1>7. ASSUME Pending' PROVE ByRelay' /\ ByChannel'
    <2>1. Pending
        BY <1>1, <1>5, <1>7 DEF Pending
    <2>2. r'[rLive].at = "ready" \/ Led(toR', Data, Accepts)
        BY <1>5, <1>6, <2>1, Behind DEF Quiet, ByRelay
    <2>3. \A b \in Serves : Ready(b)'
        <3> SUFFICES ASSUME NEW b \in Serves, h[b].at \in {"race", "relay"}, r[rLive].at # "ready"
                     PROVE  In(toR') \cap Accepts # {}
            BY <1>1, <1>2, <1>5 DEF Ready
        <3>1. In(toR) \cap Accepts # {}
            BY <2>1 DEF Quiet, ByRelay, Ready
        <3> QED
            BY <1>6, <3>1, Behind
    <2>4. \A b \in Serves : Sent(b)'
        <3> SUFFICES ASSUME NEW b \in Serves, h[b].at = "relay", NEW k \in 0..(h[b].next - 1), k \notin r[rLive].got
                     PROVE  In(toR') \cap Pieces(k) # {}
            BY <1>1, <1>2, <1>5 DEF Sent
        <3>1. In(toR) \cap Pieces(k) # {}
            BY <2>1 DEF Quiet, ByRelay, Sent
        <3> QED
            BY <1>6, <3>1, Behind
    <2>5. \A k \in 0..(Relayed - 1) : Whole(k)'
        <3> SUFFICES ASSUME NEW k \in 0..(Relayed - 1), k \notin r[rLive].got PROVE Led(toR', Dones, Pieces(k))
            BY <1>1, <1>5 DEF Whole
        <3>1. Led(toR, Dones, Pieces(k))
            BY <2>1 DEF Quiet, ByRelay, Whole
        <3> QED
            BY <1>6, <3>1, Behind
    <2>6. Relaying' => r'[rLive].pc # "open" /\ r'[rLive].path # "direct"
        <3>1. Relaying' => Relaying
            BY <1>2, Behind DEF Relaying
        <3> QED
            BY <1>1, <2>1, <3>1 DEF Quiet, ByRelay
    <2>7. ByRelay'
        BY <1>1, <1>5, <2>1, <2>2, <2>3, <2>4, <2>5, <2>6 DEF Quiet, ByRelay
    <2>8. Racers' = Racers
        BY <1>2 DEF Racers
    <2>9. Last(toR', Offers(Racers), Data) /\ In(toR') \subseteq In(toR)
        BY <2>1, Behind DEF Quiet, ByChannel
    <2>10. CASE UNCHANGED <<r, toH>>
        <3>1. \A b \in Serves : Joined(rLive, b)' <=> Joined(rLive, b)
            BY <1>1, <1>2, <2>10 DEF Joined
        <3>2. \A b \in Serves : Fed(b)'
            BY <1>1, <1>2, <2>1, <2>10, <3>1 DEF Quiet, ByChannel, Fed
        <3>3. r[rLive].pc = "open" => Joined(rLive, r[rLive].own[1])'
            BY <1>1, <1>2, <2>1, <2>10 DEF Quiet, ByChannel, Joined
        <3> QED
            BY <1>1, <2>1, <2>7, <2>8, <2>9, <2>10, <3>2, <3>3 DEF Quiet, ByChannel
    <2>11. CASE r[rLive].pc = "no" /\ r'[rLive].pc = "up" /\ r'[rLive].own = <<n, spent.calls + 1>>
        <3>1. n \in Racers => In(toR') \cap Data = {}
            BY <1>6, <2>1, Behind DEF Quiet, ByChannel
        <3>2. r'[rLive].own[1] = n
            BY <2>11
        <3>3. \A b \in Serves : h[b].pc # "open"
            BY <2>1, <2>11 DEF Quiet, ByChannel, Fed, Joined
        <3>4. \A b \in Serves : Fed(b)'
            BY <1>2, <3>3 DEF Fed
        <3> QED
            BY <1>1, <2>7, <2>8, <2>9, <2>11, <3>1, <3>2, <3>4 DEF ByChannel
    <2> QED
        BY <1>1, <2>10, <2>11
<1> QED
    BY <1>4, <1>7 DEF Quiet, ByRelay, ByChannel

\* A relayed piece reaches the receiver.
LEMMA PieceQuiet == ASSUME Solid, Quiet, DeliverR, rLive # 0, Head(toR).t = "chunk" PROVE Quiet'
<1> DEFINE n == Head(toR).n
<1>1. rLive \in Tries /\ r[rLive].at \in {"asked", "ready", "verify"} /\ r[rLive] \in TryRec
    BY LiveR DEF TryOk
<1>2. /\ Head(toR) \in ReceiverFrames /\ UNCHANGED <<h, hLive, direct>> /\ n < Relayed /\ n \in Nat
    BY Delivering DEF ReceiverFrames
<1>3. Head(toR) \in Data /\ Head(toR) \notin Accepts /\ (\A k \in Nat : Head(toR) \in Pieces(k) => k = n)
    BY <1>2 DEF Data, Accepts, Pieces
<1>4. CASE r[rLive].at = "verify"
    <2>1. /\ UNCHANGED <<rLive, tile, toH, spent>> /\ r'[rLive].at = "verify"
          /\ \A x \in Tries : x # rLive => r'[x] = r[x]
        BY <1>4, PieceReaches
    <2>2. Calm'
        BY <2>1, StaysCalm
    <2>3. ~Pending'
        BY <2>1 DEF Pending
    <2> QED
        BY <2>2, <2>3 DEF Quiet, ByRelay, ByChannel
<1>5. CASE r[rLive].at # "verify"
    <2>1. Pending
        BY <1>1, <1>5 DEF Pending
    <2>2. In(toR) \cap Data # {}
        BY <1>3, Behind
    <2>3. /\ r[rLive].plan = 0 \/ r[rLive].plan = RelayBytes
          /\ \A b \in Serves : h[b].pc # "open"
        BY <2>1, <2>2, NothingDirect
    <2>4. r[rLive].at = "ready"
        BY <1>3, <2>1, Behind DEF Quiet, ByRelay
    <2>5. /\ UNCHANGED <<rLive, tile, toH, spent>>
          /\ r'[rLive].at \in {"ready", "verify"} /\ r'[rLive].pc = "no"
          /\ r'[rLive].path = "relay" /\ r'[rLive].plan = RelayBytes
          /\ r'[rLive].got = r[rLive].got \cup {n}
          /\ \A x \in Tries : x # rLive => r'[x] = r[x]
        BY <2>3, <2>4, PieceReaches
    <2>6. Calm'
        BY <2>5, StaysCalm
    <2>7. ASSUME Pending' PROVE ByRelay' /\ ByChannel'
        <3>1. r'[rLive].at = "ready"
            BY <2>5, <2>7 DEF Pending
        <3>2. \A b \in Serves : Ready(b)'
            BY <2>5, <3>1 DEF Ready
        <3>3. \A b \in Serves : Sent(b)'
            <4> SUFFICES ASSUME NEW b \in Serves, h[b].at = "relay", NEW k \in 0..(h[b].next - 1),
                                k \notin r[rLive].got, k # n
                         PROVE  In(toR') \cap Pieces(k) # {}
                BY <1>2, <2>5 DEF Sent
            <4>1. In(toR) \cap Pieces(k) # {}
                BY <2>1 DEF Quiet, ByRelay, Sent
            <4>2. k \in Nat
                BY <1>1 DEF Solid, Holder, ServeRec
            <4> QED
                BY <1>3, <4>1, <4>2, Behind
        <3>4. \A k \in 0..(Relayed - 1) : Whole(k)'
            <4> SUFFICES ASSUME NEW k \in 0..(Relayed - 1), k \notin r[rLive].got, k # n
                         PROVE  Led(toR', Dones, Pieces(k))
                BY <2>5 DEF Whole
            <4>1. Led(toR, Dones, Pieces(k))
                BY <2>1 DEF Quiet, ByRelay, Whole
            <4>2. k \in Nat
                BY PlansAreNat
            <4> QED
                BY <1>3, <4>1, <4>2, Behind
        <3>5. ByRelay'
            BY <2>5, <3>1, <3>2, <3>3, <3>4 DEF ByRelay
        <3>6. Racers' = Racers
            BY <1>2 DEF Racers
        <3>7. Last(toR', Offers(Racers), Data)
            BY <2>1, Behind DEF Quiet, ByChannel
        <3>8. \A b \in Serves : Fed(b)'
            BY <1>2, <2>3 DEF Fed
        <3> QED
            BY <2>5, <3>5, <3>6, <3>7, <3>8 DEF ByChannel
    <2> QED
        BY <2>6, <2>7 DEF Quiet, ByRelay, ByChannel
<1> QED
    BY <1>4, <1>5

\* The end of what the relay carries reaches the receiver.
LEMMA EndQuiet == ASSUME Solid, Quiet, DeliverR, rLive # 0, Head(toR).t = "done" PROVE Quiet'
<1>1. rLive \in Tries /\ r[rLive].at \in {"asked", "ready", "verify"} /\ r[rLive] \in TryRec
    BY LiveR DEF TryOk
<1>2. Head(toR) \in ReceiverFrames
    BY Delivering
<1>3. Head(toR) \in Data /\ Head(toR) \notin Accepts /\ Head(toR) \in Dones /\ (\A k : Head(toR) \notin Pieces(k))
    BY <1>2 DEF Data, Accepts, Pieces, Dones
<1>4. CASE r[rLive].at = "verify"
    <2>1. UNCHANGED <<r, rLive, tile, toH, spent>>
        BY <1>4, EndReaches
    <2>2. Calm'
        BY <2>1, StaysCalm
    <2>3. ~Pending'
        BY <1>4, <2>1 DEF Pending
    <2> QED
        BY <2>2, <2>3 DEF Quiet, ByRelay, ByChannel
<1>5. CASE r[rLive].at # "verify"
    <2>1. Pending
        BY <1>1, <1>5 DEF Pending
    <2>2. In(toR) \cap Data # {}
        BY <1>3, Behind
    <2>3. /\ r[rLive].plan = 0 \/ r[rLive].plan = RelayBytes
          /\ r[rLive].plan = 0 => r[rLive].got = {}
        BY <2>1, <2>2, NothingDirect
    <2>4. r[rLive].at = "ready"
        BY <1>3, <2>1, Behind DEF Quiet, ByRelay
    <2>5. \A k \in 0..(Relayed - 1) : k \in r[rLive].got
        <3> SUFFICES ASSUME NEW k \in 0..(Relayed - 1), Led(toR, Dones, Pieces(k)) PROVE FALSE
            BY <2>1 DEF Quiet, ByRelay, Whole
        <3> QED
            BY <1>3, Behind
    <2>6. r[rLive].plan # 0 => r[rLive].got \subseteq 0..(ChunkCount(r[rLive].plan) - 1)
        BY <2>1, PendingIs DEF TryOk
    <2>7. RelayBytes # 0
        BY PlansAreNat
    <2>8. Complete(WithPlan(r[rLive]))
        <3> DEFINE u == WithPlan(r[rLive])
        <3>1. u.plan = RelayBytes /\ u.got = r[rLive].got
            BY <1>1, <2>3 DEF WithPlan, TryRec
        <3> HIDE DEF u
        <3>2. u.got = 0..(Relayed - 1)
            BY <2>3, <2>5, <2>6, <2>7, <3>1 DEF Relayed
        <3> QED
            BY <2>7, <3>1, <3>2 DEF Complete, Relayed, u
    <2>9. /\ UNCHANGED <<rLive, tile, toH, spent>> /\ r'[rLive].at = "verify"
          /\ \A x \in Tries : x # rLive => r'[x] = r[x]
        BY <2>4, <2>8, EndReaches
    <2>10. Calm'
        BY <2>9, StaysCalm
    <2>11. ~Pending'
        BY <2>9 DEF Pending
    <2> QED
        BY <2>10, <2>11 DEF Quiet, ByRelay, ByChannel
<1> QED
    BY <1>4, <1>5

\* Any frame.
LEMMA DeliverRQuiet == ASSUME Solid, Quiet, DeliverR PROVE Quiet'
<1>1. Head(toR).t \in {"accept", "offer", "chunk", "done"}
    BY Delivering DEF Quiet, Calm
<1>2. CASE rLive # 0
    BY <1>1, <1>2, PlanQuiet, OfferQuiet, PieceQuiet, EndQuiet
<1>3. CASE rLive = 0
    <2>1. UNCHANGED <<r, rLive, tile, toH, spent>>
        BY <1>1, <1>3 DEF DeliverR, ReceiverTakes, Ignores
    <2>2. Calm'
        BY <2>1, StaysCalm
    <2>3. ~Pending'
        BY <1>3, <2>1 DEF Pending
    <2> QED
        BY <2>2, <2>3 DEF Quiet, ByRelay, ByChannel
<1> QED
    BY <1>2, <1>3

\* The direct connection opens.
LEMMA OpenRQuiet == ASSUME Solid, Quiet, NEW a \in Tries, OpenR(a) PROVE Quiet'
<1>1. /\ r[a].own[1] \in Serves /\ Joined(a, r[a].own[1]) /\ r[a].pc = "up"
      /\ r'[a].pc = "open" /\ r'[a].path = "direct"
      /\ r'[a].at = r[a].at /\ r'[a].plan = r[a].plan /\ r'[a].got = r[a].got /\ r'[a].own = r[a].own
      /\ \A x \in Tries : x # a => r'[x] = r[x]
    BY OpenRSolid
<1>2. UNCHANGED <<h, hLive, told, rLive, tile, held, toH, toR, direct, excused, spent>>
    BY DEF OpenR, HolderRests
<1>3. /\ a = rLive /\ hLive = r[a].own[1] /\ r[a].own[1] \in Racers
      /\ \A b \in Serves : h[b].at = "relay" => hLive = b
    BY <1>1, CalmIs DEF Quiet, Calm
<1>4. \A x \in Tries : r'[x].at = r[x].at
    BY <1>1
<1>5. Calm'
    BY <1>2, <1>4 DEF Quiet, Calm
<1>6. ASSUME Pending' PROVE ByRelay' /\ ByChannel'
    <2>1. Pending
        BY <1>2, <1>4, <1>6, <1>3 DEF Pending
    <2>2. In(toR) \cap Data = {}
        BY <1>1, <1>3, <2>1 DEF Quiet, ByChannel
    <2>3. ~Relaying
        BY <1>3, <2>2 DEF Relaying, Racers, Directly
    <2>4. ByRelay'
        <3>1. ~Relaying'
            BY <1>2, <2>3 DEF Relaying
        <3>2. \A b \in Serves : Ready(b)' /\ Sent(b)'
            BY <1>1, <1>2, <1>3, <2>1 DEF Quiet, ByRelay, Ready, Sent
        <3>3. \A n \in 0..(Relayed - 1) : Whole(n)'
            BY <1>1, <1>2, <1>3, <2>1 DEF Quiet, ByRelay, Whole
        <3>4. r'[rLive].at = "ready" \/ Led(toR', Data, Accepts)
            BY <1>1, <1>2, <1>3, <2>1 DEF Quiet, ByRelay
        <3> QED
            BY <1>1, <1>2, <1>3, <3>1, <3>2, <3>3, <3>4 DEF ByRelay
    <2>5. Racers' = Racers
        BY <1>2 DEF Racers
    <2>6. \A b \in Serves : Joined(rLive, b) => Joined(rLive, b)'
        BY <1>1, <1>2, <1>3 DEF Joined
    <2>7. \A b \in Serves : Fed(b)'
        BY <1>1, <1>2, <1>3, <2>1, <2>6 DEF Quiet, ByChannel, Fed
    <2>8. Joined(rLive, r[rLive].own[1])'
        BY <1>1, <1>2, <1>3 DEF Joined
    <2> QED
        BY <1>1, <1>2, <1>3, <2>1, <2>2, <2>4, <2>5, <2>7, <2>8 DEF Quiet, ByChannel
<1> QED
    BY <1>5, <1>6 DEF Quiet, ByRelay, ByChannel

\* It is given up, and was not open at the other end.
LEMMA GivesUpQuiet == ASSUME Solid, Quiet, NEW a \in Tries, GivesUp(a), ~excused' PROVE Quiet'
<1>1. /\ r[a].pc = "up" /\ r'[a] = [r[a] EXCEPT !.pc = "no"] /\ r[a] \in TryRec
      /\ \A x \in Tries : x # a => r'[x] = r[x]
    BY GivesUpSolid DEF Solid, Receiver
<1>2. /\ UNCHANGED <<h, hLive, told, rLive, tile, held, toH, toR, direct, spent>>
      /\ \A b \in Serves : Joined(a, b) => h[b].pc # "open"
      /\ r[a].path = "none"
    BY DEF GivesUp, HolderRests
<1>3. a = rLive
    BY <1>1, CalmIs DEF Quiet
<1>4. /\ r'[a].pc = "no" /\ r'[a].path = r[a].path /\ r'[a].at = r[a].at /\ r'[a].plan = r[a].plan
      /\ r'[a].got = r[a].got /\ r'[a].own = r[a].own
    BY <1>1 DEF TryRec
<1>5. \A x \in Tries : r'[x].at = r[x].at
    BY <1>1, <1>4
<1>6. Calm'
    BY <1>2, <1>5 DEF Quiet, Calm
<1>7. ASSUME Pending' PROVE ByRelay' /\ ByChannel'
    <2>1. Pending
        BY <1>2, <1>3, <1>5, <1>7 DEF Pending
    <2>2. ByRelay'
        <3>1. \A b \in Serves : Ready(b)' /\ Sent(b)'
            BY <1>2, <1>3, <1>4, <2>1 DEF Quiet, ByRelay, Ready, Sent
        <3>2. \A n \in 0..(Relayed - 1) : Whole(n)'
            BY <1>2, <1>3, <1>4, <2>1 DEF Quiet, ByRelay, Whole
        <3>3. r'[rLive].at = "ready" \/ Led(toR', Data, Accepts)
            BY <1>2, <1>3, <1>4, <2>1 DEF Quiet, ByRelay
        <3>4. r'[rLive].pc # "open" /\ r'[rLive].path = "none"
            BY <1>2, <1>3, <1>4
        <3> QED
            BY <1>2, <3>1, <3>2, <3>3, <3>4 DEF ByRelay
    <2>3. Racers' = Racers
        BY <1>2 DEF Racers
    <2>4. \A b \in Serves : h[b].pc # "open"
        BY <1>2, <1>3, <2>1 DEF Quiet, ByChannel, Fed
    <2>5. \A b \in Serves : Fed(b)'
        BY <1>2, <2>4 DEF Fed
    <2> QED
        BY <1>2, <1>3, <1>4, <2>1, <2>2, <2>3, <2>5 DEF Quiet, ByChannel
<1> QED
    BY <1>6, <1>7 DEF Quiet, ByRelay, ByChannel

\* It is not closed under a receiver that reads it.
LEMMA NotUnderR == ASSUME Solid, Quiet, NEW a \in Tries, ClosedUnderR(a) PROVE FALSE
<1>1. r[a].pc = "open" /\ r[a].at \in {"asked", "ready"} /\ h[r[a].own[1]].pc = "no"
    BY DEF ClosedUnderR
<1>2. a = rLive /\ a # 0
    BY <1>1, CalmIs DEF Quiet, Tries
<1>3. Pending
    BY <1>1, <1>2 DEF Pending
<1>4. Joined(a, r[a].own[1])
    BY <1>1, <1>2, <1>3 DEF Quiet, ByChannel
<1> QED
    BY <1>1, <1>4 DEF Joined

\* A frame of the data channel is read.
LEMMA ReadDirectQuiet == ASSUME Solid, Quiet, ReadDirect PROVE Quiet'
<1> DEFINE f == Head(direct)
<1>1. /\ UNCHANGED <<h, hLive, told, rLive, tile, held, toH, toR, excused, spent>>
      /\ direct # <<>> /\ In(direct) = In(direct') \cup {f}
      /\ \A a \in Tries : ~Reads(a, f.of) => r'[a] = r[a]
      /\ \A a \in Tries : r'[a].own = r[a].own /\ r'[a].pc = r[a].pc /\ r'[a].path = r[a].path
    BY ReadDirectSolid
<1>2. ~\E a \in Tries : r[a].pc = "up" /\ r[a].own = f.of /\ Joined(a, f.of[1])
    BY DEF ReadDirect
<1>3. \A a \in Tries : Reads(a, f.of) => a = rLive /\ r[a].pc = "open"
    BY CalmIs DEF Quiet, Reads
<1>4. \A x \in Tries : r'[x].at \in {"asked", "ready", "verify"} => x = rLive
    BY <1>1, <1>3 DEF Quiet, Calm
<1>5. spent.tries # 0
    BY <1>1 DEF Quiet, Calm
<1>6. Calm'
    BY <1>1, <1>4, <1>5 DEF Quiet, Calm
<1>7. \A a \in Tries, b \in Serves : Joined(a, b)' <=> Joined(a, b)
    BY <1>1 DEF Joined
<1>8. Racers' = Racers
    BY <1>1 DEF Racers
<1>9. Relaying' <=> Relaying
    BY <1>1 DEF Relaying
<1>10. CASE rLive \in Tries /\ Reads(rLive, f.of)
    <2>1. /\ r'[rLive].own = r[rLive].own /\ r'[rLive].pc = r[rLive].pc /\ r'[rLive].path = r[rLive].path
          /\ r'[rLive].at \in {"ready", "verify"} /\ r'[rLive].plan = DirectBytes
          /\ f.t = "hdr" => r[rLive].plan = 0
          /\ f.t = "chunk" => r'[rLive].got = r[rLive].got \cup {f.n}
          /\ f.t = "fin" => r'[rLive].got = r[rLive].got
        BY <1>10, Reader
    <2>2. r[rLive].pc = "open" /\ r[rLive].at \in {"asked", "ready"} /\ rLive # 0
        BY <1>10 DEF Reads, Tries
    <2>3. Pending /\ TryOk(rLive, r[rLive], spent.tries) /\ DirectBytes # 0
        BY <1>10, <2>2, PlansAreNat DEF Pending, Solid, Receiver
    <2>4. r[rLive].path = "direct" /\ ~Relaying
        BY <2>2, <2>3 DEF TryOk, Quiet, ByRelay
    <2>5. ASSUME Pending' PROVE ByRelay' /\ ByChannel'
        <3>1. r'[rLive].at = "ready"
            BY <1>1, <2>1, <2>5 DEF Pending
        <3>2. \A b \in Serves : Ready(b)' /\ Sent(b)'
            BY <1>1, <2>4, <3>1 DEF Ready, Sent, Relaying
        <3>3. \A n \in 0..(Relayed - 1) : Whole(n)'
            <4>1. In(toR') \cap Dones = {}
                BY <1>1, <2>4 DEF Relaying, Data, Dones
            <4> QED
                BY <4>1, NoneLed DEF Whole
        <3>4. ByRelay'
            BY <1>1, <1>9, <2>1, <2>4, <3>1, <3>2, <3>3 DEF ByRelay
        <3>5. \A b \in Serves : Fed(b)'
            <4> SUFFICES ASSUME NEW b \in Serves, h[b].pc = "open",
                                NEW n \in 0..(h[b].next - 1), n < Streamed
                         PROVE  /\ Joined(rLive, b)
                                /\ n \in r'[rLive].got \/ In(direct') \cap PiecesOf(r[rLive].own, n) # {}
                BY <1>1, <1>7, <1>10, <2>1, <2>3 DEF Fed, Quiet, ByChannel
            <4>1. /\ Joined(rLive, b)
                  /\ (r[rLive].plan # 0 /\ n \in r[rLive].got) \/ In(direct) \cap PiecesOf(r[rLive].own, n) # {}
                BY <2>3 DEF Fed, Quiet, ByChannel
            <4>2. f.t \in {"hdr", "chunk", "fin"}
                <5>1. f \in DirectFrames
                    BY <1>1, TakeIn DEF Solid, Wires
                <5> QED
                    BY <5>1 DEF DirectFrames
            <4>3. CASE f \in PiecesOf(r[rLive].own, n)
                BY <2>1, <4>1, <4>3 DEF PiecesOf
            <4>4. CASE f \notin PiecesOf(r[rLive].own, n)
                <5>1. In(direct) \cap PiecesOf(r[rLive].own, n) # {} => In(direct') \cap PiecesOf(r[rLive].own, n) # {}
                    BY <1>1, <4>4
                <5>2. r[rLive].plan # 0 /\ n \in r[rLive].got => n \in r'[rLive].got
                    BY <2>1, <4>2
                <5> QED
                    BY <4>1, <5>1, <5>2
            <4> QED
                BY <4>3, <4>4
        <3>6. Joined(rLive, r[rLive].own[1])'
            <4>1. Joined(rLive, r[rLive].own[1])
                BY <2>2, <2>3 DEF Quiet, ByChannel
            <4> QED
                BY <1>1, <1>10, <4>1 DEF Joined
        <3> QED
            BY <1>1, <1>8, <2>1, <2>3, <3>4, <3>5, <3>6 DEF Quiet, ByChannel
    <2> QED
        BY <1>6, <2>5 DEF Quiet, ByRelay, ByChannel
<1>11. CASE ~(rLive \in Tries /\ Reads(rLive, f.of))
    <2>1. \A a \in Tries : r'[a] = r[a]
        BY <1>1, <1>3, <1>11
    <2>2. ASSUME Pending' PROVE ByRelay' /\ ByChannel'
        <3>1. rLive \in Tries
            BY <1>1, <2>2, CountsAreNat DEF Pending, Solid, Receiver, Tries
        <3>2. Pending /\ r'[rLive] = r[rLive]
            BY <1>1, <2>1, <2>2, <3>1 DEF Pending
        <3>3. \A b \in Serves : Ready(b)' /\ Sent(b)'
            BY <1>1, <3>2 DEF Quiet, ByRelay, Ready, Sent
        <3>4. \A n \in 0..(Relayed - 1) : Whole(n)'
            BY <1>1, <3>2 DEF Quiet, ByRelay, Whole
        <3>5. ByRelay'
            BY <1>1, <1>9, <3>2, <3>3, <3>4 DEF Quiet, ByRelay
        <3>6. \A b \in Serves : Fed(b)'
            <4> SUFFICES ASSUME NEW b \in Serves, h[b].pc = "open" PROVE Fed(b)'
                BY <1>1 DEF Fed
            <4>1. Joined(rLive, b)
                BY <3>2 DEF Fed, Quiet, ByChannel
            <4>2. f.of # r[rLive].own
                <5> SUFFICES ASSUME f.of = r[rLive].own PROVE FALSE
                    OBVIOUS
                <5>1. r[rLive].own[1] = b
                    BY <3>1, <4>1, CalmIs DEF Quiet
                <5>2. r[rLive].pc # "up"
                    BY <1>2, <3>1, <4>1, <5>1
                <5>3. r[rLive].pc = "open"
                    BY <4>1, <5>2 DEF Joined
                <5> QED
                    BY <1>11, <3>1, <3>2, <5>3 DEF Reads, Pending
            <4>3. \A n : f \notin PiecesOf(r[rLive].own, n)
                BY <4>2 DEF PiecesOf
            <4> QED
                BY <1>1, <1>7, <3>1, <3>2, <4>1, <4>3 DEF Fed, Quiet, ByChannel
        <3>7. r[rLive].pc = "open" => Joined(rLive, r[rLive].own[1])'
            BY <1>1, <3>1, <3>2 DEF Quiet, ByChannel, Joined
        <3> QED
            BY <1>1, <1>8, <3>2, <3>5, <3>6, <3>7 DEF Quiet, ByChannel
    <2> QED
        BY <1>6, <2>2 DEF Quiet, ByRelay, ByChannel
<1> QED
    BY <1>10, <1>11

-----------------------------------------------------------------------------
(* As long as nothing went wrong: at the holder's end *)

\* The live transfer moves, or ends.
LEMMA HolderCalm ==
    ASSUME Quiet, NEW b \in Serves, h[b].at \notin {"none", "over"}, \A x \in Serves : x # b => h'[x] = h[x],
           hLive' = hLive \/ (hLive' = 0 /\ h'[b].at = "over"),
           UNCHANGED <<r, rLive, tile, held, toH, spent>>,
           \A f \in In(toR') : f \in In(toR) \/ f.t \in {"accept", "offer", "chunk", "done"}
    PROVE  Calm' /\ hLive = b /\ \A x \in Serves : x # b => h[x].at \in {"none", "over"}
<1>1. spent.tries # 0 /\ hLive = b
    BY DEF Quiet, Calm
<1>2. \A x \in Serves : x # b => h[x].at \in {"none", "over"}
    BY <1>1 DEF Quiet, Calm
<1>3. \A x \in Serves : h'[x].at \notin {"none", "over"} => hLive' = x
    BY <1>1, <1>2
<1>4. \A f \in In(toR') : f.t \in {"accept", "offer", "chunk", "done"}
    BY DEF Quiet, Calm
<1> QED
    BY <1>1, <1>2, <1>3, <1>4 DEF Quiet, Calm

\* A connection that opened is joined, so that its transfer is the live one.
LEMMA OpenIsLive ==
    ASSUME Solid, Quiet, Pending, r[rLive].pc = "open" \/ r[rLive].path = "direct"
    PROVE  /\ Joined(rLive, r[rLive].own[1]) /\ r[rLive].own[1] \in Serves /\ hLive = r[rLive].own[1]
           /\ h[hLive].at \in Directly /\ r[rLive].pc = "open"
<1>1. r[rLive].pc = "open" /\ rLive \in Tries
    BY PendingIs DEF TryOk
<1>2. Joined(rLive, r[rLive].own[1])
    BY <1>1 DEF Quiet, ByChannel
<1>3. r[rLive].own[1] \in Serves
    BY <1>1, PendingIs DEF Made, MadeOf, Offered
<1> QED
    BY <1>1, <1>2, <1>3, CalmIs DEF Quiet

\* A step that the race and the relay do not know of.
LEMMA Elsewhere ==
    ASSUME Solid, Quiet, NEW b \in Serves, \A x \in Serves : x # b => h'[x] = h[x], Calm',
           h[b].pc = "no", h'[b].pc = "no",
           h[b].at \notin Directly \cup {"relay"}, h'[b].at \notin Directly \cup {"relay"},
           UNCHANGED <<r, rLive, toR, direct>>
    PROVE  Quiet'
<1>1. Pending' <=> Pending
    BY DEF Pending
<1>2. Racers' = Racers
    BY DEF Racers
<1>3. Relaying' <=> Relaying
    BY DEF Relaying, Directly
<1>4. ASSUME Pending PROVE ByRelay' /\ ByChannel'
    <2>1. \A x \in Serves : Ready(x)' /\ Sent(x)'
        <3> SUFFICES ASSUME NEW x \in Serves, x # b PROVE Ready(x)' /\ Sent(x)'
            BY DEF Ready, Sent, Directly
        <3>1. h'[x] = h[x]
            OBVIOUS
        <3>2. Ready(x) /\ Sent(x)
            BY <1>4 DEF Quiet, ByRelay
        <3> QED
            BY <3>1, <3>2 DEF Ready, Sent
    <2>2. \A n \in 0..(Relayed - 1) : Whole(n)'
        BY <1>4 DEF Quiet, ByRelay, Whole
    <2>3. ByRelay'
        BY <1>3, <1>4, <2>1, <2>2 DEF Quiet, ByRelay
    <2>4. \A x \in Serves : Joined(rLive, x) => Joined(rLive, x)'
        BY DEF Joined
    <2>5. \A x \in Serves : Fed(x)'
        <3> SUFFICES ASSUME NEW x \in Serves, h'[x].pc = "open" PROVE Fed(x)'
            BY DEF Fed
        <3>1. h'[x] = h[x]
            OBVIOUS
        <3>2. Fed(x)
            BY <1>4 DEF Quiet, ByChannel
        <3> QED
            BY <2>4, <3>1, <3>2 DEF Fed
    <2>6. r[rLive].pc = "open" => Joined(rLive, r[rLive].own[1])'
        <3> SUFFICES ASSUME r[rLive].pc = "open" PROVE Joined(rLive, r[rLive].own[1])'
            OBVIOUS
        <3>1. Joined(rLive, r[rLive].own[1]) /\ r[rLive].own[1] \in Serves
            BY <1>4, OpenIsLive
        <3> QED
            BY <3>1 DEF Joined
    <2> QED
        BY <1>2, <1>4, <2>3, <2>5, <2>6 DEF Quiet, ByChannel
<1> QED
    BY <1>1, <1>4 DEF Quiet, ByRelay, ByChannel

\* The user agrees.
LEMMA ApproveQuiet == ASSUME Solid, Quiet, NEW b \in Serves, Approve(b) PROVE Quiet'
<1>1. /\ (\A x \in Serves : x # b => h'[x] = h[x]) /\ hLive' = hLive
      /\ h[b].at = "prompt" /\ h'[b] = [h[b] EXCEPT !.at = IF ~h[b].done THEN "digest" ELSE "over"]
    BY ApproveSolid
<1>2. UNCHANGED <<r, rLive, tile, held, toH, toR, direct, excused, spent>>
    BY DEF Approve, ReceiverRests
<1>3. h[b] \in ServeRec /\ h[b].pc = "no"
    BY <1>1, ServeIs DEF ServeOk, Directly
<1>4. h'[b].pc = "no" /\ h'[b].at \in {"digest", "over"}
    BY <1>1, <1>3 DEF ServeRec
<1>5. Calm'
    BY <1>1, <1>2, HolderCalm
<1> QED
    BY <1>1, <1>2, <1>3, <1>4, <1>5, Elsewhere DEF Directly

\* The receipt, or its deadline.
LEMMA ReceiptQuiet == ASSUME Solid, Quiet, NEW b \in Serves, Receipt(b) PROVE Quiet'
<1>1. /\ (\A x \in Serves : x # b => h'[x] = h[x]) /\ hLive' = 0
      /\ h[b].at = "receipt" /\ h'[b].at = "over" /\ h'[b].pc = "no"
    BY OneStops
<1>2. UNCHANGED <<r, rLive, tile, held, toH, toR, direct, excused, spent>>
    BY DEF Receipt, ReceiverRests
<1>3. h[b].pc = "no"
    BY <1>1, ServeIs DEF ServeOk, Directly
<1>4. Calm'
    BY <1>1, <1>2, HolderCalm
<1> QED
    BY <1>1, <1>2, <1>3, <1>4, Elsewhere DEF Directly

\* All that was queued has left: the receiver has it, and is no longer pending.
LEMMA FlushedQuiet == ASSUME Solid, Quiet, NEW b \in Serves, Flushed(b) PROVE Quiet'
<1>1. /\ (\A x \in Serves : x # b => h'[x] = h[x]) /\ hLive' = hLive
      /\ h[b].at = "flush" /\ h'[b].at = "receipt" /\ h'[b].pc = "no" /\ ~Underway(b)
    BY FlushedSolid
<1>2. UNCHANGED <<r, rLive, tile, held, toH, toR, direct, excused, spent>>
    BY DEF Flushed, ReceiverRests
<1>3. h[b].pc = "open" /\ h[b].next >= Streamed /\ h[b] \in ServeRec
    BY <1>1, ServeIs DEF ServeOk
<1>4. Calm'
    BY <1>1, <1>2, HolderCalm
<1>5. ASSUME Pending PROVE FALSE
    <2>1. Fed(b)
        BY <1>5 DEF Quiet, ByChannel
    <2>2. Joined(rLive, b)
        BY <1>3, <2>1 DEF Fed
    <2>3. /\ rLive \in Tries /\ TryOk(rLive, r[rLive], spent.tries) /\ r[rLive] \in TryRec
          /\ r[rLive].at \in {"asked", "ready"} /\ r[rLive].pc \in {"up", "open"} /\ r[rLive].own = h[b].to
        BY <1>5, <2>2, PendingIs DEF Joined
    <2>4. \A f \in In(direct) : f.of # r[rLive].own
        BY <1>1, <2>2, <2>3 DEF Underway, Linked, In
    <2>5. r[rLive].plan # 0
        <3> SUFFICES ASSUME r[rLive].plan = 0 PROVE FALSE
            OBVIOUS
        <3>1. Awaiting(rLive)
            BY <2>2, <2>3 DEF Awaiting
        <3>2. In(direct) \cap Headers(r[rLive].own) # {}
            BY <1>3, <2>2, <2>3, <3>1 DEF Solid, Channel
        <3> QED
            BY <2>4, <3>2 DEF Headers
    <2>6. r[rLive].path = "direct" /\ r[rLive].plan = DirectBytes
        <3>1. r[rLive].path # "none"
            BY <2>3, <2>5 DEF TryOk
        <3>2. r[rLive].pc = "open"
            BY <2>3, <3>1 DEF TryOk
        <3> QED
            BY <2>3, <2>5, <3>2 DEF TryOk
    <2>7. \A n \in 0..(Streamed - 1) : n \in r[rLive].got
        <3> SUFFICES ASSUME NEW n \in 0..(Streamed - 1) PROVE n \in r[rLive].got
            OBVIOUS
        <3>1. n \in 0..(h[b].next - 1) /\ n < Streamed
            BY <1>3, PlansAreNat DEF ServeRec
        <3>2. In(direct) \cap PiecesOf(r[rLive].own, n) = {}
            BY <2>4 DEF PiecesOf
        <3> QED
            BY <1>3, <2>1, <3>1, <3>2 DEF Fed
    <2>8. r[rLive].got \subseteq 0..(Streamed - 1)
        BY <2>3, <2>5, <2>6 DEF TryOk, Streamed
    <2>9. Complete(r[rLive])
        BY <2>5, <2>6, <2>7, <2>8 DEF Complete, Streamed
    <2> QED
        BY <2>3, <2>9 DEF TryOk
<1>6. ~Pending'
    BY <1>2, <1>5 DEF Pending
<1> QED
    BY <1>4, <1>6 DEF Quiet, ByRelay, ByChannel

\* The plan is sent, and with it the offer when there is a race.
LEMMA AcceptQuiet == ASSUME Solid, Quiet, NEW b \in Serves, Accept(b) PROVE Quiet'
<1> DEFINE q == Append(toR, Frame("accept", 0))
<1>1. /\ Solid' /\ (\A x \in Serves : x # b => h'[x] = h[x]) /\ hLive' = hLive
      /\ h[b].at = "digest" /\ h'[b].next = 0 /\ h'[b].at \in {"over", "race", "relay"}
      /\ h'[b].at = "over" => toR' = toR /\ h'[b].pc = "no"
      /\ h'[b].at = "relay" => toR' = q /\ h'[b].pc = "no"
      /\ h'[b].at = "race" => toR' = Append(q, Frame("offer", b)) /\ h'[b].pc = "up"
    BY AcceptSolid
<1>2. UNCHANGED <<r, rLive, tile, held, toH, direct, excused, spent>>
    BY DEF Accept, ReceiverRests
<1>3. h[b].pc = "no"
    BY <1>1, ServeIs DEF ServeOk, Directly
<1>4. /\ toR \in Seq(ReceiverFrames) /\ Frame("accept", 0) \in ReceiverFrames
      /\ Frame("offer", b) \in ReceiverFrames /\ b \in Nat
      /\ Frame("accept", 0).t = "accept" /\ Frame("offer", b).t = "offer" /\ Frame("offer", b).n = b
    <2>1. b \in Nat
        BY CountsAreNat DEF Solid, Serves
    <2> QED
        BY <2>1, FramesAre DEF Solid, Wires
<1>5. /\ q \in Seq(ReceiverFrames) /\ In(q) = In(toR) \cup {Frame("accept", 0)}
      /\ In(Append(q, Frame("offer", b))) = In(q) \cup {Frame("offer", b)}
    <2>1. q \in Seq(ReceiverFrames) /\ In(q) = In(toR) \cup {Frame("accept", 0)}
        BY <1>4, AddIn
    <2> HIDE DEF q
    <2>2. In(Append(q, Frame("offer", b))) = In(q) \cup {Frame("offer", b)}
        BY <1>4, <2>1, AddIn
    <2> QED
        BY <2>1, <2>2
<1>6. \A f \in In(toR') : f \in In(toR) \/ f = Frame("accept", 0) \/ f = Frame("offer", b)
    BY <1>1, <1>5
<1>7. /\ Calm' /\ hLive = b /\ \A x \in Serves : x # b => h[x].at \in {"none", "over"}
    <2>1. \A f \in In(toR') : f \in In(toR) \/ f.t \in {"accept", "offer", "chunk", "done"}
        BY <1>4, <1>6
    <2> QED
        BY <1>1, <1>2, <2>1, HolderCalm
<1>8. CASE h'[b].at = "over"
    BY <1>1, <1>2, <1>3, <1>7, <1>8, Elsewhere DEF Directly
<1>9. CASE h'[b].at \in {"race", "relay"}
    <2>1. In(toR) \subseteq In(toR') /\ Frame("accept", 0) \in In(toR')
        BY <1>1, <1>5, <1>9
    <2>2. /\ Frame("accept", 0) \in Accepts /\ Frame("accept", 0) \notin Data /\ Frame("offer", b) \notin Data
          /\ Frame("accept", 0) \notin Dones /\ Frame("offer", b) \notin Dones
        BY <1>4 DEF Accepts, Data, Dones
    <2>3. ASSUME NEW A, NEW B, Led(toR, A, B), Frame("accept", 0) \notin A \/ Frame("accept", 0) \in B,
                 Frame("offer", b) \notin A
          PROVE  Led(toR', A, B)
        <3>1. Led(q, A, B)
            BY <1>4, <2>3, AddLed
        <3>2. Led(Append(q, Frame("offer", b)), A, B)
            BY <1>4, <1>5, <2>3, <3>1, AddLed
        <3> QED
            BY <1>1, <1>9, <3>1, <3>2
    <2>4. ASSUME NEW A, NEW B, Last(toR, A, B), Frame("accept", 0) \notin B, Frame("offer", b) \notin B
          PROVE  Last(toR', A, B)
        <3>1. Last(q, A, B)
            BY <1>4, <2>4, AddLast
        <3>2. Last(Append(q, Frame("offer", b)), A, B)
            BY <1>4, <1>5, <2>4, <3>1, AddLast
        <3> QED
            BY <1>1, <1>9, <3>1, <3>2
    <2>5. In(toR') \cap Data = In(toR) \cap Data
        BY <1>6, <2>1, <2>2
    <2>6. ASSUME Pending' PROVE ByRelay' /\ ByChannel'
        <3>1. Pending
            BY <1>2, <2>6 DEF Pending
        <3>2. r[rLive].pc # "open" /\ r[rLive].path # "direct"
            <4>1. h[hLive].at \notin Directly
                BY <1>1, <1>7 DEF Directly
            <4> QED
                BY <3>1, <4>1, OpenIsLive
        <3>3. r[rLive].at = "ready" \/ Led(toR', Data, Accepts)
            BY <2>2, <2>3, <3>1 DEF Quiet, ByRelay
        <3>4. \A x \in Serves : Ready(x)'
            BY <2>1, <2>2 DEF Ready
        <3>5. \A x \in Serves : Sent(x)'
            <4>1. \A x \in Serves : h'[x].at = "relay" => x = b
                BY <1>1, <1>7
            <4>2. 0..(0 - 1) = {}
                OBVIOUS
            <4> QED
                BY <1>1, <4>1, <4>2 DEF Sent
        <3>6. \A n \in 0..(Relayed - 1) : Whole(n)'
            <4> SUFFICES ASSUME NEW n \in 0..(Relayed - 1), n \notin r[rLive].got PROVE Led(toR', Dones, Pieces(n))
                BY <1>2 DEF Whole
            <4>1. Led(toR, Dones, Pieces(n))
                BY <3>1 DEF Quiet, ByRelay, Whole
            <4> QED
                BY <2>2, <2>3, <4>1
        <3>7. ByRelay'
            BY <1>2, <3>1, <3>2, <3>3, <3>4, <3>5, <3>6 DEF Quiet, ByRelay
        <3>8. Racers' \subseteq {b}
            BY <1>1, <1>7 DEF Racers, Directly
        <3>9. Last(toR', Offers(Racers'), Data)
            <4>1. In(toR) \cap Offers(Racers') = {}
                <5>1. \A f \in In(toR) : f.t = "offer" => f.n # b
                    BY <1>1 DEF Solid, Wires, Offered, Early
                <5> QED
                    BY <3>8, <5>1 DEF Offers
            <4>2. Last(toR, Offers(Racers'), Data)
                BY <4>1, NoneLed
            <4> QED
                BY <2>2, <2>4, <4>2
        <3>10. ~(r[rLive].pc # "no" /\ r[rLive].own[1] \in Racers')
            <4> SUFFICES ASSUME r[rLive].pc # "no", r[rLive].own[1] \in Racers' PROVE FALSE
                OBVIOUS
            <4>1. r[rLive].own[1] = b
                BY <3>8
            <4>2. r[rLive].own[1] \in Offered
                BY <3>1, PendingIs DEF Made, MadeOf
            <4> QED
                BY <1>1, <4>1, <4>2 DEF Offered, Early
        <3>11. \A x \in Serves : Fed(x)'
            <4>1. \A x \in Serves : h[x].at \notin {"direct", "flush"}
                BY <1>1, <1>7
            <4>2. \A x \in Serves : h'[x].pc # "open"
                <5> SUFFICES ASSUME NEW x \in Serves, x # b PROVE h[x].pc # "open"
                    BY <1>1, <1>9
                <5> QED
                    BY <4>1, ServeIs DEF ServeOk
            <4> QED
                BY <4>2 DEF Fed
        <3> QED
            BY <1>2, <3>2, <3>7, <3>9, <3>10, <3>11 DEF ByChannel
    <2> QED
        BY <1>7, <2>6 DEF Quiet, ByRelay, ByChannel
<1> QED
    BY <1>1, <1>8, <1>9

\* The race is lost, and the other end was not open.
LEMMA ToRelayQuiet == ASSUME Solid, Quiet, NEW b \in Serves, ToRelay(b), ~excused' PROVE Quiet'
<1>1. /\ (\A x \in Serves : x # b => h'[x] = h[x]) /\ hLive' = hLive
      /\ h[b].at = "race" /\ h'[b].next = 0 /\ h'[b].at = "relay" /\ h'[b].pc = "no"
    BY ToRelaySolid
<1>2. /\ UNCHANGED <<r, rLive, tile, held, toH, toR, direct, spent>>
      /\ \A a \in Tries : Joined(a, b) => r[a].pc # "open"
    BY DEF ToRelay, ReceiverRests
<1>3. /\ Calm' /\ hLive = b /\ \A x \in Serves : x # b => h[x].at \in {"none", "over"}
    BY <1>1, <1>2, HolderCalm
<1>4. Racers' = {}
    BY <1>1, <1>3 DEF Racers, Directly
<1>5. \A x \in Serves : h'[x].pc # "open"
    <2> SUFFICES ASSUME NEW x \in Serves, x # b PROVE h[x].pc # "open"
        BY <1>1
    <2> QED
        BY <1>3, ServeIs DEF ServeOk
<1>6. ASSUME Pending' PROVE ByRelay' /\ ByChannel'
    <2>1. Pending
        BY <1>2, <1>6 DEF Pending
    <2>2. r[rLive].pc # "open" /\ r[rLive].path # "direct"
        <3> SUFFICES ASSUME r[rLive].pc = "open" \/ r[rLive].path = "direct" PROVE FALSE
            OBVIOUS
        <3>1. Joined(rLive, b) /\ r[rLive].pc = "open" /\ rLive \in Tries
            BY <1>3, <2>1, OpenIsLive, PendingIs
        <3> QED
            BY <1>2, <3>1
    <2>3. \A x \in Serves : Ready(x)'
        <3> SUFFICES ASSUME NEW x \in Serves, x = b PROVE Ready(x)'
            BY <1>1, <1>3 DEF Ready
        <3>1. Ready(b)
            BY <2>1 DEF Quiet, ByRelay
        <3> QED
            BY <1>1, <1>2, <3>1 DEF Ready
    <2>4. \A x \in Serves : Sent(x)'
        <3>1. \A x \in Serves : h'[x].at = "relay" => x = b
            BY <1>1, <1>3
        <3>2. 0..(0 - 1) = {}
            OBVIOUS
        <3> QED
            BY <1>1, <3>1, <3>2 DEF Sent
    <2>5. \A n \in 0..(Relayed - 1) : Whole(n)'
        BY <1>2, <2>1 DEF Quiet, ByRelay, Whole
    <2>6. ByRelay'
        BY <1>2, <2>1, <2>2, <2>3, <2>4, <2>5 DEF Quiet, ByRelay
    <2>7. Last(toR', Offers(Racers'), Data)
        <3>1. Offers(Racers') = {}
            BY <1>4 DEF Offers
        <3> QED
            BY <3>1, NoneLed
    <2>8. \A x \in Serves : Fed(x)'
        BY <1>5 DEF Fed
    <2> QED
        BY <1>2, <1>4, <2>2, <2>6, <2>7, <2>8 DEF ByChannel
<1> QED
    BY <1>3, <1>6 DEF Quiet, ByRelay, ByChannel

\* A piece goes through the relay, and the end behind the last.
LEMMA SendChunkQuiet == ASSUME Solid, Quiet, NEW b \in Serves, SendChunk(b) PROVE Quiet'
<1> DEFINE n == h[b].next
           last == n + 1 >= Relayed
<1>1. /\ (\A x \in Serves : x # b => h'[x] = h[x]) /\ hLive' = hLive
      /\ h[b].at = "relay" /\ n \in Nat /\ h'[b].next = n + 1 /\ h'[b].pc = "no"
      /\ h'[b].at = (IF last THEN "receipt" ELSE "relay")
      /\ \E q : /\ q \in Seq(ReceiverFrames)
                /\ \/ n < Relayed /\ q = Append(toR, Frame("chunk", n))
                   \/ n >= Relayed /\ q = toR
                /\ toR' = (IF last THEN Append(q, Frame("done", 0)) ELSE q)
    BY SendChunkSolid
<1>2. PICK q \in Seq(ReceiverFrames) : /\ \/ n < Relayed /\ q = Append(toR, Frame("chunk", n))
                                          \/ n >= Relayed /\ q = toR
                                       /\ toR' = (IF last THEN Append(q, Frame("done", 0)) ELSE q)
    BY <1>1
<1>3. UNCHANGED <<r, rLive, tile, held, toH, direct, excused, spent>>
    BY DEF SendChunk, ReceiverRests
<1>4. /\ toR \in Seq(ReceiverFrames) /\ Frame("chunk", n) \in ReceiverFrames /\ Frame("done", 0) \in ReceiverFrames
      /\ Frame("chunk", n).t = "chunk" /\ Frame("chunk", n).n = n /\ Frame("done", 0).t = "done"
      /\ Relayed \in Nat
    <2>1. toR \in Seq(ReceiverFrames)
        BY DEF Solid, Wires
    <2>2. n \in Nat /\ 0 \in Nat
        BY <1>1
    <2>3. Frame("chunk", n) \in ReceiverFrames /\ Frame("done", 0) \in ReceiverFrames
        BY <2>2, FramesAre
    <2>4. Frame("chunk", n).t = "chunk" /\ Frame("chunk", n).n = n /\ Frame("done", 0).t = "done"
        BY FramesAre
    <2> QED
        BY <2>1, <2>3, <2>4, PlansAreNat
<1>5. /\ In(toR) \subseteq In(q) /\ (n < Relayed => Frame("chunk", n) \in In(q)) /\ In(q) \subseteq In(toR')
      /\ \A f \in In(toR') : f \in In(toR) \/ f = Frame("chunk", n) \/ f = Frame("done", 0)
    <2>1. In(Append(toR, Frame("chunk", n))) = In(toR) \cup {Frame("chunk", n)}
        BY <1>4, AddIn
    <2>2. In(Append(q, Frame("done", 0))) = In(q) \cup {Frame("done", 0)}
        BY <1>4, AddIn
    <2>3. CASE n < Relayed
        <3>1. q = Append(toR, Frame("chunk", n))
            BY <1>1, <1>2, <1>4, <2>3
        <3> QED
            BY <1>2, <2>1, <2>2, <3>1
    <2>4. CASE ~(n < Relayed)
        <3>1. q = toR
            BY <1>2, <2>4
        <3> QED
            BY <1>2, <2>2, <2>4, <3>1
    <2> QED
        BY <2>3, <2>4
<1>6. /\ Calm' /\ hLive = b /\ \A x \in Serves : x # b => h[x].at \in {"none", "over"}
    <2>1. \A f \in In(toR') : f \in In(toR) \/ f.t \in {"accept", "offer", "chunk", "done"}
        BY <1>4, <1>5
    <2> QED
        BY <1>1, <1>3, <2>1, HolderCalm
<1>7. /\ \A k : k = n => Frame("chunk", n) \in Pieces(k)
      /\ Frame("chunk", n) \notin Dones
    BY <1>4 DEF Pieces, Dones
<1>8. Racers' = {}
    BY <1>1, <1>6 DEF Racers, Directly
<1>9. \A x \in Serves : h'[x].pc # "open"
    <2> SUFFICES ASSUME NEW x \in Serves, x # b PROVE h[x].pc # "open"
        BY <1>1
    <2> QED
        BY <1>6, ServeIs DEF ServeOk
<1>10. ASSUME Pending' PROVE ByRelay' /\ ByChannel'
    <2>1. Pending
        BY <1>3, <1>10 DEF Pending
    <2>2. r[rLive].pc # "open" /\ r[rLive].path # "direct"
        BY <1>1, <2>1 DEF Quiet, ByRelay, Relaying
    <2>3. r[rLive].at = "ready" \/ In(toR) \cap Accepts # {}
        BY <1>1, <2>1 DEF Quiet, ByRelay, Ready
    <2>4. r[rLive].at = "ready" \/ Led(toR', Data, Accepts)
        <3> SUFFICES ASSUME Led(toR, Data, Accepts), In(toR) \cap Accepts # {} PROVE Led(toR', Data, Accepts)
            BY <2>1, <2>3 DEF Quiet, ByRelay
        <3>1. Led(Append(toR, Frame("chunk", n)), Data, Accepts)
            BY <1>4, AddLed
        <3>2. Led(q, Data, Accepts) /\ In(q) \cap Accepts # {}
            BY <1>2, <1>5, <3>1
        <3>3. Led(Append(q, Frame("done", 0)), Data, Accepts)
            BY <1>4, <3>2, AddLed
        <3> QED
            BY <1>2, <3>2, <3>3
    <2>5. \A x \in Serves : Ready(x)'
        <3> SUFFICES ASSUME r[rLive].at # "ready" PROVE In(toR') \cap Accepts # {}
            BY <1>3 DEF Ready
        <3> QED
            BY <1>5, <2>3
    <2>6. \A k \in 0..n : k # n \/ n < Relayed => k \in r[rLive].got \/ In(q) \cap Pieces(k) # {}
        <3> SUFFICES ASSUME NEW k \in 0..n, k # n \/ n < Relayed, k \notin r[rLive].got
                     PROVE  In(q) \cap Pieces(k) # {}
            OBVIOUS
        <3>1. CASE k = n
            BY <1>5, <1>7, <3>1
        <3>2. CASE k # n
            <4>1. k \in 0..(n - 1)
                BY <1>1, <3>2
            <4>2. In(toR) \cap Pieces(k) # {}
                BY <1>1, <2>1, <4>1 DEF Quiet, ByRelay, Sent
            <4> QED
                BY <1>5, <4>2
        <3> QED
            BY <3>1, <3>2
    <2>7. \A x \in Serves : Sent(x)'
        <3> SUFFICES ASSUME ~last, NEW k \in 0..n, k \notin r[rLive].got PROVE In(toR') \cap Pieces(k) # {}
            <4>1. \A x \in Serves : h'[x].at = "relay" => x = b /\ ~last
                BY <1>1, <1>6
            <4>2. 0..(h'[b].next - 1) = 0..n
                BY <1>1
            <4> QED
                BY <1>3, <4>1, <4>2 DEF Sent
        <3>1. n < Relayed
            BY <1>1, <1>4
        <3> QED
            BY <1>5, <2>6, <3>1
    <2>8. \A k \in 0..(Relayed - 1) : Whole(k)'
        <3> SUFFICES ASSUME NEW k \in 0..(Relayed - 1), k \notin r[rLive].got PROVE Led(toR', Dones, Pieces(k))
            BY <1>3 DEF Whole
        <3>1. Led(toR, Dones, Pieces(k))
            BY <2>1 DEF Quiet, ByRelay, Whole
        <3>2. Led(Append(toR, Frame("chunk", n)), Dones, Pieces(k))
            BY <1>4, <1>7, <3>1, AddLed
        <3>3. Led(q, Dones, Pieces(k))
            BY <1>2, <3>1, <3>2
        <3>4. CASE last
            <4>1. k \in 0..n /\ (k # n \/ n < Relayed)
                BY <1>1, <1>4, <3>4
            <4>2. In(q) \cap Pieces(k) # {}
                BY <2>6, <4>1
            <4>3. Led(Append(q, Frame("done", 0)), Dones, Pieces(k))
                BY <1>4, <3>3, <4>2, AddLed
            <4> QED
                BY <1>2, <3>4, <4>3
        <3>5. CASE ~last
            BY <1>2, <3>3, <3>5
        <3> QED
            BY <3>4, <3>5
    <2>9. ByRelay'
        BY <1>3, <2>1, <2>2, <2>4, <2>5, <2>7, <2>8 DEF Quiet, ByRelay
    <2>10. Last(toR', Offers(Racers'), Data)
        <3>1. Offers(Racers') = {}
            BY <1>8 DEF Offers
        <3> QED
            BY <3>1, NoneLed
    <2>11. \A x \in Serves : Fed(x)'
        BY <1>9 DEF Fed
    <2> QED
        BY <1>3, <1>8, <2>2, <2>9, <2>10, <2>11 DEF ByChannel
<1> QED
    BY <1>6, <1>10 DEF Quiet, ByRelay, ByChannel

\* The connection opens at the holder's end: what opens it is the live request.
LEMMA OpenHQuiet == ASSUME Solid, Quiet, NEW b \in Serves, OpenH(b) PROVE Quiet'
<1>1. /\ (\A x \in Serves : x # b => h'[x] = h[x]) /\ hLive' = hLive
      /\ Linked(b) /\ h[b].pc = "ready" /\ h[b].at = "race"
      /\ h'[b].at = "direct" /\ h'[b].pc = "open" /\ h'[b].next = 0 /\ h'[b].to = h[b].to
      /\ In(direct) \subseteq In(direct')
    BY OpenHSolid
<1>2. UNCHANGED <<r, rLive, tile, held, toH, toR, excused, spent>>
    BY DEF OpenH, ReceiverRests
<1>3. Calm' /\ hLive = b
    BY <1>1, <1>2, HolderCalm
<1>4. Joined(rLive, b) /\ rLive \in Tries
    <2>1. PICK a \in Tries : Joined(a, b)
        BY <1>1 DEF Linked
    <2> QED
        BY <2>1, CalmIs DEF Quiet
<1>5. \A x \in Serves : Joined(rLive, x)' <=> Joined(rLive, x)
    <2>1. Joined(rLive, b)'
        BY <1>1, <1>2, <1>4 DEF Joined
    <2> QED
        BY <1>1, <1>2, <1>4, <2>1 DEF Joined
<1>6. Racers' = Racers
    BY <1>1 DEF Racers, Directly
<1>7. Relaying' <=> Relaying
    BY <1>1, <1>2 DEF Relaying
<1>8. ASSUME Pending' PROVE ByRelay' /\ ByChannel'
    <2>1. Pending
        BY <1>2, <1>8 DEF Pending
    <2>2. \A x \in Serves : Ready(x)' /\ Sent(x)'
        <3> SUFFICES ASSUME NEW x \in Serves, x # b PROVE Ready(x)' /\ Sent(x)'
            BY <1>1 DEF Ready, Sent
        <3>1. Ready(x) /\ Sent(x) /\ h'[x] = h[x]
            BY <1>1, <2>1 DEF Quiet, ByRelay
        <3> QED
            BY <1>2, <3>1 DEF Ready, Sent
    <2>3. \A n \in 0..(Relayed - 1) : Whole(n)'
        BY <1>2, <2>1 DEF Quiet, ByRelay, Whole
    <2>4. ByRelay'
        BY <1>2, <1>7, <2>1, <2>2, <2>3 DEF Quiet, ByRelay
    <2>5. \A x \in Serves : Fed(x)'
        <3> SUFFICES ASSUME NEW x \in Serves PROVE Fed(x)'
            OBVIOUS
        <3>1. CASE x = b
            <4>1. 0..(0 - 1) = {}
                OBVIOUS
            <4> QED
                BY <1>1, <1>4, <1>5, <3>1, <4>1 DEF Fed
        <3>2. CASE x # b
            BY <1>1, <1>2, <1>5, <2>1, <3>2 DEF Quiet, ByChannel, Fed
        <3> QED
            BY <3>1, <3>2
    <2>6. r[rLive].pc = "open" => Joined(rLive, r[rLive].own[1])'
        <3> SUFFICES ASSUME r[rLive].pc = "open" PROVE Joined(rLive, r[rLive].own[1])'
            OBVIOUS
        <3>1. r[rLive].own[1] = b
            BY <1>4, CalmIs DEF Quiet
        <3> QED
            BY <1>1, <1>2, <1>4, <3>1 DEF Joined
    <2> QED
        BY <1>2, <1>6, <2>1, <2>4, <2>5, <2>6 DEF Quiet, ByChannel
<1> QED
    BY <1>3, <1>8 DEF Quiet, ByRelay, ByChannel

\* A piece goes directly, or the end.
LEMMA SendDirectQuiet == ASSUME Solid, Quiet, NEW b \in Serves, SendDirect(b) PROVE Quiet'
<1>1. /\ (\A x \in Serves : x # b => h'[x] = h[x]) /\ hLive' = hLive
      /\ h[b].at = "direct" /\ h[b].pc = "open"
      /\ h'[b].pc = "open" /\ h'[b].to = h[b].to /\ h'[b].at \in {"direct", "flush"}
      /\ h[b].next \in Nat /\ h'[b].next = (IF h[b].next < Streamed THEN h[b].next + 1 ELSE h[b].next)
      /\ In(direct) \subseteq In(direct')
      /\ Linked(b) /\ h[b].next < Streamed => In(direct') \cap PiecesOf(h[b].to, h[b].next) # {}
      /\ UNCHANGED <<r, rLive, tile, held, toH, toR, told, spent, excused>>
    BY SendDirectSolid
<1>2. Calm' /\ hLive = b
    BY <1>1, HolderCalm
<1>3. \A x \in Serves : Joined(rLive, x)' <=> Joined(rLive, x)
    BY <1>1 DEF Joined
<1>4. Racers' = Racers
    BY <1>1 DEF Racers, Directly
<1>5. Relaying' <=> Relaying
    BY <1>1 DEF Relaying
<1>6. ASSUME Pending' PROVE ByRelay' /\ ByChannel'
    <2>1. Pending
        BY <1>1, <1>6 DEF Pending
    <2>2. \A x \in Serves : Ready(x)' /\ Sent(x)'
        <3> SUFFICES ASSUME NEW x \in Serves, x # b PROVE Ready(x)' /\ Sent(x)'
            BY <1>1 DEF Ready, Sent
        <3>1. Ready(x) /\ Sent(x) /\ h'[x] = h[x]
            BY <1>1, <2>1 DEF Quiet, ByRelay
        <3> QED
            BY <1>1, <3>1 DEF Ready, Sent
    <2>3. \A n \in 0..(Relayed - 1) : Whole(n)'
        BY <1>1, <2>1 DEF Quiet, ByRelay, Whole
    <2>4. ByRelay'
        BY <1>1, <1>5, <2>1, <2>2, <2>3 DEF Quiet, ByRelay
    <2>5. Fed(b) /\ Joined(rLive, b) /\ rLive \in Tries
        BY <1>1, <2>1, PendingIs DEF Quiet, ByChannel, Fed
    <2>6. Fed(b)'
        <3>1. Linked(b) /\ r[rLive].own = h[b].to
            BY <2>5 DEF Linked, Joined
        <3>2. ASSUME NEW n \in 0..(h'[b].next - 1), n < Streamed
              PROVE  (r[rLive].plan # 0 /\ n \in r[rLive].got) \/ In(direct') \cap PiecesOf(r[rLive].own, n) # {}
            <4>1. CASE n = h[b].next
                BY <1>1, <3>1, <3>2, <4>1
            <4>2. CASE n # h[b].next
                <5>1. n \in 0..(h[b].next - 1)
                    BY <1>1, <3>2, <4>2
                <5> QED
                    BY <1>1, <2>5, <3>2, <5>1 DEF Fed
            <4> QED
                BY <4>1, <4>2
        <3> QED
            BY <1>1, <1>3, <2>5, <3>2 DEF Fed
    <2>7. \A x \in Serves : Fed(x)'
        <3> SUFFICES ASSUME NEW x \in Serves, x # b PROVE Fed(x)'
            BY <2>6
        <3> QED
            BY <1>1, <1>3, <2>1 DEF Quiet, ByChannel, Fed
    <2>8. r[rLive].pc = "open" => Joined(rLive, r[rLive].own[1])'
        <3> SUFFICES ASSUME r[rLive].pc = "open" PROVE Joined(rLive, r[rLive].own[1])'
            OBVIOUS
        <3>1. r[rLive].own[1] = b
            BY <2>5, CalmIs DEF Quiet
        <3> QED
            BY <1>1, <2>5, <3>1 DEF Joined
    <2> QED
        BY <1>1, <1>4, <2>1, <2>4, <2>7, <2>8 DEF Quiet, ByChannel
<1> QED
    BY <1>2, <1>6 DEF Quiet, ByRelay, ByChannel

\* A frame that reaches the holder keeps the peace.
LEMMA TakingCalm ==
    ASSUME Solid, Quiet, DeliverH, spent'.tries = spent.tries,
           UNCHANGED toR, hLive' = hLive \/ hLive = 0,
           \A x \in Serves : x # hLive' => h'[x].at = h[x].at,
           hLive = hLive' => \A x \in Serves : h'[x].at = h[x].at
    PROVE  Calm'
<1>1. /\ toH # <<>> /\ In(toH') \subseteq In(toH)
      /\ UNCHANGED <<r, rLive, tile, held, direct, told, excused>>
    BY Taking
<1>2. spent.tries # 0
    BY <1>1 DEF Quiet, Calm
<1>3. \A x \in Serves : h'[x].at \notin {"none", "over"} => hLive' = x
    <2> SUFFICES ASSUME NEW x \in Serves, h'[x].at \notin {"none", "over"}, hLive' # x PROVE FALSE
        OBVIOUS
    <2>1. h'[x].at = h[x].at
        OBVIOUS
    <2>2. hLive = x
        BY <2>1 DEF Quiet, Calm
    <2> QED
        BY <2>2, CountsAreNat DEF Solid, Serves
<1> QED
    BY <1>1, <1>2, <1>3 DEF Quiet, Calm

\* A frame that changes no stage, and no connection but one that was not joined.
LEMMA TakingQuiet ==
    ASSUME Solid, Quiet, Calm', UNCHANGED <<r, rLive, toR, direct>>,
           \A x \in Serves : \/ /\ h'[x].at = h[x].at /\ h'[x].next = h[x].next
                                /\ \/ h'[x].pc = h[x].pc /\ h'[x].to = h[x].to
                                   \/ h[x].pc = "up" /\ h'[x].pc \in {"ready", "wrong"}
                             \/ /\ h[x].at = "none" /\ h'[x].at = "prompt"
                                /\ h[x].pc = "no" /\ h'[x].pc = "no"
    PROVE  Quiet'
<1>1. UNCHANGED <<r, rLive, direct>>
    OBVIOUS
<1>2. \A x \in Serves : /\ h'[x].at \in Directly <=> h[x].at \in Directly
                        /\ h'[x].at = "relay" <=> h[x].at = "relay"
                        /\ h'[x].at = "race" <=> h[x].at = "race"
                        /\ h'[x].at \in {"race", "relay"} => h'[x].next = h[x].next
                        /\ h'[x].pc = "open" => h[x].pc = "open" /\ h'[x].to = h[x].to /\ h'[x].next = h[x].next
    BY DEF Directly
<1>3. Racers' = Racers
    BY <1>2 DEF Racers
<1>4. Relaying' <=> Relaying
    BY <1>1, <1>2 DEF Relaying
<1>5. \A x \in Serves : Joined(rLive, x) => Joined(rLive, x)'
    BY <1>1 DEF Joined
<1>6. ASSUME Pending' PROVE ByRelay' /\ ByChannel'
    <2>1. Pending
        BY <1>1, <1>6 DEF Pending
    <2>2. \A x \in Serves : Ready(x)' /\ Sent(x)'
        <3> SUFFICES ASSUME NEW x \in Serves PROVE Ready(x)' /\ Sent(x)'
            OBVIOUS
        <3>1. Ready(x) /\ Sent(x)
            BY <2>1 DEF Quiet, ByRelay
        <3> QED
            BY <1>1, <1>2, <3>1 DEF Ready, Sent
    <2>3. \A n \in 0..(Relayed - 1) : Whole(n)'
        BY <1>1, <2>1 DEF Quiet, ByRelay, Whole
    <2>4. ByRelay'
        BY <1>1, <1>4, <2>1, <2>2, <2>3 DEF Quiet, ByRelay
    <2>5. \A x \in Serves : Fed(x)'
        <3> SUFFICES ASSUME NEW x \in Serves, h'[x].pc = "open" PROVE Fed(x)'
            BY DEF Fed
        <3>1. h[x].pc = "open" /\ h'[x].next = h[x].next
            BY <1>2
        <3>2. Fed(x)
            BY <2>1 DEF Quiet, ByChannel
        <3> QED
            BY <1>1, <1>5, <3>1, <3>2 DEF Fed
    <2>6. r[rLive].pc = "open" => Joined(rLive, r[rLive].own[1])'
        <3> SUFFICES ASSUME r[rLive].pc = "open" PROVE Joined(rLive, r[rLive].own[1])'
            OBVIOUS
        <3>1. Joined(rLive, r[rLive].own[1]) /\ r[rLive].own[1] \in Serves
            BY <2>1, OpenIsLive
        <3> QED
            BY <1>1, <3>1 DEF Joined
    <2> QED
        BY <1>1, <1>3, <2>1, <2>4, <2>5, <2>6 DEF Quiet, ByChannel
<1> QED
    BY <1>6 DEF Quiet, ByRelay, ByChannel

\* Any frame.
LEMMA DeliverHQuiet == ASSUME Solid, Quiet, DeliverH PROVE Quiet'
<1>1. Head(toH).t \in {"req", "answer", "ok"}
    BY Taking DEF Quiet, Calm
<1>2. CASE Head(toH).t = "req"
    <2>1. /\ UNCHANGED toR /\ spent'.tries = spent.tries
          /\ \/ UNCHANGED <<h, hLive, spent>>
             \/ /\ hLive = 0 /\ hLive' \in Serves
                /\ h[hLive'].at = "none" /\ h[hLive'].pc = "no"
                /\ h'[hLive'].at = "prompt" /\ h'[hLive'].pc = "no"
                /\ \A x \in Serves : x # hLive' => h'[x] = h[x]
        BY <1>2, RequestReaches
    <2>2. hLive = hLive' => \A x \in Serves : h'[x].at = h[x].at
        BY <2>1, CountsAreNat DEF Solid, Serves
    <2>3. Calm'
        BY <2>1, <2>2, TakingCalm
    <2> QED
        BY <2>1, <2>3, Taking, TakingQuiet
<1>3. CASE Head(toH).t # "req" /\ hLive = 0
    <2>1. UNCHANGED <<h, hLive, toR, spent>>
        BY <1>3, Taking DEF HolderTakes
    <2>2. Calm'
        BY <2>1, TakingCalm
    <2> QED
        BY <2>1, <2>2, Taking, TakingQuiet
<1>4. CASE hLive # 0 /\ Head(toH).t = "answer"
    <2>1. UNCHANGED <<h, hLive, toR, spent>>
        BY <1>4, AnswerReaches
    <2>2. Calm'
        BY <2>1, TakingCalm
    <2> QED
        BY <2>1, <2>2, Taking, TakingQuiet
<1>5. CASE hLive # 0 /\ Head(toH).t = "ok"
    <2>1. /\ UNCHANGED <<toR, spent, hLive>> /\ \A x \in Serves : x # hLive => h'[x] = h[x]
          /\ h'[hLive].at = h[hLive].at /\ h'[hLive].next = h[hLive].next
          /\ h'[hLive].pc = h[hLive].pc /\ h'[hLive].to = h[hLive].to
        BY <1>5, WordReaches
    <2>2. Calm'
        BY <2>1, TakingCalm
    <2> QED
        BY <2>1, <2>2, Taking, TakingQuiet
<1> QED
    BY <1>1, <1>2, <1>3, <1>4, <1>5

\* An answer that is applied joins what was not joined.
LEMMA AppliedQuiet == ASSUME Solid, Waiting, Quiet, NEW b \in Serves, Applied(b) PROVE Quiet'
<1>1. /\ (\A x \in Serves : x # b => h'[x] = h[x]) /\ hLive' = hLive
      /\ h'[b].at = h[b].at /\ h'[b].next = h[b].next /\ h[b].at = "race"
      /\ h[b].pc = "up" /\ h'[b].pc \in {"ready", "wrong"}
      /\ UNCHANGED <<r, rLive, tile, held, direct, toH, toR, told, excused, spent>>
    BY AppliedSolid
<1>2. Calm'
    BY <1>1, HolderCalm
<1> QED
    BY <1>1, <1>2, TakingQuiet

\* An answer that is rejected and fails nothing.
LEMMA RejectedQuiet == ASSUME Solid, Quiet, NEW b \in Serves, Rejected(b), ~excused' PROVE Quiet'
<1>1. UNCHANGED <<h, hLive, r, rLive, tile, held, direct, toH, toR, told, spent, excused>>
    BY RejectedSolid
<1>2. Calm'
    BY <1>1 DEF Quiet, Calm
<1> QED
    BY <1>1, <1>2, TakingQuiet

\* A frame that is delivered twice keeps the peace.
LEMMA RepeatsOneQuiet == ASSUME Solid, Quiet, RepeatsOne PROVE Quiet'
<1>1. /\ In(toH') = In(toH) /\ In(toR') = In(toR) /\ spent'.tries = spent.tries
      /\ UNCHANGED <<h, hLive, told, r, rLive, tile, held, direct, excused>>
      /\ (toR # <<>> /\ toR' = <<Head(toR)>> \o toR) \/ toR' = toR
      /\ toH = <<>> => toH' = toH
    BY RepeatsOneSolid
<1>2. toR \in Seq(ReceiverFrames)
    BY DEF Solid, Wires
<1>3. Calm'
    BY <1>1 DEF Quiet, Calm
<1>4. \A A, B : Led(toR, A, B) => Led(toR', A, B)
    BY <1>1, <1>2, TwiceLed
<1>5. Last(toR, Offers(Racers), Data) => Last(toR', Offers(Racers), Data)
    <2>1. Offers(Racers) \cap Data = {}
        BY DEF Offers, Data
    <2> QED
        BY <1>1, <1>2, <2>1, TwiceLast
<1>6. (Racers' = Racers) /\ (Relaying' <=> Relaying) /\ (Pending' <=> Pending)
    BY <1>1 DEF Racers, Relaying, Pending
<1>7. ASSUME Pending PROVE ByRelay' /\ ByChannel'
    <2>1. \A x \in Serves : Ready(x)' /\ Sent(x)'
        BY <1>1, <1>7 DEF Quiet, ByRelay, Ready, Sent
    <2>2. \A n \in 0..(Relayed - 1) : Whole(n)'
        BY <1>1, <1>4, <1>7 DEF Quiet, ByRelay, Whole
    <2>3. ByRelay'
        BY <1>1, <1>4, <1>6, <1>7, <2>1, <2>2 DEF Quiet, ByRelay
    <2>4. \A x \in Serves : Fed(x)'
        BY <1>1, <1>7 DEF Quiet, ByChannel, Fed, Joined
    <2>5. r[rLive].pc = "open" => Joined(rLive, r[rLive].own[1])'
        BY <1>1, <1>7 DEF Quiet, ByChannel, Joined
    <2> QED
        BY <1>1, <1>5, <1>6, <1>7, <2>3, <2>4, <2>5 DEF Quiet, ByChannel
<1> QED
    BY <1>3, <1>6, <1>7 DEF Quiet, ByRelay, ByChannel

-----------------------------------------------------------------------------
(* The invariant, and what it gives *)

\* Whatever happens, a step keeps what is solid.
LEMMA SolidNext == ASSUME Solid, Waiting, [Next]_vars PROVE Solid'
<1>1. CASE UNCHANGED vars
    <2>1. Counts' /\ UNCHANGED <<h, hLive, r, rLive, tile, held, direct, told, toH, toR, spent>>
        BY <1>1 DEF vars, Solid, Counts
    <2>2. toH' \in Seq(HolderFrames) /\ toR' \in Seq(ReceiverFrames) /\ In(toH') = In(toH) /\ In(toR') = In(toR)
        BY <2>1 DEF Solid, Wires
    <2> QED
        BY <2>1, <2>2, SolidW
<1>2. CASE Request \/ CancelR \/ CancelH
    BY <1>2, RequestSolid, CancelREnds, CancelHStops
<1>3. CASE DeliverR \/ DeliverH \/ ReadDirect \/ LosesOne \/ RepeatsOne
    BY <1>3, DeliverRSolid, DeliverHSolid, ReadDirectSolid, LosesOneSolid, RepeatsOneSolid
<1>4. ASSUME NEW a \in Tries, Deadline(a) \/ Idle(a) \/ Verified(a) \/ OpenR(a) \/ GivesUp(a) \/ ClosedUnderR(a)
      PROVE  Solid'
    BY <1>4, OneEnds, VerifiedSolid, OpenRSolid, GivesUpSolid
<1>5. ASSUME NEW b \in Serves, Approve(b) \/ Works(b) \/ Expires(b) \/ Rejected(b) PROVE Solid'
    <2>1. CASE Approve(b)
        BY <2>1, ApproveSolid
    <2>2. CASE Works(b)
        BY <2>2, AcceptSolid, OpenHSolid, SendChunkSolid, SendDirectSolid, FlushedSolid, AppliedSolid DEF Works
    <2>3. CASE Expires(b)
        BY <2>3, OneStops, ToRelaySolid DEF Expires
    <2>4. CASE Rejected(b)
        BY <2>4, RejectedSolid
    <2> QED
        BY <1>5, <2>1, <2>2, <2>3, <2>4
<1> QED
    BY <1>1, <1>2, <1>3, <1>4, <1>5 DEF Next

\* What went wrong is not forgotten.
LEMMA ExcuseStays == ASSUME [Next]_vars, ~excused' PROVE ~excused
<1>1. CASE UNCHANGED vars
    BY <1>1 DEF vars
<1>2. CASE Request \/ CancelR \/ CancelH \/ DeliverR \/ DeliverH \/ ReadDirect \/ LosesOne \/ RepeatsOne
    BY <1>2 DEF Request, CancelR, CancelH, DeliverR, DeliverH, ReadDirect, LosesOne, RepeatsOne
<1>3. ASSUME NEW a \in Tries, Deadline(a) \/ Idle(a) \/ Verified(a) \/ OpenR(a) \/ GivesUp(a) \/ ClosedUnderR(a)
      PROVE  ~excused
    BY <1>3 DEF Deadline, Idle, Verified, OpenR, GivesUp, ClosedUnderR
<1>4. ASSUME NEW b \in Serves, Approve(b) \/ Works(b) \/ Expires(b) \/ Rejected(b) PROVE ~excused
    BY <1>4 DEF Approve, Works, Expires, Accept, OpenH, SendChunk, SendDirect, Flushed, Deny, ToRelay,
                Breaks, Receipt, Applied, Rejected
<1> QED
    BY <1>1, <1>2, <1>3, <1>4 DEF Next

\* As long as nothing goes wrong, a step keeps the peace.
LEMMA QuietNext == ASSUME Solid, Waiting, Quiet, [Next]_vars, ~excused' PROVE Quiet'
<1>1. CASE UNCHANGED vars
    <2>1. UNCHANGED <<h, hLive, r, rLive, tile, held, direct, told, toH, toR, spent>>
        BY <1>1 DEF vars
    <2>2. Calm'
        BY <2>1 DEF Quiet, Calm
    <2>3. ByRelay'
        BY <2>1 DEF Quiet, ByRelay, Pending, Ready, Sent, Whole, Relaying
    <2>4. ByChannel'
        BY <2>1 DEF Quiet, ByChannel, Pending, Racers, Fed, Joined
    <2> QED
        BY <2>2, <2>3, <2>4 DEF Quiet
<1>2. CASE Request
    BY <1>2, RequestQuiet
<1>3. CASE CancelR \/ CancelH \/ LosesOne
    BY <1>3 DEF CancelR, CancelH, LosesOne
<1>4. CASE DeliverR \/ DeliverH \/ ReadDirect \/ RepeatsOne
    BY <1>4, DeliverRQuiet, DeliverHQuiet, ReadDirectQuiet, RepeatsOneQuiet
<1>5. ASSUME NEW a \in Tries, Deadline(a) \/ Idle(a) \/ Verified(a) \/ OpenR(a) \/ GivesUp(a) \/ ClosedUnderR(a)
      PROVE  Quiet'
    <2>1. ~Deadline(a) /\ ~Idle(a)
        BY DEF Deadline, Idle
    <2> QED
        BY <1>5, <2>1, VerifiedQuiet, OpenRQuiet, GivesUpQuiet, NotUnderR
<1>6. ASSUME NEW b \in Serves, Approve(b) \/ Works(b) \/ Expires(b) \/ Rejected(b) PROVE Quiet'
    <2>1. CASE Approve(b)
        BY <2>1, ApproveQuiet
    <2>2. CASE Works(b)
        BY <2>2, AcceptQuiet, OpenHQuiet, SendChunkQuiet, SendDirectQuiet, FlushedQuiet, AppliedQuiet DEF Works
    <2>3. CASE Expires(b)
        <3>1. ~Deny(b) /\ ~Breaks(b)
            BY DEF Deny, Breaks
        <3> QED
            BY <2>3, <3>1, ReceiptQuiet, ToRelayQuiet DEF Expires
    <2>4. CASE Rejected(b)
        BY <2>4, RejectedQuiet
    <2> QED
        BY <1>6, <2>1, <2>2, <2>3, <2>4
<1> QED
    BY <1>1, <1>2, <1>3, <1>4, <1>5, <1>6 DEF Next

\* The invariant holds in every state.
LEMMA TransferInvHolds == Spec => []TransferInv
<1>1. Init => TransferInv
    BY Begins
<1>2. TransferInv /\ [Next]_vars => TransferInv'
    BY SolidNext, WaitingNext, QuietNext, ExcuseStays DEF TransferInv
<1> QED
    BY <1>1, <1>2, PTL DEF Spec

\* What both users are told is so: EndsHonestly of transfer.js, of every file
\* and whatever is lost, repeated, cancelled or too late.
THEOREM TransfersEndHonestly == Spec => []EndsHonestly
<1>1. ASSUME TransferInv PROVE EndsHonestly
    <2>1. Solid
        BY <1>1 DEF TransferInv
    <2>2. TypeOK
        <3>1. ASSUME NEW b \in Serves
              PROVE  /\ h[b].at \in {"none", "prompt", "digest", "race", "relay", "direct", "flush",
                                     "receipt", "over"}
                     /\ h[b].pc \in {"no", "up", "wrong", "ready", "open"}
                     /\ h[b].at \in {"direct", "flush"} <=> h[b].pc = "open"
            BY <2>1, ServeIs DEF ServeOk, ServeRec, Stages
        <3>2. ASSUME NEW a \in Tries
              PROVE  /\ r[a].at \in {"none", "asked", "ready", "verify", "over"}
                     /\ r[a].plan \in {0, RelayBytes, DirectBytes}
                     /\ r[a].plan # 0 => r[a].got \subseteq 0..(ChunkCount(r[a].plan) - 1)
            BY <2>1 DEF Solid, Receiver, TryOk, TryRec
        <3> QED
            BY <2>1, <3>1, <3>2 DEF TypeOK, Solid, Holder, Receiver, Counts
    <2>3. SentMeansHeld
        BY <2>1 DEF SentMeansHeld, Solid, Receipts
    <2>4. StoppedStaysStopped
        BY <2>1, ServeIs DEF StoppedStaysStopped, ServeOk
    <2>5. HarmlessRepeats
        BY <1>1 DEF HarmlessRepeats, TransferInv, Quiet, Calm
    <2> QED
        BY <2>2, <2>3, <2>4, <2>5 DEF EndsHonestly
<1> QED
    BY <1>1, TransferInvHolds, PTL

\* A transfer that is stopped is no longer on either path.
LEMMA StoppedIsOff ==
    ASSUME Solid, NEW b \in Serves, NEW x \in Serves, StopH(x)
    PROVE  h'[b].at = h[b].at \/ h'[b].at \notin {"relay", "direct"}
<1>1. /\ h' = [h EXCEPT ![x] = Stopped(h[x])] /\ h \in [Serves -> ServeRec] /\ h[x] \in ServeRec
    BY ServeIs DEF StopH, Solid, Holder
<1>2. Stopped(h[x]).at \in {"prompt", "digest", "over"}
    BY <1>1 DEF Stopped, ServeRec
<1>3. h'[b] = IF b = x THEN Stopped(h[x]) ELSE h[b]
    BY <1>1
<1> QED
    BY <1>2, <1>3

\* A transfer does not change its path.
LEMMA OneWay ==
    ASSUME Solid, Waiting, [Next]_vars, NEW b \in Serves
    PROVE  {h[b].at, h'[b].at} # {"relay", "direct"}
<1> SUFFICES \/ h'[b].at = h[b].at
             \/ h'[b].at \notin {"relay", "direct"}
             \/ h[b].at \notin {"relay", "direct"}
    OBVIOUS
<1>1. CASE UNCHANGED h
    BY <1>1
<1>2. CASE CancelH
    BY <1>2, StoppedIsOff, LiveH DEF CancelH, FinishH
<1>3. CASE DeliverH
    <2>1. CASE Head(toH).t = "req"
        <3>1. \/ UNCHANGED h
              \/ /\ h'[hLive'].at = "prompt" /\ \A x \in Serves : x # hLive' => h'[x] = h[x]
            BY <1>3, <2>1, RequestReaches
        <3> QED
            BY <3>1
    <2>2. CASE Head(toH).t # "req" /\ hLive = 0
        BY <1>3, <2>2, Taking DEF HolderTakes
    <2>3. CASE hLive # 0 /\ Head(toH).t = "answer"
        BY <1>3, <2>3, AnswerReaches
    <2>4. CASE hLive # 0 /\ Head(toH).t = "ok"
        <3>1. h'[hLive].at = h[hLive].at /\ \A x \in Serves : x # hLive => h'[x] = h[x]
            BY <1>3, <2>4, WordReaches
        <3> QED
            BY <3>1
    <2>5. CASE hLive # 0 /\ Head(toH).t \in {"cancel", "error"}
        <3>1. StopH(hLive)
            <4>1. Head(toH).t # "req" /\ Head(toH).t # "answer" /\ Head(toH).t # "ok"
                BY <2>5
            <4> QED
                BY <1>3, <2>5, <4>1, Taking DEF HolderTakes, FinishH
        <3> QED
            BY <2>5, <3>1, StoppedIsOff, LiveH
    <2>6. Head(toH).t \in {"req", "cancel", "error", "ok", "answer"}
        BY <1>3, Taking DEF HolderFrames
    <2> QED
        BY <2>1, <2>2, <2>3, <2>4, <2>5, <2>6
<1>4. ASSUME NEW x \in Serves, Approve(x) \/ Works(x) \/ Expires(x) \/ Rejected(x)
      PROVE  \/ h'[b].at = h[b].at
             \/ h'[b].at \notin {"relay", "direct"}
             \/ h[b].at \notin {"relay", "direct"}
    <2>1. CASE Approve(x)
        BY <2>1, ApproveSolid
    <2>2. CASE Accept(x)
        BY <2>2, AcceptSolid
    <2>3. CASE OpenH(x) \/ ToRelay(x)
        BY <2>3, OpenHSolid, ToRelaySolid
    <2>4. CASE SendChunk(x)
        BY <2>4, SendChunkSolid
    <2>5. CASE SendDirect(x) \/ Flushed(x)
        BY <2>5, SendDirectSolid, FlushedSolid
    <2>6. CASE Deny(x)
        <3>1. h[x].at = "prompt" /\ \A y \in Serves : y # x => h'[y] = h[y]
            BY <2>6, OneStops DEF Deny
        <3> QED
            BY <3>1
    <2>7. CASE Breaks(x) \/ Receipt(x)
        BY <2>7, StoppedIsOff DEF Breaks, AbortH, Receipt, FinishH
    <2>8. CASE Applied(x)
        <3>1. h'[x].at = h[x].at /\ \A y \in Serves : y # x => h'[y] = h[y]
            BY <2>8, AppliedSolid
        <3> QED
            BY <3>1
    <2>9. CASE Rejected(x)
        BY <2>9, RejectedSolid, StoppedIsOff
    <2> QED
        BY <1>4, <2>1, <2>2, <2>3, <2>4, <2>5, <2>6, <2>7, <2>8, <2>9 DEF Works, Expires
<1>5. CASE Request \/ CancelR \/ DeliverR \/ ReadDirect \/ LosesOne \/ RepeatsOne
    BY <1>5 DEF Request, CancelR, DeliverR, ReadDirect, LosesOne, RepeatsOne, HolderRests
<1>6. ASSUME NEW a \in Tries, Deadline(a) \/ Idle(a) \/ Verified(a) \/ OpenR(a) \/ GivesUp(a) \/ ClosedUnderR(a)
      PROVE  UNCHANGED h
    BY <1>6 DEF Deadline, Idle, Verified, OpenR, GivesUp, ClosedUnderR, HolderRests
<1> QED
    BY <1>1, <1>2, <1>3, <1>4, <1>5, <1>6 DEF Next, vars

\* A file takes one path, and what is kept of it is whole: ArrivesWhole of
\* transfer.js and chunker.js, of every file and every size of a piece.
THEOREM FilesArriveWhole == Spec => ArrivesWhole
<1>1. ASSUME TransferInv, [Next]_vars, NEW b \in Serves PROVE {h[b].at, h'[b].at} # {"relay", "direct"}
    BY <1>1, OneWay DEF TransferInv
<1>2. ASSUME TransferInv, NEW a \in Tries, r[a].at = "verify"
      PROVE  r[a].plan # 0 /\ r[a].got = 0..(ChunkCount(r[a].plan) - 1)
    BY <1>2 DEF TransferInv, Solid, Receiver, TryOk, Complete
<1>3. TransferInv /\ [Next]_vars => [\A b \in Serves : {h[b].at, h'[b].at} # {"relay", "direct"}]_vars
    BY <1>1
<1>4. TransferInv => [\A a \in Tries : r[a].at = "verify" /\ r'[a].at = "over"
                        => r[a].plan # 0 /\ r[a].got = 0..(ChunkCount(r[a].plan) - 1)]_vars
    BY <1>2
<1>5. Spec => OnePath
    BY <1>3, TransferInvHolds, PTL DEF Spec, OnePath
<1>6. Spec => HeldIsWhole
    BY <1>4, TransferInvHolds, PTL DEF HeldIsWhole
<1> QED
    BY <1>5, <1>6 DEF ArrivesWhole
=============================================================================
