----------------------------- MODULE PartsProofs -----------------------------
(***************************************************************************)
(* What the small machines promise, proved for every bound and every       *)
(* instance: the replicas behind one backend, the rate limits, the files   *)
(* panel and its prompts, the clips and settings kept, the dialogs, the    *)
(* toasts, the roster, banners, the editor, and the outbox of the          *)
(* event-stream channel; and the switch that evicts every service worker.  *)
(*                                                                         *)
(* Most promises are about a calm moment, or about what is shown, so none  *)
(* of those is inductive.  What is kept in between says where the truth    *)
(* is while it is under way: the last frame on the line is the room; a     *)
(* tile without a file has its retraction under way behind its             *)
(* announcement; a tab that is behind hears the disk last; a subscription  *)
(* that nothing broke holds what it has not fanned out, in order; a frame  *)
(* in the outbox has none of its two tries on the way; before a request of *)
(* another device the holder hears that the one it trusts is gone.         *)
(***************************************************************************)
EXTENDS SharedRelay, FramePolicy, Files, Store, Shell, Notices, Presence, SseChannel,
        SequenceTheorems, FiniteSetTheorems, WellFoundedInduction, TLAPS

\* What is in a line.
Of(line) == {line[i] : i \in DOMAIN line}

\* The empty line; one more at its end; its first taken.
LEMMA LineEmpty == \A S : <<>> \in Seq(S) /\ Of(<<>>) = {}
BY EmptySeq DEF Of

\* One more at the end of a line.
LEMMA LineLonger ==
    ASSUME NEW S, NEW s \in Seq(S), NEW e \in S
    PROVE  /\ Append(s, e) \in Seq(S) /\ Append(s, e) # <<>>
           /\ Of(Append(s, e)) = Of(s) \cup {e}
           /\ Append(s, e)[Len(Append(s, e))] = e
<1>1. /\ Append(s, e) \in Seq(S) /\ Append(s, e) # <<>>
      /\ Len(s) \in Nat /\ Len(Append(s, e)) = Len(s) + 1
      /\ \A i \in 1..Len(s) : Append(s, e)[i] = s[i]
      /\ Append(s, e)[Len(s) + 1] = e
    BY AppendProperties, LenProperties
<1>2. DOMAIN s = 1..Len(s) /\ DOMAIN Append(s, e) = 1..(Len(s) + 1)
    BY <1>1, LenProperties
<1>3. 1..(Len(s) + 1) = 1..Len(s) \cup {Len(s) + 1}
    BY <1>1
<1>4. Of(Append(s, e)) = Of(s) \cup {e}
    BY <1>1, <1>2, <1>3 DEF Of
<1> QED
    BY <1>1, <1>4

\* The first of a line taken.
LEMMA LineShorter ==
    ASSUME NEW S, NEW s \in Seq(S), s # <<>>
    PROVE  /\ Head(s) \in S /\ Tail(s) \in Seq(S)
           /\ Of(s) = Of(Tail(s)) \cup {Head(s)}
           /\ s[Len(s)] = IF Tail(s) = <<>> THEN Head(s) ELSE Tail(s)[Len(Tail(s))]
<1>1. /\ Head(s) \in S /\ Tail(s) \in Seq(S) /\ Len(Tail(s)) = Len(s) - 1 /\ Head(s) = s[1]
      /\ \A i \in 1..Len(Tail(s)) : Tail(s)[i] = s[i + 1]
    BY HeadTailProperties
<1>2. Len(s) \in Nat /\ Len(s) # 0
    BY EmptySeq, LenProperties
<1>3. DOMAIN s = 1..Len(s) /\ DOMAIN Tail(s) = 1..(Len(s) - 1)
    BY <1>1, LenProperties
<1>4. /\ \A i \in 1..(Len(s) - 1) : i + 1 \in 1..Len(s)
      /\ \A i \in 1..Len(s) : i # 1 => i - 1 \in 1..(Len(s) - 1) /\ (i - 1) + 1 = i
      /\ 1 \in 1..Len(s)
    BY <1>2
<1>5. \A i \in DOMAIN Tail(s) : i + 1 \in DOMAIN s /\ Tail(s)[i] = s[i + 1]
    BY <1>1, <1>3, <1>4
<1>6. \A i \in DOMAIN s : i # 1 => i - 1 \in DOMAIN Tail(s) /\ Tail(s)[i - 1] = s[i]
    BY <1>1, <1>3, <1>4
<1>7. Of(s) \subseteq Of(Tail(s)) \cup {Head(s)}
    <2>1. \A i \in DOMAIN s : s[i] \in Of(Tail(s)) \cup {Head(s)}
        BY <1>1, <1>6 DEF Of
    <2> QED
        BY <2>1 DEF Of
<1>8. Of(Tail(s)) \cup {Head(s)} \subseteq Of(s)
    BY <1>1, <1>3, <1>4, <1>5 DEF Of
<1>9. CASE Tail(s) = <<>>
    <2>1. Len(Tail(s)) = 0
        BY <1>9, EmptySeq
    <2>2. Len(s) - 1 = 0
        BY <1>1, <2>1
    <2>3. Len(s) = 1
        BY <1>2, <2>2
    <2> QED
        BY <1>1, <1>7, <1>8, <1>9, <2>3
<1>10. CASE Tail(s) # <<>>
    <2>1. Len(Tail(s)) \in 1..Len(Tail(s)) /\ Len(Tail(s)) + 1 = Len(s)
        BY <1>1, <1>2, <1>10, EmptySeq, LenProperties
    <2> QED
        BY <1>1, <1>7, <1>8, <1>10, <2>1
<1> QED
    BY <1>9, <1>10

\* Two lines joined hold what either held.
LEMMA LinesJoined ==
    ASSUME NEW S, NEW s \in Seq(S), NEW t \in Seq(S)
    PROVE  s \o t \in Seq(S) /\ Of(s \o t) = Of(s) \cup Of(t)
<1>1. /\ s \o t \in Seq(S) /\ Len(s \o t) = Len(s) + Len(t)
      /\ Len(s) \in Nat /\ Len(t) \in Nat
      /\ \A i \in 1..(Len(s) + Len(t)) : (s \o t)[i] = IF i <= Len(s) THEN s[i] ELSE t[i - Len(s)]
    BY ConcatProperties, LenProperties
<1>2. DOMAIN s = 1..Len(s) /\ DOMAIN t = 1..Len(t) /\ DOMAIN (s \o t) = 1..(Len(s) + Len(t))
    BY <1>1, LenProperties
<1>3. Of(s \o t) \subseteq Of(s) \cup Of(t)
    <2>1. SUFFICES ASSUME NEW i \in 1..(Len(s) + Len(t)) PROVE (s \o t)[i] \in Of(s) \cup Of(t)
        BY <1>2 DEF Of
    <2>2. CASE i <= Len(s)
        <3>1. i \in DOMAIN s /\ (s \o t)[i] = s[i]
            BY <1>1, <1>2, <2>2
        <3> QED
            BY <3>1 DEF Of
    <2>3. CASE ~(i <= Len(s))
        <3>1. i - Len(s) \in DOMAIN t /\ (s \o t)[i] = t[i - Len(s)]
            BY <1>1, <1>2, <2>3
        <3> QED
            BY <3>1 DEF Of
    <2> QED
        BY <2>2, <2>3
<1>4. \A i \in DOMAIN s : i \in DOMAIN (s \o t) /\ (s \o t)[i] = s[i]
    BY <1>1, <1>2
<1>5. \A i \in DOMAIN t : i + Len(s) \in DOMAIN (s \o t) /\ (s \o t)[i + Len(s)] = t[i]
    <2>1. SUFFICES ASSUME NEW i \in 1..Len(t)
                   PROVE  i + Len(s) \in DOMAIN (s \o t) /\ (s \o t)[i + Len(s)] = t[i]
        BY <1>2
    <2>2. i + Len(s) \in 1..(Len(s) + Len(t)) /\ ~(i + Len(s) <= Len(s)) /\ (i + Len(s)) - Len(s) = i
        BY <1>1
    <2> QED
        BY <1>1, <1>2, <2>2
<1>6. Of(s) \cup Of(t) \subseteq Of(s \o t)
    BY <1>4, <1>5 DEF Of
<1> QED
    BY <1>1, <1>3, <1>6

\* A stretch of a line.
LEMMA Stretch ==
    ASSUME NEW S, NEW s \in Seq(S), NEW a \in Nat \ {0}, NEW z \in Nat, a - 1 <= z, z <= Len(s),
           NEW p, p = SubSeq(s, a, z)
    PROVE  /\ p \in Seq(S) /\ Len(p) = (z + 1) - a /\ DOMAIN p = 1..((z + 1) - a)
           /\ \A j \in DOMAIN p : (a + j) - 1 \in DOMAIN s /\ p[j] = s[(a + j) - 1]
           /\ Of(p) \subseteq Of(s)
<1>1. Len(s) \in Nat /\ DOMAIN s = 1..Len(s)
    BY LenProperties
<1>2. a \in Int /\ z \in Int /\ \A j \in a..z : j \in 1..Len(s)
    BY <1>1
<1>3. \A j \in a..z : s[j] \in S
    BY <1>1, <1>2, ElementOfSeq
<1>4. /\ p \in Seq(S) /\ Len(p) = IF a <= z THEN z - a + 1 ELSE 0
      /\ \A j \in 1..(z - a + 1) : p[j] = s[a + j - 1]
    BY <1>2, <1>3, SubSeqProperties
<1>5. Len(p) = (z + 1) - a
    <2>1. CASE a <= z
        BY <1>4, <2>1
    <2>2. CASE ~(a <= z)
        BY <1>2, <1>4, <2>2
    <2> QED
        BY <2>1, <2>2
<1>6. DOMAIN p = 1..((z + 1) - a)
    BY <1>4, <1>5, LenProperties
<1>7. ASSUME NEW j \in DOMAIN p PROVE (a + j) - 1 \in DOMAIN s /\ p[j] = s[(a + j) - 1]
    <2>1. j \in 1..(z - a + 1) /\ a + j - 1 \in a..z
        BY <1>2, <1>6
    <2>2. p[j] = s[a + j - 1] /\ a + j - 1 \in DOMAIN s
        BY <1>1, <1>2, <1>4, <2>1
    <2> QED
        BY <2>2
<1>8. Of(p) \subseteq Of(s)
    BY <1>7 DEF Of
<1> QED
    BY <1>4, <1>5, <1>6, <1>7, <1>8

\* A line of one.
LEMMA OneWord == ASSUME NEW S, NEW w \in S PROVE <<w>> \in Seq(S) /\ Of(<<w>>) = {w}
<1>1. <<w>> \in Seq(S) /\ Len(<<w>>) = 1
    OBVIOUS
<1>2. DOMAIN <<w>> = {1} /\ <<w>>[1] = w
    OBVIOUS
<1> QED
    BY <1>1, <1>2 DEF Of

\* A finite set put in a line, each of its members once.
LEMMA InSomeOrder ==
    ASSUME NEW S, IsFiniteSet(S)
    PROVE  SetToSeq(S) \in Seq(S) /\ Of(SetToSeq(S)) = S
<1> DEFINE n == Cardinality(S)
           f == SetToSeq(S)
<1>1. n \in Nat /\ ExistsBijection(1..n, S)
    BY FS_CardinalityType
<1>2. \E g \in [1..n -> S] : IsInjective(g)
    BY <1>1 DEF ExistsBijection, Bijection, Injection
<1>3. f \in [1..n -> S] /\ IsInjective(f)
    BY <1>2 DEF SetToSeq
<1>4. f \in Injection(1..n, S)
    BY <1>3 DEF Injection
<1>5. Cardinality(1..n) = n
    <2>1. Cardinality(1..n) = IF 1 > n THEN 0 ELSE n - 1 + 1
        BY <1>1, FS_Interval
    <2> QED
        BY <1>1, <2>1
<1>6. f \in Surjection(1..n, S)
    BY <1>4, <1>5, FS_Injection
<1>7. Of(f) = S
    BY <1>3, <1>6 DEF Surjection, Of
<1>8. f \in Seq(S)
    BY <1>1, <1>3, SeqDef
<1> QED
    BY <1>7, <1>8
-----------------------------------------------------------------------------
(* The replicas behind one backend (SharedRelay).                          *)

\* What is on a subscription, and the types of the replicas.
Envelopes == [o : Replica, f : Nat]
Publications == [by : Replica, clip : Nat]
PumpStates == {"off", "new", "on", "cut"}
SharedTypes ==
    /\ trouble \in Nat
    /\ reach \in [Replica -> BOOLEAN] /\ recovering \in [Replica -> BOOLEAN]
    /\ task \in [Replica -> Nat] /\ pump \in [Replica -> [Pumps -> PumpStates]]
    /\ inbox \in [Replica -> [Pumps -> Seq(Envelopes)]]
    /\ handed \in [Replica -> Seq(Nat)] /\ origin \in Seq(Publications)
\* A publication is known by its number, and comes from who made it.
Genuine ==
    /\ \A r \in Replica, n \in Pumps : \A e \in Of(inbox[r][n]) :
           e.f # NUDGE => e.f \in DOMAIN origin /\ origin[e.f].by = e.o
    /\ \A r \in Replica : \A k \in Of(handed[r]) : k \in DOMAIN origin /\ origin[k].by # r
\* Clips fanned out, and those on a subscription, are in the order they were made; and
\* the ones before the others.
Rising(s) == \A i, j \in DOMAIN s : i < j => s[i] < s[j]
ClipsRise(b) == \A i, j \in DOMAIN b : i < j /\ b[i].f # NUDGE /\ b[j].f # NUDGE => b[i].f < b[j].f
Before(s, b) == \A k \in Of(s), e \in Of(b) : e.f # NUDGE => k < e.f
\* While nothing broke.
Whole(r) ==
    /\ reach[r] = TRUE /\ recovering[r] = FALSE
    /\ \A n \in Pumps : IF n = task[r] THEN pump[r][n] \in {"new", "on"} ELSE pump[r][n] = "off"
    /\ \A n \in Pumps : n # task[r] => inbox[r][n] = <<>>
\* What the replicas keep: a replica publishes no clip newer than the one it keeps, as long as
\* it is about to publish.
Sending(p) == step[p] \in {"clip", "clips"}
KeptTypes ==
    /\ clipsSent \in Nat /\ mine \in [Replica -> Nat] /\ origin \in Seq(Publications)
    /\ hosted \in [Replica -> SUBSET Guest]
    /\ step \in [Guest -> {"out", "add", "read", "tell", "in", "clip", "clips", "left", "leaving", "gone"}]
KeptBound ==
    /\ \A r \in Replica : mine[r] <= clipsSent
    /\ \A k \in DOMAIN origin : origin[k].clip <= clipsSent
    /\ \A p \in Guest : Sending(p) =>
           /\ p \in hosted[At[p]]
           /\ \A k \in DOMAIN origin : origin[k].by = At[p] => origin[k].clip <= mine[At[p]]
KeptInv == KeptTypes /\ KeptBound /\ NeverGoesBack /\ NewestGoesOut
\* As long as nothing broke, each replica is whole and in turn.
InTurn(r) == Rising(handed[r]) /\ \A n \in Pumps : ClipsRise(inbox[r][n]) /\ Before(handed[r], inbox[r][n])
Untroubled == trouble = 0 => \A r \in Replica : Whole(r) /\ InTurn(r)
SharedInv == SharedTypes /\ Genuine /\ Untroubled

\* A box gets an envelope, and gives its first.
LEMMA BoxLonger ==
    ASSUME NEW b \in Seq(Envelopes), NEW e \in Envelopes, ClipsRise(b),
           e.f = NUDGE \/ \A d \in Of(b) : d.f # NUDGE => d.f < e.f
    PROVE  ClipsRise(Append(b, e))
<1>1. /\ Append(b, e) \in Seq(Envelopes) /\ Len(b) \in Nat /\ Len(Append(b, e)) = Len(b) + 1
      /\ \A i \in 1..Len(b) : Append(b, e)[i] = b[i]
      /\ Append(b, e)[Len(b) + 1] = e
    BY AppendProperties, LenProperties
<1>2. DOMAIN b = 1..Len(b) /\ DOMAIN Append(b, e) = 1..(Len(b) + 1)
    BY <1>1, LenProperties
<1>3. SUFFICES ASSUME NEW i \in 1..(Len(b) + 1), NEW j \in 1..(Len(b) + 1), i < j,
                      Append(b, e)[i].f # NUDGE, Append(b, e)[j].f # NUDGE
               PROVE  Append(b, e)[i].f < Append(b, e)[j].f
    BY <1>2 DEF ClipsRise
<1>4. i \in 1..Len(b) /\ Append(b, e)[i] = b[i] /\ b[i] \in Of(b)
    <2>1. i \in 1..Len(b)
        BY <1>1, <1>3
    <2> QED
        BY <1>1, <1>2, <2>1 DEF Of
<1>5. CASE j \in 1..Len(b)
    <2>1. Append(b, e)[j] = b[j]
        BY <1>1, <1>5
    <2> QED
        BY <1>2, <1>3, <1>4, <1>5, <2>1 DEF ClipsRise
<1>6. CASE j = Len(b) + 1
    <2>1. Append(b, e)[j] = e
        BY <1>1, <1>6
    <2> QED
        BY <1>3, <1>4, <2>1
<1> QED
    BY <1>1, <1>5, <1>6

\* The first envelope of a subscription taken.
LEMMA BoxShorter ==
    ASSUME NEW b \in Seq(Envelopes), b # <<>>, ClipsRise(b)
    PROVE  /\ ClipsRise(Tail(b))
           /\ Head(b).f # NUDGE => \A e \in Of(Tail(b)) : e.f # NUDGE => Head(b).f < e.f
<1>1. /\ Tail(b) \in Seq(Envelopes) /\ Len(Tail(b)) = Len(b) - 1 /\ Head(b) = b[1]
      /\ \A i \in 1..Len(Tail(b)) : Tail(b)[i] = b[i + 1]
    BY HeadTailProperties
<1>2. Len(b) \in Nat /\ Len(b) # 0 /\ DOMAIN b = 1..Len(b)
    BY EmptySeq, LenProperties
<1>3. DOMAIN Tail(b) = 1..(Len(b) - 1)
    BY <1>1, LenProperties
<1>4. \A i \in DOMAIN Tail(b) : i + 1 \in DOMAIN b /\ Tail(b)[i] = b[i + 1] /\ 1 < i + 1
    BY <1>1, <1>2, <1>3
<1>5. ClipsRise(Tail(b))
    <2>1. \A i, j \in DOMAIN Tail(b) : i < j => i + 1 < j + 1
        BY <1>3
    <2> QED
        BY <1>4, <2>1 DEF ClipsRise
<1>6. 1 \in DOMAIN b
    BY <1>2
<1> QED
    BY <1>1, <1>4, <1>5, <1>6 DEF ClipsRise, Of

\* A replica hands on one more.
LEMMA RisesOn ==
    ASSUME NEW s \in Seq(Nat), NEW k \in Nat, Rising(s), \A x \in Of(s) : x < k
    PROVE  Rising(Append(s, k))
<1>1. /\ Append(s, k) \in Seq(Nat) /\ Len(s) \in Nat /\ Len(Append(s, k)) = Len(s) + 1
      /\ \A i \in 1..Len(s) : Append(s, k)[i] = s[i]
      /\ Append(s, k)[Len(s) + 1] = k
    BY AppendProperties, LenProperties
<1>2. DOMAIN s = 1..Len(s) /\ DOMAIN Append(s, k) = 1..(Len(s) + 1)
    BY <1>1, LenProperties
<1>3. SUFFICES ASSUME NEW i \in 1..(Len(s) + 1), NEW j \in 1..(Len(s) + 1), i < j
               PROVE  Append(s, k)[i] < Append(s, k)[j]
    BY <1>2 DEF Rising
<1>4. i \in 1..Len(s) /\ Append(s, k)[i] = s[i] /\ s[i] \in Of(s)
    <2>1. i \in 1..Len(s)
        BY <1>1, <1>3
    <2> QED
        BY <1>1, <1>2, <2>1 DEF Of
<1>5. CASE j \in 1..Len(s)
    <2>1. Append(s, k)[j] = s[j]
        BY <1>1, <1>5
    <2> QED
        BY <1>2, <1>3, <1>4, <1>5, <2>1 DEF Rising
<1>6. CASE j = Len(s) + 1
    BY <1>1, <1>4, <1>6
<1> QED
    BY <1>1, <1>5, <1>6

\* What a publication adds: an envelope to the boxes of live subscriptions, or nothing.
Boxed(boxes) == boxes \in [Replica -> [Pumps -> Seq(Envelopes)]]
Adds(e) == \A q \in Replica, n \in Pumps :
    \/ inbox'[q][n] = inbox[q][n]
    \/ pump[q][n] = "on" /\ inbox'[q][n] = Append(inbox[q][n], e)
LEMMA Published ==
    ASSUME SharedTypes, NEW r \in Replica, NEW k \in Nat, inbox' = Publish(r, k, inbox)
    PROVE  /\ Boxed(inbox') /\ Adds(Envelope(r, k)) /\ Envelope(r, k) \in Envelopes
           /\ Envelope(r, k).o = r /\ Envelope(r, k).f = k
<1> DEFINE e == Envelope(r, k)
<1>1. e \in Envelopes /\ e.o = r /\ e.f = k
    BY DEF Envelope, Envelopes
<1>2. inbox \in [Replica -> [Pumps -> Seq(Envelopes)]]
    BY DEF SharedTypes
<1>3. CASE ~Usable(r)
    BY <1>1, <1>2, <1>3 DEF Publish, Boxed, Adds
<1>4. CASE Usable(r)
    <2> DEFINE box(q, n) == IF pump[q][n] = "on" /\ reach[q] THEN Append(inbox[q][n], e)
                            ELSE inbox[q][n]
    <2>1. inbox' = [q \in Replica |-> [n \in Pumps |-> box(q, n)]]
        BY <1>4 DEF Publish
    <2>2. \A q \in Replica, n \in Pumps : box(q, n) \in Seq(Envelopes)
        <3>1. SUFFICES ASSUME NEW q \in Replica, NEW n \in Pumps PROVE box(q, n) \in Seq(Envelopes)
            OBVIOUS
        <3>2. inbox[q][n] \in Seq(Envelopes)
            BY <1>2
        <3>3. Append(inbox[q][n], e) \in Seq(Envelopes)
            BY <1>1, <3>2, AppendProperties
        <3> QED
            BY <3>2, <3>3
    <2>3. \A q \in Replica, n \in Pumps :
            \/ box(q, n) = inbox[q][n]
            \/ pump[q][n] = "on" /\ box(q, n) = Append(inbox[q][n], e)
        OBVIOUS
    <2> HIDE DEF box, e
    <2>4. inbox' \in [Replica -> [Pumps -> Seq(Envelopes)]]
        BY <2>1, <2>2
    <2>5. \A q \in Replica, n \in Pumps : inbox'[q][n] = box(q, n)
        BY <2>1
    <2>6. \A q \in Replica, n \in Pumps :
            \/ inbox'[q][n] = inbox[q][n]
            \/ pump[q][n] = "on" /\ inbox'[q][n] = Append(inbox[q][n], e)
        BY <2>3, <2>5
    <2> QED
        BY <1>1, <2>4, <2>6 DEF e, Boxed, Adds
<1> QED
    BY <1>3, <1>4

\* A call of the backend that fails: not while nothing broke.
LEMMA Degraded ==
    ASSUME SharedInv, NEW r, Degrade(r), reach' = reach
    PROVE  /\ recovering' \in [Replica -> BOOLEAN]
           /\ trouble = 0 => recovering' = recovering
<1>1. recovering' = [recovering EXCEPT ![r] = @ \/ Degrades(r)] /\ recovering \in [Replica -> BOOLEAN]
    BY DEF Degrade, SharedInv, SharedTypes
<1>2. recovering' \in [Replica -> BOOLEAN]
    BY <1>1
<1>3. ASSUME trouble = 0 PROVE recovering' = recovering
    <2>1. CASE r \in Replica
        <3>1. Whole(r)
            BY <1>3, <2>1 DEF SharedInv, Untroubled
        <3>2. ~Degrades(r) /\ recovering[r] \in BOOLEAN
            BY <1>1, <2>1, <3>1 DEF Whole, Degrades
        <3> QED
            BY <1>1, <3>2
    <2>2. CASE r \notin Replica
        BY <1>1, <2>2
    <2> QED
        BY <2>1, <2>2
<1> QED
    BY <1>2, <1>3

\* What nobody published and nothing broke.
LEMMA Quietly ==
    ASSUME SharedInv, UNCHANGED <<reach, task, pump, inbox, handed, origin>>, trouble' \in Nat,
           recovering' \in [Replica -> BOOLEAN], trouble' = 0 => trouble = 0 /\ recovering' = recovering
    PROVE  SharedInv'
<1>1. SharedTypes'
    BY DEF SharedInv, SharedTypes
<1>2. Genuine'
    BY DEF SharedInv, Genuine
<1>3. Untroubled'
    BY DEF SharedInv, Untroubled, Whole, InTurn
<1> QED
    BY <1>1, <1>2, <1>3 DEF SharedInv

\* The steps of a handler that publish nothing, and the faults of one connection.
LEMMA HandlersKeep ==
    ASSUME SharedInv, NEW p \in Guest,
           Add(p) \/ Announce(p) \/ Depart(p) \/ Return(p) \/ Clip(p) \/ WriteFails(p)
    PROVE  SharedInv'
<1>1. At[p] \in Replica /\ trouble \in Nat /\ recovering \in [Replica -> BOOLEAN]
    BY SharedAssumption DEF Guest, SharedInv, SharedTypes
<1>2. CASE Add(p) \/ Announce(p) \/ Clip(p)
    <2>1. Degrade(At[p]) /\ UNCHANGED <<reach, task, pump, inbox, handed, origin, trouble>>
        BY <1>2 DEF Add, Announce, Clip, subs, data
    <2> QED
        BY <1>1, <2>1, Degraded, Quietly
<1>3. CASE Depart(p) \/ Return(p)
    <2>1. UNCHANGED <<reach, recovering, task, pump, inbox, handed, origin, trouble>>
        BY <1>3 DEF Depart, Return, link, subs, data
    <2> QED
        BY <1>1, <2>1, Quietly
<1>4. CASE WriteFails(p)
    <2>1. trouble' = trouble + 1 /\ UNCHANGED <<reach, recovering, task, pump, inbox, handed, origin>>
        BY <1>4 DEF WriteFails, subs, data
    <2>2. trouble' \in Nat /\ trouble' # 0
        BY <1>1, <2>1
    <2> QED
        BY <1>1, <2>1, <2>2, Quietly
<1> QED
    BY <1>2, <1>3, <1>4

\* A task dropped, and a room expired, publish nothing.
LEMMA DropsKeep == ASSUME SharedInv, DropTask \/ Expire PROVE SharedInv'
<1>1. trouble \in Nat /\ recovering \in [Replica -> BOOLEAN]
    BY DEF SharedInv, SharedTypes
<1>2. CASE Expire
    <2>1. UNCHANGED <<reach, recovering, task, pump, inbox, handed, origin, trouble>>
        BY <1>2 DEF Expire, link, subs, data
    <2> QED
        BY <1>1, <2>1, Quietly
<1>3. CASE DropTask
    <2>1. PICK e \in dropping : Degrade(e[2])
        BY <1>3 DEF DropTask
    <2>2. UNCHANGED <<reach, task, pump, inbox, handed, origin, trouble>>
        BY <1>3 DEF DropTask, subs, data
    <2> QED
        BY <1>1, <2>1, <2>2, Degraded, Quietly
<1> QED
    BY <1>2, <1>3

\* A replica's pumps come and go, with what they had, or with a box that is empty.
LEMMA PumpsTypes ==
    ASSUME SharedTypes, NEW r \in Replica, NEW n, NEW how \in PumpStates
    PROVE  /\ [pump EXCEPT ![r][n] = how] \in [Replica -> [Pumps -> PumpStates]]
           /\ [inbox EXCEPT ![r][n] = <<>>] \in [Replica -> [Pumps -> Seq(Envelopes)]]
           /\ \A q \in Replica, m \in Pumps :
                 /\ [pump EXCEPT ![r][n] = how][q][m] = IF q = r /\ m = n THEN how ELSE pump[q][m]
                 /\ [inbox EXCEPT ![r][n] = <<>>][q][m] = IF q = r /\ m = n THEN <<>> ELSE inbox[q][m]
<1>1. /\ pump \in [Replica -> [Pumps -> PumpStates]]
      /\ inbox \in [Replica -> [Pumps -> Seq(Envelopes)]] /\ <<>> \in Seq(Envelopes)
    BY EmptySeq DEF SharedTypes
<1>2. [pump[r] EXCEPT ![n] = how] \in [Pumps -> PumpStates]
    BY <1>1
<1>3. [inbox[r] EXCEPT ![n] = <<>>] \in [Pumps -> Seq(Envelopes)]
    BY <1>1
<1> QED
    BY <1>1, <1>2, <1>3

\* A subscription made, closed or lost hands nothing over.
LEMMA SubscribeKeeps ==
    ASSUME SharedInv, UNCHANGED <<handed, origin>>,
           trouble' \in Nat, reach' \in [Replica -> BOOLEAN], recovering' \in [Replica -> BOOLEAN],
           task' \in [Replica -> Nat], pump' \in [Replica -> [Pumps -> PumpStates]],
           inbox' \in [Replica -> [Pumps -> Seq(Envelopes)]],
           \A q \in Replica, m \in Pumps : inbox'[q][m] = inbox[q][m] \/ inbox'[q][m] = <<>>,
           trouble' = 0 => trouble = 0 /\ \A q \in Replica : Whole(q)'
    PROVE  SharedInv'
<1>1. SharedTypes'
    BY DEF SharedInv, SharedTypes
<1>2. Of(<<>>) = {} /\ ClipsRise(<<>>)
    <2>1. DOMAIN <<>> = {}
        OBVIOUS
    <2> QED
        BY <2>1 DEF Of, ClipsRise
<1>3. Genuine'
    BY <1>2 DEF SharedInv, Genuine
<1>4. ASSUME NEW q \in Replica, InTurn(q) PROVE InTurn(q)'
    <2>1. ASSUME NEW m \in Pumps PROVE ClipsRise(inbox'[q][m]) /\ Before(handed[q], inbox'[q][m])
        BY <1>2, <1>4 DEF InTurn, Before
    <2> QED
        BY <1>4, <2>1 DEF InTurn
<1>5. Untroubled'
    BY <1>4 DEF SharedInv, Untroubled
<1> QED
    BY <1>1, <1>3, <1>5 DEF SharedInv

\* A guest joins: the room of its replica has a new task, or the one it had.
LEMMA JoinKeeps == ASSUME SharedInv, NEW p \in Guest, Join(p) PROVE SharedInv'
<1> DEFINE r == At[p]
<1>1. /\ r \in Replica /\ SharedTypes /\ trouble \in Nat /\ recovering \in [Replica -> BOOLEAN]
      /\ task \in [Replica -> Nat] /\ reach \in [Replica -> BOOLEAN]
    BY SharedAssumption DEF Guest, SharedInv, SharedTypes
<1>2. /\ UNCHANGED <<reach, recovering, trouble, handed, origin>>
      /\ IF room[r] THEN UNCHANGED subs ELSE Subscribed(r, task[r])
    BY DEF Join, link, data
<1> HIDE DEF r
<1>3. CASE UNCHANGED <<task, pump, inbox>>
    BY <1>1, <1>2, <1>3, Quietly
<1>4. CASE ~room[r] /\ task[r] # 0
    <2>1. task' = [task EXCEPT ![r] = task[r]] /\ UNCHANGED <<pump, inbox>>
        BY <1>2, <1>4 DEF Subscribed
    <2>2. task' = task
        BY <1>1, <2>1
    <2> QED
        BY <1>1, <1>2, <2>1, <2>2, Quietly
<1>5. CASE ~room[r] /\ task[r] = 0
    <2>1. PICK n \in Pumps : /\ pump[r][n] = "off" /\ task' = [task EXCEPT ![r] = n]
                             /\ pump' = [pump EXCEPT ![r][n] = "new"] /\ inbox' = inbox
        BY <1>2, <1>5 DEF Subscribed, FreePump
    <2>2. n \in Nat /\ n # 0 /\ task' \in [Replica -> Nat] /\ task'[r] = n
        BY <1>1, <2>1 DEF Pumps
    <2>3. /\ pump' \in [Replica -> [Pumps -> PumpStates]]
          /\ inbox' \in [Replica -> [Pumps -> Seq(Envelopes)]]
          /\ \A q \in Replica, m \in Pumps :
                /\ pump'[q][m] = IF q = r /\ m = n THEN "new" ELSE pump[q][m]
                /\ inbox'[q][m] = inbox[q][m]
        <3>1. "new" \in PumpStates
            BY DEF PumpStates
        <3> QED
            BY <1>1, <2>1, <3>1, PumpsTypes DEF SharedTypes
    <2>4. ASSUME trouble = 0, NEW q \in Replica PROVE Whole(q)'
        <3>1. Whole(q)
            BY <2>4 DEF SharedInv, Untroubled
        <3>2. CASE q # r
            BY <1>1, <1>2, <2>1, <2>3, <3>1, <3>2 DEF Whole
        <3>3. CASE q = r
            <4>1. reach[r] = TRUE /\ recovering[r] = FALSE /\ \A m \in Pumps : pump[r][m] = "off" /\ inbox[r][m] = <<>>
                <5>1. \A m \in Pumps : m # task[r]
                    BY <1>5 DEF Pumps
                <5> QED
                    BY <3>1, <3>3, <5>1 DEF Whole
            <4>2. \A m \in Pumps : /\ pump'[r][m] = IF m = n THEN "new" ELSE "off"
                                   /\ inbox'[r][m] = <<>>
                BY <1>1, <2>3, <4>1
            <4> QED
                BY <1>2, <2>2, <3>3, <4>1, <4>2 DEF Whole
        <3> QED
            BY <3>2, <3>3
    <2> QED
        BY <1>1, <1>2, <2>2, <2>3, <2>4, SubscribeKeeps
<1> QED
    BY <1>2, <1>3, <1>4, <1>5 DEF subs

\* What is lost with a connection leaves boxes empty.
LEMMA LostBoxes ==
    ASSUME SharedTypes, NEW r \in Replica, NEW ns, Loses(r, ns)
    PROVE  /\ inbox' \in [Replica -> [Pumps -> Seq(Envelopes)]]
           /\ \A q \in Replica, m \in Pumps : inbox'[q][m] = inbox[q][m] \/ inbox'[q][m] = <<>>
<1> DEFINE left == [n \in Pumps |-> IF n \in ns THEN <<>> ELSE inbox[r][n]]
<1>1. inbox \in [Replica -> [Pumps -> Seq(Envelopes)]] /\ <<>> \in Seq(Envelopes)
    BY EmptySeq DEF SharedTypes
<1>2. inbox' = [inbox EXCEPT ![r] = left]
    BY <1>1 DEF Loses
<1>3. left \in [Pumps -> Seq(Envelopes)] /\ \A m \in Pumps : left[m] = inbox[r][m] \/ left[m] = <<>>
    BY <1>1
<1> HIDE DEF left
<1> QED
    BY <1>1, <1>2, <1>3

\* An eviction, a recovery, and a pump that starts or dies leave a replica whole, or are trouble.
LEMMA PumpsGo ==
    ASSUME SharedInv, NEW r \in Replica,
           Evict(r) \/ Recover(r) \/ \E n \in Pumps : PumpDies(r, n) \/ Listens(r, n)
    PROVE  SharedInv'
<1>1. /\ SharedTypes /\ trouble \in Nat /\ recovering \in [Replica -> BOOLEAN]
      /\ task \in [Replica -> Nat] /\ reach \in [Replica -> BOOLEAN]
      /\ pump \in [Replica -> [Pumps -> PumpStates]]
      /\ inbox \in [Replica -> [Pumps -> Seq(Envelopes)]]
    BY DEF SharedInv, SharedTypes
<1>2. ASSUME trouble = 0 PROVE \A q \in Replica : Whole(q)
    BY <1>2 DEF SharedInv, Untroubled
<1>3. CASE Evict(r)
    <2>1. /\ UNCHANGED <<reach, recovering, trouble, handed, origin>>
          /\ task' = [task EXCEPT ![r] = 0]
          /\ IF task[r] = 0 THEN UNCHANGED <<pump, inbox>>
             ELSE /\ pump' = [pump EXCEPT ![r][task[r]] = "off"]
                  /\ inbox' = [inbox EXCEPT ![r][task[r]] = <<>>]
        BY <1>3 DEF Evict, Unsubscribed, link
    <2>2. task' \in [Replica -> Nat] /\ \A q \in Replica : task'[q] = IF q = r THEN 0 ELSE task[q]
        BY <1>1, <2>1
    <2>3. CASE task[r] = 0
        <3>1. task' = task /\ UNCHANGED <<pump, inbox>>
            BY <1>1, <2>1, <2>3
        <3> QED
            BY <1>1, <2>1, <3>1, Quietly
    <2>4. CASE task[r] # 0
        <3>1. /\ pump' \in [Replica -> [Pumps -> PumpStates]]
              /\ inbox' \in [Replica -> [Pumps -> Seq(Envelopes)]]
              /\ \A q \in Replica, m \in Pumps :
                    /\ pump'[q][m] = IF q = r /\ m = task[r] THEN "off" ELSE pump[q][m]
                    /\ inbox'[q][m] = IF q = r /\ m = task[r] THEN <<>> ELSE inbox[q][m]
            <4> DEFINE n == task[r]
            <4>1. pump' = [pump EXCEPT ![r][n] = "off"] /\ inbox' = [inbox EXCEPT ![r][n] = <<>>]
                BY <2>1, <2>4
            <4>2. "off" \in PumpStates
                BY DEF PumpStates
            <4> HIDE DEF n
            <4>3. /\ pump' \in [Replica -> [Pumps -> PumpStates]]
                  /\ inbox' \in [Replica -> [Pumps -> Seq(Envelopes)]]
                  /\ \A q \in Replica, m \in Pumps :
                        /\ pump'[q][m] = IF q = r /\ m = n THEN "off" ELSE pump[q][m]
                        /\ inbox'[q][m] = IF q = r /\ m = n THEN <<>> ELSE inbox[q][m]
                BY <1>1, <4>1, <4>2, PumpsTypes
            <4> QED
                BY <4>3 DEF n
        <3>2. ASSUME trouble = 0, NEW q \in Replica PROVE Whole(q)'
            <4>1. Whole(q)
                BY <1>2, <3>2
            <4>2. CASE q # r
                BY <1>1, <2>1, <2>2, <3>1, <4>1, <4>2 DEF Whole
            <4>3. CASE q = r
                <5>1. \A m \in Pumps : pump'[q][m] = "off" /\ inbox'[q][m] = <<>> /\ m # 0
                    BY <1>1, <2>1, <3>1, <4>1, <4>3 DEF Whole, Pumps
                <5> QED
                    BY <2>1, <2>2, <4>1, <4>3, <5>1 DEF Whole
            <4> QED
                BY <4>2, <4>3
        <3> QED
            BY <1>1, <2>1, <2>2, <3>1, <3>2, SubscribeKeeps
    <2> QED
        BY <2>3, <2>4
<1>4. CASE Recover(r)
    <2>1. /\ UNCHANGED <<reach, trouble, handed, origin>>
          /\ recovering[r] /\ recovering' = [recovering EXCEPT ![r] = FALSE]
        BY <1>4 DEF Recover, data
    <2>2. trouble # 0
        BY <1>2, <2>1 DEF Whole
    <2>3. PICK kept \in BOOLEAN :
              /\ IF wanted[r]
                 THEN \E n \in FreePump(Rest(r, kept)) :
                      /\ pump' = [pump EXCEPT ![r] = [Rest(r, kept) EXCEPT ![n] = "new"]]
                      /\ task' = [task EXCEPT ![r] = n]
                 ELSE pump' = [pump EXCEPT ![r] = Rest(r, kept)] /\ UNCHANGED task
              /\ Loses(r, IF kept THEN {} ELSE Pumps)
        BY <1>4 DEF Recover
    <2>4. task' \in [Replica -> Nat] /\ pump' \in [Replica -> [Pumps -> PumpStates]]
        <3>1. Rest(r, kept) \in [Pumps -> PumpStates]
            BY <1>1 DEF Rest, PumpStates
        <3>2. CASE wanted[r]
            <4>1. PICK n \in Pumps : /\ pump' = [pump EXCEPT ![r] = [Rest(r, kept) EXCEPT ![n] = "new"]]
                                     /\ task' = [task EXCEPT ![r] = n]
                BY <2>3, <3>2 DEF FreePump
            <4>2. n \in Nat /\ "new" \in PumpStates
                BY DEF Pumps, PumpStates
            <4>3. [Rest(r, kept) EXCEPT ![n] = "new"] \in [Pumps -> PumpStates]
                BY <3>1, <4>2
            <4> QED
                BY <1>1, <4>1, <4>2, <4>3
        <3>3. CASE ~wanted[r]
            BY <1>1, <2>3, <3>1, <3>3
        <3> QED
            BY <3>2, <3>3
    <2>5. recovering' \in [Replica -> BOOLEAN]
        BY <1>1, <2>1
    <2>6. PICK ns : Loses(r, ns)
        BY <2>3
    <2> QED
        BY <1>1, <2>1, <2>2, <2>4, <2>5, <2>6, LostBoxes, SubscribeKeeps
<1>5. ASSUME NEW n \in Pumps, PumpDies(r, n) PROVE SharedInv'
    <2>1. /\ UNCHANGED <<reach, trouble, handed, origin>>
          /\ pump[r][n] = "cut"
          /\ pump' = [pump EXCEPT ![r][n] = "off"] /\ Loses(r, {n})
          /\ task' = [task EXCEPT ![r] = 0] /\ recovering' = [recovering EXCEPT ![r] = TRUE]
        BY <1>5 DEF PumpDies, data
    <2>2. trouble # 0
        BY <1>2, <2>1 DEF Whole
    <2>3. task' \in [Replica -> Nat] /\ recovering' \in [Replica -> BOOLEAN]
        BY <1>1, <2>1
    <2>4. "off" \in PumpStates
        BY DEF PumpStates
    <2>5. pump' \in [Replica -> [Pumps -> PumpStates]]
        BY <1>1, <2>1, <2>4, PumpsTypes
    <2> QED
        BY <1>1, <2>1, <2>2, <2>3, <2>5, LostBoxes, SubscribeKeeps
<1>6. ASSUME NEW n \in Pumps, Listens(r, n) PROVE SharedInv'
    <2> DEFINE how == IF reach[r] THEN "on" ELSE "cut"
    <2>1. /\ UNCHANGED <<reach, trouble, recovering, task, inbox, handed, origin>>
          /\ pump[r][n] = "new" /\ pump' = [pump EXCEPT ![r][n] = how]
        BY <1>6 DEF Listens, link, data
    <2>2. how \in PumpStates /\ (reach[r] = TRUE => how = "on")
        BY DEF PumpStates
    <2> HIDE DEF how
    <2>3. /\ pump' \in [Replica -> [Pumps -> PumpStates]]
          /\ \A q \in Replica, m \in Pumps : pump'[q][m] = IF q = r /\ m = n THEN how ELSE pump[q][m]
        BY <1>1, <2>1, <2>2, PumpsTypes
    <2>4. ASSUME trouble = 0, NEW q \in Replica PROVE Whole(q)'
        <3>1. Whole(q) /\ Whole(r)
            BY <1>2, <2>4
        <3>2. n = task[r] /\ how = "on"
            BY <2>1, <2>2, <3>1 DEF Whole
        <3> QED
            BY <2>1, <2>3, <3>1, <3>2 DEF Whole
    <2> QED
        BY <1>1, <2>1, <2>3, <2>4, SubscribeKeeps
<1> QED
    BY <1>3, <1>4, <1>5, <1>6

\* A link that breaks is trouble, and one that comes back follows one.
LEMMA LinksKeep == ASSUME SharedInv, NEW r \in Replica, LinkBreaks(r) \/ LinkBack(r) PROVE SharedInv'
<1>1. /\ trouble \in Nat /\ recovering \in [Replica -> BOOLEAN]
      /\ task \in [Replica -> Nat] /\ reach \in [Replica -> BOOLEAN]
      /\ pump \in [Replica -> [Pumps -> PumpStates]]
      /\ inbox \in [Replica -> [Pumps -> Seq(Envelopes)]]
    BY DEF SharedInv, SharedTypes
<1>2. CASE LinkBreaks(r)
    <2>1. /\ trouble' = trouble + 1 /\ reach' = [reach EXCEPT ![r] = FALSE]
          /\ pump' = [pump EXCEPT ![r] = [n \in Pumps |-> IF pump[r][n] = "on" THEN "cut" ELSE pump[r][n]]]
          /\ Loses(r, Pumps)
          /\ UNCHANGED <<recovering, task, handed, origin>>
        BY <1>1, <1>2 DEF LinkBreaks, data
    <2>2. trouble' \in Nat /\ trouble' # 0 /\ reach' \in [Replica -> BOOLEAN]
        BY <1>1, <2>1
    <2>3. pump' \in [Replica -> [Pumps -> PumpStates]]
        <3>1. [n \in Pumps |-> IF pump[r][n] = "on" THEN "cut" ELSE pump[r][n]] \in [Pumps -> PumpStates]
            BY <1>1 DEF PumpStates
        <3> QED
            BY <1>1, <2>1, <3>1
    <2>4. SharedTypes
        BY DEF SharedInv
    <2> QED
        BY <1>1, <2>1, <2>2, <2>3, <2>4, LostBoxes, SubscribeKeeps
<1>3. CASE LinkBack(r)
    <2>1. /\ ~reach[r] /\ reach' = [reach EXCEPT ![r] = TRUE]
          /\ UNCHANGED <<trouble, recovering, task, pump, inbox, handed, origin>>
        BY <1>3 DEF LinkBack, subs, data
    <2>2. trouble # 0
        BY <2>1 DEF SharedInv, Untroubled, Whole
    <2>3. reach' \in [Replica -> BOOLEAN]
        BY <1>1, <2>1
    <2> QED
        BY <1>1, <2>1, <2>2, <2>3, SubscribeKeeps
<1> QED
    BY <1>2, <1>3

\* A publication: of a clip, under the next number, or of a nudge.
LEMMA PublishKeeps ==
    ASSUME SharedInv, NEW r \in Replica, NEW k \in Nat, inbox' = Publish(r, k, inbox), Degrade(r),
           UNCHANGED <<reach, trouble, task, pump, handed>>,
           \/ k = NUDGE /\ origin' = origin
           \/ k = Len(origin) + 1 /\ \E c \in Publications : c.by = r /\ origin' = Append(origin, c)
    PROVE  SharedInv'
<1>1. SharedTypes /\ trouble \in Nat /\ origin \in Seq(Publications) /\ handed \in [Replica -> Seq(Nat)]
    BY DEF SharedInv, SharedTypes
<1> DEFINE e == Envelope(r, k)
<1>0. e \in Envelopes /\ e.o = r /\ e.f = k /\ Adds(e) /\ Boxed(inbox')
    BY <1>1, Published
<1> HIDE DEF e
<1>2. /\ e \in Envelopes /\ e.o = r /\ e.f = k
      /\ \A q \in Replica, n \in Pumps :
             \/ inbox'[q][n] = inbox[q][n]
             \/ pump[q][n] = "on" /\ inbox'[q][n] = Append(inbox[q][n], e)
    BY <1>0 DEF Adds
<1>3. inbox \in [Replica -> [Pumps -> Seq(Envelopes)]] /\ inbox' \in [Replica -> [Pumps -> Seq(Envelopes)]]
    BY <1>0, <1>1 DEF SharedTypes, Boxed
<1>4. recovering' \in [Replica -> BOOLEAN] /\ (trouble = 0 => recovering' = recovering)
    BY Degraded
<1>5. \A q \in Replica, n \in Pumps : Of(inbox'[q][n]) \subseteq Of(inbox[q][n]) \cup {e}
    <2>1. SUFFICES ASSUME NEW q \in Replica, NEW n \in Pumps PROVE Of(inbox'[q][n]) \subseteq Of(inbox[q][n]) \cup {e}
        OBVIOUS
    <2>2. inbox[q][n] \in Seq(Envelopes)
        BY <1>3
    <2>3. Of(Append(inbox[q][n], e)) = Of(inbox[q][n]) \cup {e}
        BY <1>2, <2>2, LineLonger
    <2> QED
        BY <1>2, <2>3
<1>6. /\ origin' \in Seq(Publications) /\ DOMAIN origin = 1..Len(origin) /\ Len(origin) \in Nat
      /\ \A m \in DOMAIN origin : m \in DOMAIN origin' /\ origin'[m] = origin[m]
      /\ k # NUDGE => k \in DOMAIN origin' /\ origin'[k].by = r /\ k = Len(origin) + 1
    <2>1. DOMAIN origin = 1..Len(origin) /\ Len(origin) \in Nat
        BY <1>1, LenProperties
    <2>2. CASE k = NUDGE /\ origin' = origin
        BY <1>1, <2>1, <2>2
    <2>3. ASSUME k = Len(origin) + 1, NEW c \in Publications, c.by = r, origin' = Append(origin, c)
          PROVE  /\ origin' \in Seq(Publications)
                 /\ \A m \in DOMAIN origin : m \in DOMAIN origin' /\ origin'[m] = origin[m]
                 /\ k \in DOMAIN origin' /\ origin'[k].by = r
        <3>1. /\ origin' \in Seq(Publications) /\ Len(origin') = Len(origin) + 1
              /\ \A i \in 1..Len(origin) : origin'[i] = origin[i]
              /\ origin'[Len(origin) + 1] = c
            BY <1>1, <2>3, AppendProperties
        <3>2. DOMAIN origin' = 1..(Len(origin) + 1)
            BY <3>1, LenProperties
        <3>3. \A m \in DOMAIN origin : m \in DOMAIN origin' /\ origin'[m] = origin[m]
            <4>1. ASSUME NEW m \in 1..Len(origin) PROVE m \in 1..(Len(origin) + 1) /\ origin'[m] = origin[m]
                BY <2>1, <3>1, <4>1
            <4> QED
                BY <2>1, <3>2, <4>1
        <3>4. origin'[k] = c
            BY <2>3, <3>1
        <3>5. k \in DOMAIN origin'
            <4>1. Len(origin) + 1 \in 1..(Len(origin) + 1)
                BY <2>1
            <4> QED
                BY <2>3, <3>2, <4>1
        <3> QED
            BY <2>3, <3>1, <3>3, <3>4, <3>5
    <2>4. CASE \E c \in Publications : c.by = r /\ k = Len(origin) + 1 /\ origin' = Append(origin, c)
        BY <2>1, <2>3, <2>4
    <2> QED
        BY <2>2, <2>4
<1>7. SharedTypes'
    BY <1>1, <1>3, <1>4, <1>6 DEF SharedTypes
<1>8. Genuine'
    <2>1. ASSUME NEW q \in Replica, NEW n \in Pumps, NEW d \in Of(inbox'[q][n]), d.f # NUDGE
          PROVE  d.f \in DOMAIN origin' /\ origin'[d.f].by = d.o
        <3>1. CASE d = e
            BY <1>2, <1>6, <2>1, <3>1
        <3>2. CASE d \in Of(inbox[q][n])
            BY <1>6, <2>1, <3>2 DEF SharedInv, Genuine
        <3> QED
            BY <1>5, <2>1, <3>1, <3>2
    <2>2. ASSUME NEW q \in Replica, NEW m \in Of(handed[q]) PROVE m \in DOMAIN origin' /\ origin'[m].by # q
        BY <1>6 DEF SharedInv, Genuine
    <2> QED
        BY <2>1, <2>2 DEF Genuine
<1>9. ASSUME trouble = 0, NEW q \in Replica PROVE Whole(q)' /\ InTurn(q)'
    <2>1. Whole(q) /\ InTurn(q)
        BY <1>9 DEF SharedInv, Untroubled
    <2>2. Whole(q)'
        <3>1. \A n \in Pumps : n # task[q] => inbox'[q][n] = <<>>
            BY <1>2, <2>1 DEF Whole
        <3> QED
            BY <1>4, <1>9, <2>1, <3>1 DEF Whole
    <2>3. ASSUME NEW n \in Pumps PROVE ClipsRise(inbox'[q][n]) /\ Before(handed[q], inbox'[q][n])
        <3>1. \A d \in Of(inbox[q][n]) : d.f # NUDGE => d.f \in 1..Len(origin)
            BY <1>6 DEF SharedInv, Genuine
        <3>2. \A x \in Of(handed[q]) : x \in 1..Len(origin)
            BY <1>6 DEF SharedInv, Genuine
        <3>3. e.f = NUDGE \/ \A d \in Of(inbox[q][n]) : d.f # NUDGE => d.f < e.f
            BY <1>2, <1>6, <3>1
        <3>4. ClipsRise(inbox[q][n]) /\ inbox[q][n] \in Seq(Envelopes)
            BY <1>3, <2>1 DEF InTurn
        <3>5. ClipsRise(inbox'[q][n])
            BY <1>2, <3>3, <3>4, BoxLonger
        <3>6. e.f # NUDGE => \A x \in Of(handed[q]) : x < e.f
            BY <1>2, <1>6, <3>2
        <3>7. Before(handed[q], inbox[q][n])
            BY <2>1 DEF InTurn
        <3> QED
            BY <1>5, <3>5, <3>6, <3>7 DEF Before
    <2> QED
        BY <2>1, <2>2, <2>3 DEF InTurn
<1> QED
    BY <1>7, <1>8, <1>9 DEF SharedInv, Untroubled

\* The pump's next message: handed on, or counted, or its own and dropped.
LEMMA PumpKeeps == ASSUME SharedInv, NEW r \in Replica, NEW n \in Pumps, Pump(r, n) PROVE SharedInv'
<1> DEFINE b == inbox[r][n]
           e == Head(b)
<1>1. /\ trouble \in Nat /\ recovering \in [Replica -> BOOLEAN]
      /\ inbox \in [Replica -> [Pumps -> Seq(Envelopes)]] /\ handed \in [Replica -> Seq(Nat)]
    BY DEF SharedInv, SharedTypes
<1>2. /\ b # <<>> /\ inbox' = [inbox EXCEPT ![r][n] = Tail(b)]
      /\ UNCHANGED <<reach, trouble, task, pump, origin>>
      /\ \/ handed' = handed
         \/ e.o # r /\ e.f # NUDGE /\ handed' = [handed EXCEPT ![r] = Append(handed[r], e.f)]
      /\ Degrade(r) \/ recovering' = recovering
    <2>1. /\ b # <<>> /\ UNCHANGED <<reach, trouble, task, pump, origin>>
          /\ Degrade(r) \/ recovering' = recovering
        BY DEF Pump
    <2>2. inbox' = [inbox EXCEPT ![r][n] = Tail(b)]
        BY <1>1 DEF Pump
    <2>3. \/ handed' = handed
          \/ e.o # r /\ e.f # NUDGE /\ handed' = [handed EXCEPT ![r] = Append(handed[r], e.f)]
        BY <1>1 DEF Pump, Echo
    <2> QED
        BY <2>1, <2>2, <2>3
<1>3. b \in Seq(Envelopes) /\ e \in Envelopes /\ Tail(b) \in Seq(Envelopes) /\ Of(b) = Of(Tail(b)) \cup {e}
    <2>1. b \in Seq(Envelopes)
        BY <1>1
    <2> QED
        BY <1>2, <2>1, LineShorter
<1>4. /\ inbox' \in [Replica -> [Pumps -> Seq(Envelopes)]]
      /\ \A q \in Replica, m \in Pumps : inbox'[q][m] = IF q = r /\ m = n THEN Tail(b) ELSE inbox[q][m]
    <2>1. [inbox[r] EXCEPT ![n] = Tail(b)] \in [Pumps -> Seq(Envelopes)]
        BY <1>1, <1>3
    <2> QED
        BY <1>1, <1>2, <1>3, <2>1
<1>5. e.f \in Nat /\ (e.f # NUDGE => e.f \in DOMAIN origin /\ origin[e.f].by = e.o)
    BY <1>3 DEF Envelopes, SharedInv, Genuine
<1>6. b = inbox[r][n]
    OBVIOUS
<1> HIDE DEF b, e
<1>7. recovering' \in [Replica -> BOOLEAN] /\ (trouble = 0 => recovering' = recovering)
    BY <1>1, <1>2, Degraded
<1>8. /\ handed' \in [Replica -> Seq(Nat)]
      /\ \A q \in Replica : \/ handed'[q] = handed[q]
                            \/ q = r /\ e.o # r /\ e.f # NUDGE /\ handed'[q] = Append(handed[q], e.f)
    <2>1. handed[r] \in Seq(Nat) /\ Append(handed[r], e.f) \in Seq(Nat)
        BY <1>1, <1>5, AppendProperties
    <2> QED
        BY <1>1, <1>2, <2>1
<1>9. \A q \in Replica : \A k \in Of(handed'[q]) :
          k \in Of(handed[q]) \/ (q = r /\ k = e.f /\ e.o # r /\ e.f # NUDGE)
    <2>1. SUFFICES ASSUME NEW q \in Replica, NEW k \in Of(handed'[q]), k \notin Of(handed[q])
                   PROVE  q = r /\ k = e.f /\ e.o # r /\ e.f # NUDGE
        OBVIOUS
    <2>2. q = r /\ e.o # r /\ e.f # NUDGE /\ handed'[q] = Append(handed[q], e.f)
        BY <1>8, <2>1
    <2>3. handed[q] \in Seq(Nat)
        BY <1>1
    <2>4. Of(Append(handed[q], e.f)) = Of(handed[q]) \cup {e.f}
        BY <1>5, <2>3, LineLonger
    <2> QED
        BY <2>1, <2>2, <2>4
<1>10. SharedTypes'
    BY <1>2, <1>4, <1>7, <1>8 DEF SharedInv, SharedTypes
<1>11. Genuine'
    <2>1. ASSUME NEW q \in Replica, NEW m \in Pumps, NEW d \in Of(inbox'[q][m]), d.f # NUDGE
          PROVE  d.f \in DOMAIN origin' /\ origin'[d.f].by = d.o
        <3>1. d \in Of(inbox[q][m])
            BY <1>3, <1>4, <1>6, <2>1
        <3> QED
            BY <1>2, <2>1, <3>1 DEF SharedInv, Genuine
    <2>2. ASSUME NEW q \in Replica, NEW k \in Of(handed'[q]) PROVE k \in DOMAIN origin' /\ origin'[k].by # q
        <3>1. CASE k \in Of(handed[q])
            BY <1>2, <3>1 DEF SharedInv, Genuine
        <3>2. CASE q = r /\ k = e.f /\ e.o # r /\ e.f # NUDGE
            BY <1>2, <1>5, <3>2
        <3> QED
            BY <1>9, <3>1, <3>2
    <2> QED
        BY <2>1, <2>2 DEF Genuine
<1>12. ASSUME trouble = 0, NEW q \in Replica PROVE Whole(q)' /\ InTurn(q)'
    <2>1. Whole(q) /\ InTurn(q)
        BY <1>12 DEF SharedInv, Untroubled
    <2>2. n = task[r]
        BY <1>2, <1>6, <1>12 DEF SharedInv, Untroubled, Whole
    <2>3. Whole(q)'
        <3>1. \A m \in Pumps : m # task[q] => inbox'[q][m] = <<>>
            BY <1>4, <2>1, <2>2 DEF Whole
        <3> QED
            BY <1>2, <1>7, <1>12, <2>1, <3>1 DEF Whole
    <2>4. CASE q # r
        <3>1. handed'[q] = handed[q] /\ \A m \in Pumps : inbox'[q][m] = inbox[q][m]
            BY <1>4, <1>8, <2>4
        <3> QED
            BY <2>1, <2>3, <3>1 DEF InTurn
    <2>5. CASE q = r
        <3>1. ClipsRise(b) /\ Before(handed[q], b) /\ Rising(handed[q]) /\ handed[q] \in Seq(Nat)
            BY <1>1, <1>6, <2>1, <2>5 DEF InTurn
        <3>2. /\ ClipsRise(Tail(b))
              /\ e.f # NUDGE => \A d \in Of(Tail(b)) : d.f # NUDGE => e.f < d.f
            BY <1>2, <1>3, <3>1, BoxShorter DEF e
        <3>3. Rising(handed'[q])
            <4>1. e.f # NUDGE => \A k \in Of(handed[q]) : k < e.f
                BY <1>3, <3>1 DEF Before
            <4> QED
                BY <1>5, <1>8, <3>1, <4>1, RisesOn
        <3>4. ASSUME NEW m \in Pumps PROVE ClipsRise(inbox'[q][m]) /\ Before(handed'[q], inbox'[q][m])
            <4>1. CASE m = n
                <5>1. inbox'[q][m] = Tail(b)
                    BY <1>4, <2>5, <4>1
                <5>2. Before(handed'[q], Tail(b))
                    BY <1>3, <1>9, <3>1, <3>2 DEF Before
                <5> QED
                    BY <3>2, <5>1, <5>2
            <4>2. CASE m # n
                <5>1. inbox'[q][m] = <<>>
                    BY <1>4, <2>1, <2>2, <2>5, <4>2 DEF Whole
                <5>2. DOMAIN <<>> = {} /\ Of(<<>>) = {}
                    BY LineEmpty
                <5> QED
                    BY <5>1, <5>2 DEF ClipsRise, Before
            <4> QED
                BY <4>1, <4>2
        <3> QED
            BY <2>3, <3>3, <3>4 DEF InTurn
    <2> QED
        BY <2>4, <2>5
<1> QED
    BY <1>2, <1>10, <1>11, <1>12 DEF SharedInv, Untroubled

\* Whoever was sending still is, and no other, and nothing was kept or published.
LEMMA KeptStays ==
    ASSUME KeptInv, UNCHANGED <<mine, origin, clipsSent>>, KeptTypes',
           \A p \in Guest : Sending(p)' <=> Sending(p),
           \A p \in Guest : Sending(p) => p \in hosted'[At[p]]
    PROVE  KeptInv'
<1>1. KeptBound'
    BY DEF KeptInv, KeptBound
<1>2. NeverGoesBack' /\ NewestGoesOut'
    BY DEF KeptInv, NeverGoesBack, NewestGoesOut, Sending
<1> QED
    BY <1>1, <1>2 DEF KeptInv

\* A handler that is not sending goes on, and its peer may come or go.
LEMMA HandlerStays ==
    ASSUME KeptInv, NEW p \in Guest, UNCHANGED <<mine, origin, clipsSent>>, NEW how, ~Sending(p),
           how \in {"out", "add", "read", "tell", "in", "left", "leaving", "gone"},
           step' = [step EXCEPT ![p] = how],
           hosted' \in [Replica -> SUBSET Guest],
           \A r \in Replica : \A g \in hosted[r] : g = p \/ g \in hosted'[r]
    PROVE  KeptInv'
<1>1. KeptTypes
    BY DEF KeptInv
<1>2. /\ step'[p] = how /\ how \notin {"clip", "clips"}
      /\ \A g \in Guest : g # p => step'[g] = step[g]
    BY <1>1 DEF KeptTypes
<1>3. KeptTypes'
    BY <1>1 DEF KeptTypes
<1>4. \A g \in Guest : Sending(g)' <=> Sending(g)
    BY <1>2 DEF Sending
<1>5. ASSUME NEW g \in Guest, Sending(g) PROVE g \in hosted'[At[g]]
    BY <1>5, SharedAssumption DEF KeptInv, KeptBound, Guest
<1> QED
    BY <1>3, <1>4, <1>5, KeptStays

\* The steps of a handler that keep and publish nothing.
LEMMA HandlersKeepClips ==
    ASSUME KeptInv, NEW p \in Guest,
           Join(p) \/ Add(p) \/ Announce(p) \/ Nudge(p) \/ Depart(p) \/ Return(p) \/ WriteFails(p)
    PROVE  KeptInv'
<1>1. KeptTypes /\ At[p] \in Replica
    BY SharedAssumption DEF KeptInv, Guest
<1>2. UNCHANGED <<mine, origin, clipsSent>>
    BY DEF Join, Add, Announce, Nudge, Depart, Return, WriteFails, data
<1>3. CASE Join(p)
    <2>1. /\ step[p] = "out" /\ step' = [step EXCEPT ![p] = "add"]
          /\ hosted' = [hosted EXCEPT ![At[p]] = @ \cup {p}]
        BY <1>3 DEF Join
    <2> QED
        BY <1>1, <1>2, <2>1, HandlerStays DEF KeptTypes, Sending
<1>4. CASE Add(p) \/ Return(p)
    <2>1. /\ step[p] \in {"add", "gone"} /\ hosted' = hosted
          /\ \E how \in {"read", "out"} : step' = [step EXCEPT ![p] = how]
        BY <1>4 DEF Add, Return
    <2> QED
        BY <1>1, <1>2, <2>1, HandlerStays DEF KeptTypes, Sending
<1>5. CASE Announce(p) \/ Nudge(p)
    <2>1. /\ step[p] \in {"read", "left", "tell", "leaving"} /\ hosted' = hosted
          /\ \E how \in {"tell", "leaving", "in", "gone"} : step' = [step EXCEPT ![p] = how]
        BY <1>5 DEF Announce, Nudge
    <2> QED
        BY <1>1, <1>2, <2>1, HandlerStays DEF KeptTypes, Sending
<1>6. CASE Depart(p)
    <2>1. /\ step[p] = "in" /\ hosted' = [hosted EXCEPT ![At[p]] = @ \ {p}]
          /\ \E how \in {"gone", "left"} : step' = [step EXCEPT ![p] = how]
        BY <1>6 DEF Depart
    <2> QED
        BY <1>1, <1>2, <2>1, HandlerStays DEF KeptTypes, Sending
<1>7. CASE WriteFails(p)
    <2>1. /\ step[p] \in {"add", "read", "tell"} /\ hosted' = [hosted EXCEPT ![At[p]] = @ \ {p}]
          /\ step' = step
        BY <1>7 DEF WriteFails
    <2>2. ~Sending(p) /\ hosted' \in [Replica -> SUBSET Guest] /\ \A g \in Guest : Sending(g)' <=> Sending(g)
        BY <1>1, <2>1 DEF KeptTypes, Sending
    <2>3. KeptTypes'
        BY <1>1, <1>2, <2>1, <2>2 DEF KeptTypes
    <2>4. ASSUME NEW g \in Guest, Sending(g) PROVE g \in hosted'[At[g]]
        <3>1. g # p /\ g \in hosted[At[g]] /\ At[g] \in Replica
            BY <2>2, <2>4, SharedAssumption DEF KeptInv, KeptBound, Guest
        <3> QED
            BY <1>1, <2>1, <3>1 DEF KeptTypes
    <2> QED
        BY <1>2, <2>2, <2>3, <2>4, KeptStays
<1> QED
    BY <1>3, <1>4, <1>5, <1>6, <1>7

\* A clip is kept under the next number, and is on its way.
LEMMA ClipKeeps == ASSUME KeptInv, NEW p \in Guest, Clip(p) PROVE KeptInv'
<1> DEFINE r == At[p]
<1>1. KeptTypes /\ r \in Replica
    BY SharedAssumption DEF KeptInv, Guest
<1>2. /\ p \in hosted[r] /\ clipsSent' = clipsSent + 1 /\ mine' = [mine EXCEPT ![r] = clipsSent + 1]
      /\ step' = [step EXCEPT ![p] = IF step[p] = "in" THEN "clip" ELSE "clips"]
      /\ UNCHANGED <<hosted, origin>>
    BY <1>1 DEF Clip, KeptTypes
<1> HIDE DEF r
<1>3. KeptTypes'
    BY <1>1, <1>2 DEF KeptTypes
<1>4. /\ Sending(p)' /\ \A g \in Guest : g # p => step'[g] = step[g]
      /\ mine'[r] = clipsSent + 1 /\ \A q \in Replica : q # r => mine'[q] = mine[q]
    BY <1>1, <1>2 DEF KeptTypes, Sending
<1>5. \A k \in DOMAIN origin : origin[k].clip \in Nat /\ origin[k].clip <= clipsSent
    <2>1. \A k \in DOMAIN origin : origin[k] \in Publications
        BY <1>1, ElementOfSeq, LenProperties DEF KeptTypes
    <2> QED
        BY <2>1 DEF KeptInv, KeptBound, Publications
<1>6. KeptBound'
    <2>1. \A q \in Replica : mine'[q] <= clipsSent'
        BY <1>1, <1>2, <1>4 DEF KeptInv, KeptBound, KeptTypes
    <2>2. \A k \in DOMAIN origin' : origin'[k].clip <= clipsSent'
        BY <1>1, <1>2, <1>5 DEF KeptTypes
    <2>3. ASSUME NEW g \in Guest, Sending(g)'
          PROVE  /\ g \in hosted'[At[g]]
                 /\ \A k \in DOMAIN origin' : origin'[k].by = At[g] => origin'[k].clip <= mine'[At[g]]
        <3>1. At[g] \in Replica /\ (g = p => At[g] = r) /\ (g # p => Sending(g))
            BY <1>4, <2>3, SharedAssumption DEF Guest, Sending, r
        <3>2. g \in hosted'[At[g]]
            BY <1>2, <3>1 DEF KeptInv, KeptBound
        <3>3. CASE At[g] = r
            <4>1. \A k \in DOMAIN origin : origin[k].clip <= clipsSent + 1
                BY <1>1, <1>5 DEF KeptTypes
            <4> QED
                BY <1>2, <1>4, <3>2, <3>3, <4>1
        <3>4. CASE At[g] # r
            BY <1>2, <1>4, <3>1, <3>2, <3>4 DEF KeptInv, KeptBound
        <3> QED
            BY <3>3, <3>4
    <2> QED
        BY <2>1, <2>2, <2>3 DEF KeptBound
<1>7. NeverGoesBack'
    BY <1>2 DEF KeptInv, NeverGoesBack
<1>8. NewestGoesOut'
    <2>1. SUFFICES ASSUME NEW q \in Replica, mine'[q] # 0, q # r
                   PROVE  \/ \E g \in Guest : At[g] = q /\ step'[g] \in {"clip", "clips"}
                          \/ \E k \in DOMAIN origin' : origin'[k] = [by |-> q, clip |-> mine'[q]]
        BY <1>4 DEF NewestGoesOut, Sending, r
    <2>2. mine[q] # 0 /\ mine'[q] = mine[q]
        BY <1>4, <2>1
    <2>3. CASE \E g \in Guest : At[g] = q /\ step[g] \in {"clip", "clips"}
        BY <1>4, <2>1, <2>3 DEF r
    <2>4. CASE \E k \in DOMAIN origin : origin[k] = [by |-> q, clip |-> mine[q]]
        BY <1>2, <2>2, <2>4
    <2> QED
        BY <2>1, <2>2, <2>3, <2>4 DEF KeptInv, NewestGoesOut
<1> QED
    BY <1>3, <1>6, <1>7, <1>8 DEF KeptInv

\* What the replica keeps by then is published.
LEMMA FanOutKeeps == ASSUME KeptInv, NEW p \in Guest, FanOut(p) PROVE KeptInv'
<1> DEFINE r == At[p]
           c == [by |-> r, clip |-> mine[r]]
<1>1. KeptTypes /\ r \in Replica
    BY SharedAssumption DEF KeptInv, Guest
<1>2. /\ Sending(p) /\ origin' = Append(origin, c) /\ UNCHANGED <<hosted, mine, clipsSent>>
      /\ step' = [step EXCEPT ![p] = IF step[p] = "clips" THEN "clip" ELSE "in"]
    BY <1>1 DEF FanOut, KeptTypes, Sending
<1>3. c \in Publications /\ c.by = r /\ c.clip = mine[r] /\ mine[r] \in Nat
    BY <1>1 DEF KeptTypes, Publications
<1> HIDE DEF r
<1>4. c = [by |-> r, clip |-> mine[r]]
    OBVIOUS
<1> HIDE DEF c
<1>5. /\ origin' \in Seq(Publications) /\ DOMAIN origin = 1..Len(origin) /\ Len(origin) \in Nat
      /\ DOMAIN origin' = 1..(Len(origin) + 1)
      /\ \A k \in DOMAIN origin : origin'[k] = origin[k]
      /\ origin'[Len(origin) + 1] = c
    BY <1>1, <1>2, <1>3, AppendProperties, LenProperties DEF KeptTypes
<1>6. KeptTypes'
    BY <1>1, <1>2, <1>5 DEF KeptTypes
<1>7. \A g \in Guest : (Sending(g)' => Sending(g)) /\ (g # p => (Sending(g)' <=> Sending(g)))
    BY <1>1, <1>2 DEF KeptTypes, Sending
<1>8. \A k \in DOMAIN origin' : k \in DOMAIN origin \/ (k = Len(origin) + 1 /\ origin'[k] = c)
    BY <1>5
<1>9. KeptBound'
    <2>1. ASSUME NEW k \in DOMAIN origin' PROVE origin'[k].clip <= clipsSent'
        BY <1>1, <1>2, <1>3, <1>5, <1>8 DEF KeptInv, KeptBound
    <2>2. ASSUME NEW g \in Guest, Sending(g)'
          PROVE  /\ g \in hosted'[At[g]]
                 /\ \A k \in DOMAIN origin' : origin'[k].by = At[g] => origin'[k].clip <= mine'[At[g]]
        BY <1>2, <1>3, <1>5, <1>7, <1>8, <2>2 DEF KeptInv, KeptBound
    <2> QED
        BY <1>2, <2>1, <2>2 DEF KeptInv, KeptBound
<1>10. NeverGoesBack'
    <2>1. SUFFICES ASSUME NEW i \in DOMAIN origin', NEW j \in DOMAIN origin', i < j, origin'[i].by = origin'[j].by
                   PROVE  origin'[i].clip <= origin'[j].clip
        BY DEF NeverGoesBack
    <2>2. i \in DOMAIN origin
        BY <1>5, <2>1
    <2>3. CASE j \in DOMAIN origin
        BY <1>5, <2>1, <2>2, <2>3 DEF KeptInv, NeverGoesBack
    <2>4. CASE origin'[j] = c
        BY <1>2, <1>3, <1>5, <2>1, <2>2, <2>4 DEF KeptInv, KeptBound, r
    <2> QED
        BY <1>8, <2>3, <2>4
<1>11. NewestGoesOut'
    <2>1. SUFFICES ASSUME NEW q \in Replica, mine[q] # 0
                   PROVE  \/ \E g \in Guest : At[g] = q /\ Sending(g)'
                          \/ \E k \in DOMAIN origin' : origin'[k] = [by |-> q, clip |-> mine[q]]
        BY <1>2 DEF NewestGoesOut, Sending
    <2>2. CASE q = r
        BY <1>4, <1>5, <2>2
    <2>3. CASE q # r
        <3>1. CASE \E g \in Guest : At[g] = q /\ Sending(g)
            BY <1>7, <2>3, <3>1 DEF r
        <3>2. CASE \E k \in DOMAIN origin : origin[k] = [by |-> q, clip |-> mine[q]]
            BY <1>5, <3>2
        <3> QED
            BY <2>1, <3>1, <3>2 DEF KeptInv, NewestGoesOut, Sending
    <2> QED
        BY <2>2, <2>3
<1> QED
    BY <1>6, <1>9, <1>10, <1>11 DEF KeptInv

\* An eviction finds nobody sending.
LEMMA EvictKeepsClips == ASSUME KeptInv, NEW r \in Replica, Evict(r) PROVE KeptInv'
<1>1. KeptTypes
    BY DEF KeptInv
<1>2. /\ hosted[r] = {} /\ mine' = [mine EXCEPT ![r] = 0]
      /\ UNCHANGED <<hosted, origin, clipsSent, step>>
    BY DEF Evict, list
<1>3. KeptTypes' /\ mine'[r] = 0 /\ \A q \in Replica : q # r => mine'[q] = mine[q]
    BY <1>1, <1>2 DEF KeptTypes
<1>4. \A g \in Guest : Sending(g) => At[g] # r /\ At[g] \in Replica
    BY <1>2, SharedAssumption DEF KeptInv, KeptBound, Guest
<1>5. KeptBound'
    <2>1. \A q \in Replica : mine'[q] <= clipsSent'
        BY <1>1, <1>2, <1>3 DEF KeptInv, KeptBound, KeptTypes
    <2> QED
        BY <1>2, <1>3, <1>4, <2>1 DEF KeptInv, KeptBound, Sending
<1>6. NeverGoesBack' /\ NewestGoesOut'
    BY <1>2, <1>3 DEF KeptInv, NeverGoesBack, NewestGoesOut
<1> QED
    BY <1>3, <1>5, <1>6 DEF KeptInv

\* Every step keeps what is known of the clips.
LEMMA ClipsKept == ASSUME KeptInv, [SharedNext]_sharedVars PROVE KeptInv'
<1>1. ASSUME UNCHANGED <<mine, origin, clipsSent, step, hosted>> PROVE KeptInv'
    <2>1. KeptTypes' /\ \A g \in Guest : Sending(g)' <=> Sending(g)
        BY <1>1 DEF KeptInv, KeptTypes, Sending
    <2> QED
        BY <1>1, <2>1, KeptStays DEF KeptInv, KeptBound
<1>2. CASE UNCHANGED sharedVars
    BY <1>1, <1>2 DEF sharedVars, data, list
<1>3. CASE DropTask \/ Expire
    BY <1>1, <1>3 DEF DropTask, Expire, data
<1>4. ASSUME NEW r \in Replica, \/ Recover(r) \/ LinkBack(r) \/ LinkBreaks(r)
                                \/ \E n \in Pumps : Listens(r, n) \/ Pump(r, n) \/ PumpDies(r, n)
      PROVE  KeptInv'
    BY <1>1, <1>4 DEF Recover, LinkBack, LinkBreaks, Listens, Pump, PumpDies, data, list
<1> QED
    BY <1>2, <1>3, <1>4, HandlersKeepClips, ClipKeeps, FanOutKeeps, EvictKeepsClips DEF SharedNext, SharedWork

\* Every step of the replicas keeps their invariant.
LEMMA SharedKeeps == ASSUME SharedInv, KeptInv, [SharedNext]_sharedVars PROVE SharedInv'
<1>1. CASE UNCHANGED sharedVars
    BY <1>1 DEF sharedVars, link, subs, data, SharedInv, SharedTypes, Genuine, Untroubled, Whole, InTurn
<1>2. ASSUME NEW p \in Guest, Nudge(p) \/ FanOut(p) PROVE SharedInv'
    <2>1. At[p] \in Replica /\ origin \in Seq(Publications)
        BY SharedAssumption DEF Guest, SharedInv, SharedTypes
    <2>2. CASE Nudge(p)
        <3>1. /\ inbox' = Publish(At[p], NUDGE, inbox) /\ Degrade(At[p])
              /\ UNCHANGED <<reach, trouble, task, pump, handed, origin>>
            BY <2>2 DEF Nudge, Nudges, data
        <3>2. NUDGE \in Nat
            BY DEF NUDGE
        <3> QED
            BY <2>1, <3>1, <3>2, PublishKeeps
    <2>3. CASE FanOut(p)
        <3> DEFINE c == [by |-> At[p], clip |-> mine[At[p]]]
        <3>0. c \in Publications /\ c.by = At[p]
            BY <2>1 DEF KeptInv, KeptTypes, Publications
        <3>1. /\ origin' = Append(origin, c) /\ inbox' = Publish(At[p], Len(origin'), inbox) /\ Degrade(At[p])
              /\ UNCHANGED <<reach, trouble, task, pump, handed>>
            BY <2>3 DEF FanOut
        <3> HIDE DEF c
        <3>2. Len(origin) \in Nat /\ Len(origin') = Len(origin) + 1
            BY <2>1, <3>1, AppendProperties, LenProperties
        <3>3. Len(origin) + 1 \in Nat /\ inbox' = Publish(At[p], Len(origin) + 1, inbox)
            BY <3>1, <3>2
        <3> QED
            BY <2>1, <3>0, <3>1, <3>3, PublishKeeps
    <2> QED
        BY <1>2, <2>2, <2>3
<1> QED
    BY <1>1, <1>2, HandlersKeep, DropsKeep, JoinKeeps, PumpsGo, LinksKeep, PumpKeeps DEF SharedNext, SharedWork

\* And it holds at the start.
LEMMA SharedStarts == ASSUME SharedInit PROVE SharedInv
<1>1. /\ reach = [r \in Replica |-> TRUE] /\ recovering = [r \in Replica |-> FALSE]
      /\ task = [r \in Replica |-> 0] /\ pump = [r \in Replica |-> [n \in Pumps |-> "off"]]
      /\ inbox = [r \in Replica |-> [n \in Pumps |-> <<>>]]
      /\ handed = [r \in Replica |-> <<>>] /\ origin = <<>> /\ trouble = 0
    BY DEF SharedInit
<1>2. /\ \A S : <<>> \in Seq(S)
      /\ Of(<<>>) = {} /\ DOMAIN <<>> = {}
    BY LineEmpty
<1>3. SharedTypes
    <2>1. reach \in [Replica -> BOOLEAN] /\ recovering \in [Replica -> BOOLEAN]
        BY <1>1
    <2>2. task \in [Replica -> Nat] /\ trouble \in Nat
        BY <1>1
    <2>3. pump \in [Replica -> [Pumps -> PumpStates]]
        BY <1>1 DEF PumpStates
    <2>4. <<>> \in Seq(Envelopes) /\ <<>> \in Seq(Nat) /\ <<>> \in Seq(Publications)
        BY <1>2
    <2>5. inbox \in [Replica -> [Pumps -> Seq(Envelopes)]]
        BY <1>1, <2>4
    <2>6. handed \in [Replica -> Seq(Nat)] /\ origin \in Seq(Publications)
        BY <1>1, <2>4
    <2> QED
        BY <2>1, <2>2, <2>3, <2>5, <2>6 DEF SharedTypes
<1>4. Genuine
    BY <1>1, <1>2 DEF Genuine
<1>5. ASSUME NEW r \in Replica PROVE Whole(r) /\ InTurn(r)
    <2>1. Whole(r)
        <3>1. \A n \in Pumps : n # 0
            BY DEF Pumps
        <3>2. reach[r] = TRUE /\ recovering[r] = FALSE /\ task[r] = 0
            BY <1>1
        <3>3. \A n \in Pumps : pump[r][n] = "off" /\ inbox[r][n] = <<>>
            BY <1>1
        <3> QED
            BY <3>1, <3>2, <3>3 DEF Whole
    <2>2. InTurn(r)
        BY <1>1, <1>2 DEF InTurn, Rising, ClipsRise, Before
    <2> QED
        BY <2>1, <2>2
<1> QED
    BY <1>3, <1>4, <1>5 DEF SharedInv, Untroubled

\* So does what is known of the clips.
LEMMA ClipsStart == ASSUME SharedInit PROVE KeptInv
<1>1. /\ mine = [r \in Replica |-> 0] /\ hosted = [r \in Replica |-> {}] /\ clipsSent = 0
      /\ step = [g \in Guest |-> "out"] /\ origin = <<>>
    BY DEF SharedInit
<1>2. DOMAIN origin = {} /\ origin \in Seq(Publications)
    BY <1>1, LineEmpty
<1>3. KeptTypes
    BY <1>1, <1>2 DEF KeptTypes
<1>4. KeptBound /\ NeverGoesBack /\ NewestGoesOut
    BY <1>1, <1>2 DEF KeptBound, Sending, NeverGoesBack, NewestGoesOut
<1> QED
    BY <1>3, <1>4 DEF KeptInv

\* No replica fans out its own clip again, and until something breaks none fans out one
\* twice; whichever clips cross in the shared write, none publishes an older one behind a
\* newer, and once nothing is on its way the newest has gone out; for any number of replicas,
\* guests and clips (shared.py:193-195, main.py:1099-1103, 1410-1414).
THEOREM FansOutOnce == SharedSpec => []FannedOutOnce
<1>1. SharedInit => SharedInv /\ KeptInv
    BY SharedStarts, ClipsStart
<1>2. SharedInv /\ KeptInv /\ [SharedNext]_sharedVars => (SharedInv /\ KeptInv)'
    BY SharedKeeps, ClipsKept
<1>3. ASSUME SharedInv, KeptInv PROVE FannedOutOnce
    <2>1. \A r \in Replica : handed[r] \in Seq(Nat) /\ \A i \in DOMAIN handed[r] : handed[r][i] \in Of(handed[r])
        BY <1>3 DEF SharedInv, SharedTypes, Of
    <2>2. NoEcho
        BY <1>3, <2>1 DEF SharedInv, Genuine, NoEcho
    <2>3. OnceUntilTrouble
        <3>1. SUFFICES ASSUME trouble = 0, NEW r \in Replica, NEW i \in DOMAIN handed[r], NEW j \in DOMAIN handed[r],
                              i # j
                       PROVE  handed[r][i] # handed[r][j]
            BY DEF OnceUntilTrouble
        <3>2. Rising(handed[r])
            BY <1>3, <3>1 DEF SharedInv, Untroubled, InTurn
        <3>3. i \in Int /\ j \in Int /\ handed[r][i] \in Nat /\ handed[r][j] \in Nat
            BY <2>1, LenProperties, ElementOfSeq
        <3>4. i < j \/ j < i
            BY <3>1, <3>3
        <3>5. handed[r][i] < handed[r][j] \/ handed[r][j] < handed[r][i]
            BY <3>2, <3>4 DEF Rising
        <3> QED
            BY <3>3, <3>5
    <2> QED
        BY <1>3, <2>2, <2>3 DEF FannedOutOnce, KeptInv
<1> QED
    BY <1>1, <1>2, <1>3, PTL DEF SharedSpec
-----------------------------------------------------------------------------
(* The rate limits *)

\* The frames of a class that came in a span of time, by the log l, and those of them
\* let through.
Came(l, c, from, to) == {n \in DOMAIN l : ClassOf(l[n].kind) = c /\ l[n].at \in from..to}
Passed(l, c, from, to) == {n \in Came(l, c, from, to) : l[n].ok}

\* A class's window has counted what came since it began, none of it too late for it, and
\* let no more than Limit through; nor was more let through in as long a time before it.
Metered(c) ==
    /\ count[c] = Cardinality(Came(log, c, start[c], tick))
    /\ \A n \in Came(log, c, start[c], tick) : log[n].at <= start[c] + Window
    /\ Cardinality(Passed(log, c, start[c], tick)) <= Limit
    /\ Cardinality(Passed(log, c, start[c] - Window, start[c] - 1)) <= Limit

\* What a connection is metered with, and what was metered.
Entries(t) == [kind : Kind, at : 0..t, ok : BOOLEAN]
Logs(t) == Seq(Entries(t))
PolicyTypes ==
    /\ tick \in Nat /\ count \in [Class -> Nat] /\ start \in [Class -> 0..tick]
    /\ log \in Logs(tick)

\* The inductive invariant.
PolicyInv == PolicyTypes /\ (\A c \in Class : Metered(c)) /\ ClipsAreNotStarved

\* What is in a log was logged by then.
LEMMA EntriesAre ==
    ASSUME NEW t \in Nat, NEW l \in Logs(t), NEW n \in DOMAIN l
    PROVE  l[n] \in Entries(t) /\ l[n].at \in 0..t
<1>1. l[n] \in Entries(t)
    BY ElementOfSeq DEF Logs
<1> QED
    BY <1>1 DEF Entries

\* What came is finite, and can be counted.
LEMMA CameFinite ==
    ASSUME NEW t \in Nat, NEW l \in Logs(t), NEW S \in SUBSET DOMAIN l
    PROVE  IsFiniteSet(S) /\ Cardinality(S) \in Nat
           /\ \A T \in SUBSET S : Cardinality(T) <= Cardinality(S)
<1>1. DOMAIN l = 1..Len(l) /\ Len(l) \in Nat
    BY DEF Logs
<1>2. IsFiniteSet(1..Len(l))
    BY <1>1, FS_Interval
<1> QED
    BY <1>1, <1>2, FS_Subset, FS_CardinalityType

\* A frame that comes joins those of its class and of now, and the others stay.
LEMMA FrameJoins ==
    ASSUME NEW t \in Nat, NEW l \in Logs(t), NEW kind \in Kind, NEW ok \in BOOLEAN
    PROVE  LET m == Append(l, [kind |-> kind, at |-> t, ok |-> ok]) IN
           /\ m \in Logs(t)
           /\ DOMAIN m = DOMAIN l \cup {Len(l) + 1} /\ Len(l) + 1 \notin DOMAIN l
           /\ \A n \in DOMAIN l : m[n] = l[n]
           /\ m[Len(l) + 1] = [kind |-> kind, at |-> t, ok |-> ok]
<1> DEFINE f == [kind |-> kind, at |-> t, ok |-> ok]
           F == Entries(t)
<1>1. f \in F /\ l \in Seq(F)
    BY DEF Logs, Entries
<1>2. /\ Append(l, f) \in Seq(F) /\ Len(Append(l, f)) = Len(l) + 1
      /\ \A n \in 1..Len(l) : Append(l, f)[n] = l[n]
      /\ Append(l, f)[Len(l) + 1] = f
    <2> HIDE DEF F
    <2> QED
        BY <1>1
<1>3. Len(l) \in Nat /\ DOMAIN l = 1..Len(l) /\ DOMAIN Append(l, f) = 1..(Len(l) + 1)
    BY <1>1, <1>2
<1>4. /\ 1..(Len(l) + 1) = 1..Len(l) \cup {Len(l) + 1}
      /\ Len(l) + 1 \notin 1..Len(l)
    BY <1>3
<1> QED
    BY <1>1, <1>2, <1>3, <1>4 DEF Logs

\* What a frame that comes does to each count.
LEMMA FrameCounts ==
    ASSUME NEW t \in Nat, NEW l \in Logs(t), NEW kind \in Kind, NEW ok \in BOOLEAN,
           NEW c \in Class, NEW from \in Int, NEW to \in Int
    PROVE  LET m == Append(l, [kind |-> kind, at |-> t, ok |-> ok]) IN
           /\ t \in from..to /\ ClassOf(kind) = c
                 => /\ Came(m, c, from, to) = Came(l, c, from, to) \cup {Len(l) + 1}
                    /\ Cardinality(Came(m, c, from, to)) = Cardinality(Came(l, c, from, to)) + 1
                    /\ Cardinality(Passed(m, c, from, to)) <= Cardinality(Came(m, c, from, to))
                    /\ ~ok => Passed(m, c, from, to) = Passed(l, c, from, to)
           /\ ~(t \in from..to /\ ClassOf(kind) = c)
                 => /\ Came(m, c, from, to) = Came(l, c, from, to)
                    /\ Passed(m, c, from, to) = Passed(l, c, from, to)
<1> DEFINE k == Len(l) + 1
           m == Append(l, [kind |-> kind, at |-> t, ok |-> ok])
<1>1. /\ m \in Logs(t)
      /\ DOMAIN m = DOMAIN l \cup {k} /\ k \notin DOMAIN l
      /\ \A n \in DOMAIN l : m[n] = l[n]
      /\ m[k].kind = kind /\ m[k].at = t /\ m[k].ok = ok
    BY FrameJoins
<1> SUFFICES /\ t \in from..to /\ ClassOf(kind) = c
                 => /\ Came(m, c, from, to) = Came(l, c, from, to) \cup {k}
                    /\ Cardinality(Came(m, c, from, to)) = Cardinality(Came(l, c, from, to)) + 1
                    /\ Cardinality(Passed(m, c, from, to)) <= Cardinality(Came(m, c, from, to))
                    /\ ~ok => Passed(m, c, from, to) = Passed(l, c, from, to)
             /\ ~(t \in from..to /\ ClassOf(kind) = c)
                 => /\ Came(m, c, from, to) = Came(l, c, from, to)
                    /\ Passed(m, c, from, to) = Passed(l, c, from, to)
    OBVIOUS
<1> HIDE DEF k, m
<1>2. Came(l, c, from, to) \in SUBSET DOMAIN l
    BY DEF Came
<1>3. k \notin Came(l, c, from, to) /\ IsFiniteSet(Came(l, c, from, to))
    BY <1>1, <1>2, CameFinite
<1>4. CASE t \in from..to /\ ClassOf(kind) = c
  <2>1. Came(m, c, from, to) = Came(l, c, from, to) \cup {k}
      BY <1>1, <1>4 DEF Came, ClassOf
  <2>2. Cardinality(Came(l, c, from, to) \cup {k}) = Cardinality(Came(l, c, from, to)) + 1
      BY <1>3, FS_AddElement
  <2>3. ~ok => Passed(m, c, from, to) = Passed(l, c, from, to)
      BY <1>1, <1>2, <2>1 DEF Passed
  <2>4. Came(m, c, from, to) \in SUBSET DOMAIN m /\ Passed(m, c, from, to) \in SUBSET Came(m, c, from, to)
      BY DEF Came, Passed
  <2>5. Cardinality(Passed(m, c, from, to)) <= Cardinality(Came(m, c, from, to))
      BY <1>1, <2>4, CameFinite
  <2> QED
      BY <1>4, <2>1, <2>2, <2>3, <2>5
<1>5. CASE ~(t \in from..to /\ ClassOf(kind) = c)
  <2>1. Came(m, c, from, to) = Came(l, c, from, to)
      BY <1>1, <1>5 DEF Came, ClassOf
  <2>2. Passed(m, c, from, to) = Passed(l, c, from, to)
      BY <1>1, <1>2, <2>1 DEF Passed
  <2> QED
      BY <1>5, <2>1, <2>2
<1> QED
    BY <1>4, <1>5

\* Nothing came later than now.
LEMMA NoneLater ==
    ASSUME NEW t \in Nat, NEW l \in Logs(t), NEW c \in Class, NEW from \in Int
    PROVE  /\ l \in Logs(t + 1)
           /\ Came(l, c, from, t + 1) = Came(l, c, from, t)
           /\ Passed(l, c, from, t + 1) = Passed(l, c, from, t)
<1>1. \A n \in DOMAIN l : l[n].at \in 0..t
    BY EntriesAre
<1>2. \A n \in DOMAIN l : l[n].at \in from..(t + 1) <=> l[n].at \in from..t
    BY <1>1
<1>3. Came(l, c, from, t + 1) = Came(l, c, from, t)
    BY <1>2 DEF Came
<1>4. Entries(t) \subseteq Entries(t + 1)
    BY DEF Entries
<1>5. l \in Logs(t + 1)
    BY <1>4, SeqMonotonic DEF Logs
<1> QED
    BY <1>3, <1>5 DEF Passed

\* A frame leaves both windows of a class metered.
LEMMA FrameMeters ==
    ASSUME PolicyInv, NEW kind \in Kind, Frame(kind), NEW c \in Class
    PROVE  Metered(c)'
<1> DEFINE ok == Counted(ClassOf(kind)) <= Limit
           m == Append(log, [kind |-> kind, at |-> tick, ok |-> ok])
           s == start[c]
           k == Len(log) + 1
<1>1. /\ tick' = tick /\ log' = m
      /\ PolicyTypes /\ Metered(c) /\ Window \in Nat \ {0} /\ Limit \in Nat \ {0}
    BY FramePolicyAssumption DEF PolicyInv, Frame, FramePolicyAssumption
<1>2. /\ tick \in Nat /\ s \in 0..tick /\ count[c] \in Nat /\ log \in Logs(tick)
      /\ ClassOf(kind) \in Class /\ ok \in BOOLEAN
    BY <1>1 DEF PolicyTypes, ClassOf, Class
<1> HIDE DEF ok
<1>3. /\ s \in Int /\ s - 1 \in Int /\ s - Window \in Int /\ tick \in Int
      /\ tick - 1 \in Int /\ tick - Window \in Int
      /\ tick \in s..tick /\ tick \in tick..tick /\ tick \notin (s - Window)..(s - 1)
      /\ tick \notin (tick - Window)..(tick - 1)
    BY <1>1, <1>2
<1>4. /\ count[c] = Cardinality(Came(log, c, s, tick))
      /\ \A n \in Came(log, c, s, tick) : log[n].at <= s + Window
      /\ Cardinality(Passed(log, c, s, tick)) <= Limit
      /\ Cardinality(Passed(log, c, s - Window, s - 1)) <= Limit
    BY <1>1 DEF Metered
<1>5. /\ m \in Logs(tick) /\ \A n \in DOMAIN log : m[n] = log[n]
      /\ m[k].at = tick
    BY <1>2, FrameJoins
<1>6. Came(log, c, s, tick) \subseteq DOMAIN log
    BY DEF Came
<1>7. CASE ClassOf(kind) # c
  <2>1. count'[c] = count[c] /\ start'[c] = s
      BY <1>1, <1>2, <1>7 DEF Frame, Allow, PolicyTypes
  <2>2. ASSUME NEW from \in Int, NEW to \in Int
        PROVE  /\ Came(m, c, from, to) = Came(log, c, from, to)
               /\ Passed(m, c, from, to) = Passed(log, c, from, to)
      BY <1>2, <1>7, FrameCounts
  <2>3. /\ Came(m, c, s, tick) = Came(log, c, s, tick)
        /\ Passed(m, c, s, tick) = Passed(log, c, s, tick)
        /\ Passed(m, c, s - Window, s - 1) = Passed(log, c, s - Window, s - 1)
      BY <1>3, <2>2
  <2> HIDE DEF m
  <2>4. \A n \in Came(m, c, s, tick) : m[n].at <= s + Window
      BY <1>4, <1>5, <1>6, <2>3
  <2> QED
      BY <1>1, <1>4, <2>1, <2>3, <2>4 DEF Metered
<1>8. CASE ClassOf(kind) = c /\ ~Elapsed(c)
  <2>1. /\ count'[c] = count[c] + 1 /\ start'[c] = s /\ ok = (count[c] + 1 <= Limit)
        /\ tick <= s + Window
      BY <1>1, <1>2, <1>8 DEF Frame, Allow, PolicyTypes, Counted, Elapsed, ok
  <2> HIDE DEF m, k
  <2>2. /\ Came(m, c, s, tick) = Came(log, c, s, tick) \cup {k}
        /\ Cardinality(Came(m, c, s, tick)) = Cardinality(Came(log, c, s, tick)) + 1
        /\ Cardinality(Passed(m, c, s, tick)) <= Cardinality(Came(m, c, s, tick))
        /\ ~ok => Passed(m, c, s, tick) = Passed(log, c, s, tick)
      BY <1>2, <1>3, <1>8, FrameCounts DEF m, k
  <2>3. Passed(m, c, s - Window, s - 1) = Passed(log, c, s - Window, s - 1)
      BY <1>2, <1>3, FrameCounts DEF m
  <2>4. Passed(m, c, s, tick) \in SUBSET DOMAIN m
      BY DEF Passed, Came
  <2>5. Cardinality(Passed(m, c, s, tick)) \in Nat
      BY <1>2, <1>5, <2>4, CameFinite
  <2>6. Cardinality(Passed(m, c, s, tick)) <= Limit
    <3>1. CASE ok
      <4>1. count[c] + 1 <= Limit
          BY <2>1, <3>1
      <4>2. Cardinality(Came(m, c, s, tick)) = count[c] + 1
          BY <1>4, <2>2
      <4> QED
          BY <1>1, <1>2, <2>2, <2>5, <4>1, <4>2
    <3>2. CASE ~ok
        BY <1>4, <2>2, <3>2
    <3> QED
        BY <3>1, <3>2
  <2>7. \A n \in Came(m, c, s, tick) : m[n].at <= s + Window
      BY <1>4, <1>5, <1>6, <2>1, <2>2
  <2> QED
      BY <1>1, <1>4, <2>1, <2>2, <2>3, <2>6, <2>7 DEF Metered
<1>9. CASE ClassOf(kind) = c /\ Elapsed(c)
  <2>1. count'[c] = 1 /\ start'[c] = tick /\ ok = TRUE /\ s + Window < tick
      BY <1>1, <1>2, <1>9 DEF Frame, Allow, PolicyTypes, Counted, Elapsed, ok
  <2>2. \A n \in DOMAIN log : log[n].at \in 0..tick
      BY <1>2, EntriesAre
  <2> HIDE DEF m, k
  <2>3. Came(log, c, tick, tick) = {}
      BY <1>1, <1>2, <1>4, <2>1, <2>2 DEF Came
  <2>4. Passed(log, c, tick - Window, tick - 1) \in SUBSET Passed(log, c, s, tick)
      BY <1>1, <1>2, <2>1, <2>2 DEF Passed, Came
  <2>5. Passed(log, c, s, tick) \in SUBSET DOMAIN log
      BY DEF Passed, Came
  <2>6. Cardinality(Passed(log, c, tick - Window, tick - 1)) <= Limit
    <3>1. /\ Cardinality(Passed(log, c, tick - Window, tick - 1)) <= Cardinality(Passed(log, c, s, tick))
          /\ Cardinality(Passed(log, c, s, tick)) \in Nat
        BY <1>2, <2>4, <2>5, CameFinite
    <3>2. Passed(log, c, tick - Window, tick - 1) \in SUBSET DOMAIN log
        BY <2>4, <2>5
    <3>3. Cardinality(Passed(log, c, tick - Window, tick - 1)) \in Nat
        BY <1>2, <3>2, CameFinite
    <3> QED
        BY <1>1, <1>4, <3>1, <3>3
  <2>7. /\ Came(m, c, tick, tick) = Came(log, c, tick, tick) \cup {k}
        /\ Cardinality(Came(m, c, tick, tick)) = Cardinality(Came(log, c, tick, tick)) + 1
        /\ Cardinality(Passed(m, c, tick, tick)) <= Cardinality(Came(m, c, tick, tick))
      BY <1>2, <1>3, <1>9, FrameCounts DEF m, k
  <2>8. Passed(m, c, tick - Window, tick - 1) = Passed(log, c, tick - Window, tick - 1)
      BY <1>2, <1>3, FrameCounts DEF m
  <2>9. Passed(m, c, tick, tick) \in SUBSET DOMAIN m
      BY DEF Passed, Came
  <2>10. Cardinality(Passed(m, c, tick, tick)) \in Nat
      BY <1>2, <1>5, <2>9, CameFinite
  <2>11. Cardinality({}) = 0
      BY FS_EmptySet
  <2>12. /\ Cardinality(Came(m, c, tick, tick)) = 1
         /\ Cardinality(Passed(m, c, tick, tick)) <= Limit
      BY <1>1, <2>3, <2>7, <2>10, <2>11
  <2>13. \A n \in Came(m, c, tick, tick) : m[n].at <= tick + Window
      BY <1>1, <1>2, <1>5, <2>3, <2>7
  <2> QED
      BY <1>1, <2>1, <2>6, <2>8, <2>12, <2>13 DEF Metered
<1> QED
    BY <1>7, <1>8, <1>9

\* A frame starves no clip: within the limit, its window has room for it.
LEMMA FrameStarvesNone ==
    ASSUME PolicyInv, NEW kind \in Kind, Frame(kind)
    PROVE  ClipsAreNotStarved'
<1> DEFINE ok == Counted(ClassOf(kind)) <= Limit
           m == Append(log, [kind |-> kind, at |-> tick, ok |-> ok])
           k == Len(log) + 1
           c == "interactive"
           s == start[c]
           Within(l, t) == {n \in DOMAIN l : l[n].at \in (t - Window)..t /\ l[n].kind # "typing"}
<1>1. /\ tick' = tick /\ log' = m /\ c \in Class
      /\ PolicyTypes /\ Metered(c) /\ Window \in Nat \ {0} /\ Limit \in Nat \ {0}
    BY FramePolicyAssumption DEF PolicyInv, Frame, FramePolicyAssumption, Class
<1>2. /\ tick \in Nat /\ s \in 0..tick /\ count[c] \in Nat /\ log \in Logs(tick)
      /\ ok \in BOOLEAN
    BY <1>1 DEF PolicyTypes
<1> HIDE DEF ok
<1>3. /\ m \in Logs(tick) /\ \A n \in DOMAIN log : m[n] = log[n]
      /\ m[k].at = tick /\ m[k].kind = kind /\ m[k].ok = ok
      /\ DOMAIN m = DOMAIN log \cup {k}
    BY <1>2, FrameJoins
<1>4. /\ ClipsAreNotStarved' = ((\A t \in 0..tick : Cardinality(Within(m, t)) <= Limit)
                                  => \A n \in DOMAIN m : m[n].kind # "typing" => m[n].ok)
      /\ ClipsAreNotStarved = ((\A t \in 0..tick : Cardinality(Within(log, t)) <= Limit)
                                  => \A n \in DOMAIN log : log[n].kind # "typing" => log[n].ok)
  <2>1. \A t : /\ {n \in Near(t) : Control(n)} = Within(log, t)
               /\ {n \in Near(t) : Control(n)}' = Within(log', t)
      BY DEF Near, Control
  <2> QED
      BY <1>1, <2>1 DEF ClipsAreNotStarved, Control
<1> SUFFICES ASSUME \A t \in 0..tick : Cardinality(Within(m, t)) <= Limit
             PROVE  \A n \in DOMAIN m : m[n].kind # "typing" => m[n].ok
    BY <1>4
<1> HIDE DEF m, k, Within
<1>5. ASSUME NEW t \in 0..tick
      PROVE  Cardinality(Within(log, t)) <= Limit
  <2>1. Within(log, t) \in SUBSET Within(m, t) /\ Within(m, t) \in SUBSET DOMAIN m
      BY <1>3 DEF Within
  <2>2. Within(log, t) \in SUBSET DOMAIN log
      BY DEF Within
  <2>3. /\ Cardinality(Within(log, t)) \in Nat /\ Cardinality(Within(m, t)) \in Nat
        /\ Cardinality(Within(log, t)) <= Cardinality(Within(m, t))
      BY <1>2, <1>3, <2>1, <2>2, CameFinite
  <2> QED
      BY <1>1, <2>3
<1>6. \A n \in DOMAIN log : log[n].kind # "typing" => log[n].ok
    BY <1>4, <1>5 DEF PolicyInv
<1>7. ASSUME kind # "typing"  PROVE ok
  <2>1. ClassOf(kind) = c
      BY <1>7 DEF ClassOf
  <2>2. CASE Elapsed(c)
      BY <1>1, <2>1, <2>2 DEF Counted, ok
  <2>3. CASE ~Elapsed(c)
    <3>1. tick <= s + Window /\ ok = (count[c] + 1 <= Limit)
        BY <1>1, <1>2, <2>1, <2>3 DEF Elapsed, Counted, ok
    <3>2. /\ s \in Int /\ tick \in Int /\ tick \in s..tick
          /\ \A when \in s..tick : when \in (tick - Window)..tick
        BY <1>1, <1>2, <3>1
    <3>3. Cardinality(Came(m, c, s, tick)) = Cardinality(Came(log, c, s, tick)) + 1
        BY <1>1, <1>2, <2>1, <3>2, FrameCounts DEF m
    <3>4. Came(m, c, s, tick) \in SUBSET Within(m, tick)
        BY <3>2 DEF Came, Within, ClassOf
    <3>5. Within(m, tick) \in SUBSET DOMAIN m
        BY DEF Within
    <3>6. /\ Cardinality(Came(m, c, s, tick)) <= Cardinality(Within(m, tick))
          /\ Cardinality(Within(m, tick)) \in Nat
        BY <1>2, <1>3, <3>4, <3>5, CameFinite
    <3>7. tick \in 0..tick /\ count[c] = Cardinality(Came(log, c, s, tick))
        BY <1>1, <1>2 DEF Metered
    <3>8. Cardinality(Within(m, tick)) <= Limit
        BY <3>7
    <3>9. Cardinality(Came(m, c, s, tick)) = count[c] + 1
        BY <3>3, <3>7
    <3>10. count[c] + 1 <= Limit
        BY <1>1, <1>2, <3>6, <3>8, <3>9
    <3> QED
        BY <3>1, <3>10
  <2> QED
      BY <2>2, <2>3
<1> QED
    BY <1>3, <1>6, <1>7

\* Every step keeps the relay's account of what it metered.
LEMMA PolicyStep ==
    ASSUME PolicyInv, [PolicyNext]_policyVars
    PROVE  PolicyInv'
<1>1. /\ PolicyTypes /\ tick \in Nat /\ log \in Logs(tick)
      /\ \A c \in Class : start[c] \in 0..tick /\ Metered(c)
      /\ Window \in Nat \ {0} /\ Limit \in Nat \ {0}
    BY FramePolicyAssumption DEF PolicyInv, PolicyTypes, FramePolicyAssumption
<1>2. ASSUME NEW kind \in Kind, Frame(kind)  PROVE PolicyInv'
  <2>1. ClassOf(kind) \in Class
      BY DEF ClassOf, Class
  <2>2. Counted(ClassOf(kind)) \in Nat
      BY <1>1, <2>1 DEF PolicyTypes, Counted
  <2>3. log' \in Logs(tick')
    <3> DEFINE ok == Counted(ClassOf(kind)) <= Limit
    <3>1. ok \in BOOLEAN
        BY <1>1, <2>2
    <3>2. tick' = tick /\ log' = Append(log, [kind |-> kind, at |-> tick, ok |-> ok])
        BY <1>2 DEF Frame
    <3> HIDE DEF ok
    <3> QED
        BY <1>1, <3>1, <3>2, FrameJoins
  <2>4. PolicyTypes'
      BY <1>1, <1>2, <2>1, <2>2, <2>3 DEF PolicyTypes, Frame, Allow
  <2> QED
      BY <1>2, <2>4, FrameMeters, FrameStarvesNone DEF PolicyInv
<1>3. CASE TimePasses
  <2>1. tick' = tick + 1 /\ UNCHANGED <<count, start, log>>
      BY <1>3 DEF TimePasses
  <2>2. 0..tick \subseteq 0..(tick + 1) /\ tick + 1 \in Nat
      BY <1>1
  <2>3. log \in Logs(tick + 1)
      BY <1>1, NoneLater DEF Class
  <2>4. PolicyTypes'
      BY <1>1, <2>1, <2>2, <2>3 DEF PolicyTypes
  <2>5. ASSUME NEW c \in Class  PROVE Metered(c)'
    <3>1. start[c] \in Int /\ Metered(c)
        BY <1>1
    <3>2. /\ Came(log, c, start[c], tick + 1) = Came(log, c, start[c], tick)
          /\ Passed(log, c, start[c], tick + 1) = Passed(log, c, start[c], tick)
        BY <1>1, <3>1, NoneLater
    <3> QED
        BY <2>1, <3>1, <3>2 DEF Metered
  <2>6. ClipsAreNotStarved'
    <3>1. \A t : {n \in Near(t) : Control(n)}' = {n \in Near(t) : Control(n)}
        BY <2>1 DEF Near, Control
    <3> QED
        BY <2>1, <2>2, <3>1 DEF PolicyInv, ClipsAreNotStarved, Control
  <2> QED
      BY <2>4, <2>5, <2>6 DEF PolicyInv
<1>4. CASE UNCHANGED policyVars
  <2>1. UNCHANGED <<tick, count, start, log>>
      BY <1>4 DEF policyVars
  <2>2. PolicyTypes' /\ \A c \in Class : Metered(c)'
      BY <1>1, <2>1 DEF PolicyTypes, Metered
  <2>3. \A t : {n \in Near(t) : Control(n)}' = {n \in Near(t) : Control(n)}
      BY <2>1 DEF Near, Control
  <2>4. ClipsAreNotStarved'
      BY <2>1, <2>3 DEF PolicyInv, ClipsAreNotStarved, Control
  <2> QED
      BY <2>2, <2>4 DEF PolicyInv
<1> QED
    BY <1>2, <1>3, <1>4 DEF PolicyNext

\* No frame has come to begin with.
LEMMA PolicyStarts == PolicyInit => PolicyInv
<1> SUFFICES ASSUME PolicyInit  PROVE PolicyInv
    OBVIOUS
<1>1. /\ tick = 0 /\ log = <<>> /\ count = [c \in Class |-> 0] /\ start = [c \in Class |-> 0]
      /\ Limit \in Nat \ {0}
    BY FramePolicyAssumption DEF PolicyInit, FramePolicyAssumption
<1>2. PolicyTypes
    BY <1>1 DEF PolicyTypes, Logs
<1>3. DOMAIN log = {}
    BY <1>1
<1>4. \A c, from, to : Came(log, c, from, to) = {} /\ Passed(log, c, from, to) = {}
    BY <1>3 DEF Came, Passed
<1>5. Cardinality({}) = 0
    BY FS_EmptySet
<1>6. ASSUME NEW c \in Class  PROVE Metered(c)
  <2>1. count[c] = 0
      BY <1>1
  <2>2. /\ Came(log, c, start[c], tick) = {} /\ Passed(log, c, start[c], tick) = {}
        /\ Passed(log, c, start[c] - Window, start[c] - 1) = {}
      BY <1>4
  <2>3. 0 <= Limit
      BY <1>1
  <2> QED
      BY <1>5, <2>1, <2>2, <2>3 DEF Metered
<1> QED
    BY <1>2, <1>3, <1>6 DEF PolicyInv, ClipsAreNotStarved

\* In as long a time as a window, no more passes than in the window and the one before it.
LEMMA TwoWindows == PolicyInv => AtMostTwoWindows
<1> SUFFICES ASSUME PolicyInv, NEW c \in Class
             PROVE  Cardinality({n \in Near(tick) : ClassOf(log[n].kind) = c /\ log[n].ok}) <= 2 * Limit
    BY DEF AtMostTwoWindows
<1> DEFINE s == start[c]
           A == Passed(log, c, s - Window, s - 1)
           B == Passed(log, c, s, tick)
           N == {n \in Near(tick) : ClassOf(log[n].kind) = c /\ log[n].ok}
<1>1. /\ tick \in Nat /\ s \in 0..tick /\ log \in Logs(tick)
      /\ Window \in Nat /\ Limit \in Nat
      /\ Cardinality(A) <= Limit /\ Cardinality(B) <= Limit
    BY FramePolicyAssumption DEF PolicyInv, PolicyTypes, FramePolicyAssumption, Metered
<1>2. \A n \in DOMAIN log : log[n].at \in 0..tick
    BY <1>1, EntriesAre
<1>3. \A when \in 0..tick : when \in (tick - Window)..tick
                              => when \in (s - Window)..(s - 1) \/ when \in s..tick
    BY <1>1
<1>4. N \in SUBSET (A \cup B)
    BY <1>2, <1>3 DEF Near, Passed, Came
<1>5. A \in SUBSET DOMAIN log /\ B \in SUBSET DOMAIN log
    BY DEF Passed, Came
<1> HIDE DEF A, B, N
<1>6. N \in SUBSET DOMAIN log /\ A \cup B \in SUBSET DOMAIN log
    BY <1>4, <1>5
<1>7. /\ IsFiniteSet(A) /\ IsFiniteSet(B) /\ IsFiniteSet(A \cap B)
      /\ {Cardinality(A), Cardinality(B), Cardinality(N), Cardinality(A \cap B), Cardinality(A \cup B)} \subseteq Nat
      /\ Cardinality(N) <= Cardinality(A \cup B)
  <2>1. A \cap B \in SUBSET DOMAIN log
      BY <1>5
  <2> QED
      BY <1>1, <1>4, <1>5, <1>6, <2>1, CameFinite
<1>8. Cardinality(A \cup B) = Cardinality(A) + Cardinality(B) - Cardinality(A \cap B)
    BY <1>7, FS_Union
<1>9. Cardinality(N) <= 2 * Limit
    BY <1>1, <1>7, <1>8
<1> QED
    BY <1>9 DEF N

\* main.py:327-331, 445-460: within the limit no clip is refused, however much is typed, and
\* no window's time lets more through than two windows' worth.
THEOREM MetersFairly == PolicySpec => []FairlyMetered
<1>1. PolicyInv => FairlyMetered
    BY TwoWindows DEF PolicyInv, FairlyMetered
<1> QED
    BY <1>1, PolicyStarts, PolicyStep, PTL DEF PolicySpec
-----------------------------------------------------------------------------
(* The tiles.                                                               *)

\* The words said of a file.
Meta(f) == <<"meta", f>>
Gone(f) == <<"gone", f>>
Word == {"meta", "gone"} \X File

\* Nothing of f is announced in s; and what is, is retracted after it.
Silent(s, f) == Meta(f) \notin Of(s)
Ended(s, f) == \E j \in DOMAIN s : s[j] = Gone(f) /\ \A i \in DOMAIN s : s[i] = Meta(f) => i < j

\* What ends in a line ends in a longer one that announces nothing.
LEMMA EndedGoesOn ==
    ASSUME NEW s \in Seq(Word), NEW t \in Seq(Word), NEW f, Silent(t, f), Ended(s, f) \/ Gone(f) \in Of(t)
    PROVE  Ended(s \o t, f)
<1>1. /\ Len(s) \in Nat /\ Len(t) \in Nat
      /\ \A i \in 1..(Len(s) + Len(t)) : (s \o t)[i] = IF i <= Len(s) THEN s[i] ELSE t[i - Len(s)]
      /\ DOMAIN s = 1..Len(s) /\ DOMAIN t = 1..Len(t) /\ DOMAIN (s \o t) = 1..(Len(s) + Len(t))
    <2>1. s \o t \in Seq(Word) /\ Len(s \o t) = Len(s) + Len(t)
        BY ConcatProperties
    <2>2. \A i \in 1..(Len(s) + Len(t)) : (s \o t)[i] = IF i <= Len(s) THEN s[i] ELSE t[i - Len(s)]
        BY ConcatProperties
    <2> QED
        BY <2>1, <2>2, LenProperties
<1>2. \A i \in DOMAIN t : t[i] # Meta(f)
    BY DEF Silent, Of
<1>3. \A i \in DOMAIN (s \o t) : (s \o t)[i] = Meta(f) => i \in DOMAIN s /\ s[i] = Meta(f)
    <2>1. SUFFICES ASSUME NEW i \in 1..(Len(s) + Len(t)), (s \o t)[i] = Meta(f)
                   PROVE  i \in DOMAIN s /\ s[i] = Meta(f)
        BY <1>1
    <2>2. CASE i <= Len(s)
        BY <1>1, <2>1, <2>2
    <2>3. CASE ~(i <= Len(s))
        <3>1. i - Len(s) \in DOMAIN t
            BY <1>1, <2>3
        <3>2. (s \o t)[i] = t[i - Len(s)]
            BY <1>1, <2>3
        <3> QED
            BY <1>2, <2>1, <3>1, <3>2
    <2> QED
        BY <2>2, <2>3
<1>4. CASE Ended(s, f)
    <2>1. PICK j \in DOMAIN s : s[j] = Gone(f) /\ \A i \in DOMAIN s : s[i] = Meta(f) => i < j
        BY <1>4 DEF Ended
    <2>2. j \in DOMAIN (s \o t) /\ (s \o t)[j] = Gone(f)
        BY <1>1, <2>1
    <2> QED
        BY <1>3, <2>1, <2>2 DEF Ended
<1>5. CASE Gone(f) \in Of(t)
    <2>1. PICK k \in DOMAIN t : t[k] = Gone(f)
        BY <1>5 DEF Of
    <2>2. k + Len(s) \in 1..(Len(s) + Len(t)) /\ ~(k + Len(s) <= Len(s)) /\ (k + Len(s)) - Len(s) = k
        BY <1>1
    <2>3. k + Len(s) \in DOMAIN (s \o t) /\ (s \o t)[k + Len(s)] = Gone(f)
        BY <1>1, <2>1, <2>2
    <2>4. \A i \in DOMAIN s : i < k + Len(s)
        BY <1>1
    <2> QED
        BY <1>3, <2>3, <2>4 DEF Ended
<1> QED
    BY <1>4, <1>5

\* And in the rest of it, unless the retraction was just heard, and nothing follows.
LEMMA EndedIsHeard ==
    ASSUME NEW s \in Seq(Word), s # <<>>, NEW f, Ended(s, f)
    PROVE  Ended(Tail(s), f) \/ (Head(s) = Gone(f) /\ Silent(Tail(s), f))
<1>1. /\ Tail(s) \in Seq(Word) /\ Len(Tail(s)) = Len(s) - 1 /\ Head(s) = s[1]
      /\ \A i \in 1..Len(Tail(s)) : Tail(s)[i] = s[i + 1]
    BY HeadTailProperties
<1>2. Len(s) \in Nat /\ Len(s) # 0
    BY EmptySeq, LenProperties
<1>3. DOMAIN s = 1..Len(s) /\ DOMAIN Tail(s) = 1..(Len(s) - 1)
    BY <1>1, LenProperties
<1>4. PICK j \in DOMAIN s : s[j] = Gone(f) /\ \A i \in DOMAIN s : s[i] = Meta(f) => i < j
    BY DEF Ended
<1>5. \A i \in DOMAIN Tail(s) : i \in Int /\ i + 1 \in DOMAIN s /\ Tail(s)[i] = s[i + 1] /\ i + 1 # 1 /\ ~(i + 1 < 1)
    BY <1>1, <1>2, <1>3
<1>6. CASE j = 1
    BY <1>1, <1>4, <1>5, <1>6 DEF Silent, Of
<1>7. CASE j # 1
    <2>1. j - 1 \in DOMAIN Tail(s) /\ Tail(s)[j - 1] = s[j]
        <3>1. j - 1 \in 1..(Len(s) - 1) /\ (j - 1) + 1 = j
            BY <1>2, <1>3, <1>7
        <3> QED
            BY <1>1, <1>3, <3>1
    <2>2. \A i \in DOMAIN Tail(s) : Tail(s)[i] = Meta(f) => i < j - 1
        <3>1. SUFFICES ASSUME NEW i \in DOMAIN Tail(s), Tail(s)[i] = Meta(f) PROVE i < j - 1
            OBVIOUS
        <3>2. i + 1 < j /\ i \in Int /\ j \in Int
            BY <1>3, <1>4, <1>5, <3>1
        <3> QED
            BY <3>2
    <2> QED
        BY <1>4, <2>1, <2>2 DEF Ended
<1> QED
    BY <1>6, <1>7

\* The counts the holder knows and is still to hear: whether they grow, and the last.
GrowsIn(k, s) == \E i \in DOMAIN s : s[i] = 2 /\ (IF i = 1 THEN k ELSE s[i - 1]) = 1
LastIn(k, s) == IF s = <<>> THEN k ELSE s[Len(s)]

\* A count is told: a growth under way stays, and a new one is under way.
LEMMA CountTold ==
    ASSUME NEW s \in Seq(1..2), NEW k \in 1..2, NEW c \in 1..2
    PROVE  /\ Append(s, c) \in Seq(1..2) /\ LastIn(k, Append(s, c)) = c
           /\ GrowsIn(k, s) \/ (LastIn(k, s) = 1 /\ c = 2) => GrowsIn(k, Append(s, c))
<1>1. /\ Append(s, c) \in Seq(1..2) /\ Append(s, c) # <<>>
      /\ Len(s) \in Nat /\ Len(Append(s, c)) = Len(s) + 1
      /\ \A i \in 1..Len(s) : Append(s, c)[i] = s[i]
      /\ Append(s, c)[Len(s) + 1] = c
    BY AppendProperties, LenProperties
<1>2. DOMAIN s = 1..Len(s) /\ DOMAIN Append(s, c) = 1..(Len(s) + 1)
    BY <1>1, LenProperties
<1>3. ASSUME GrowsIn(k, s) PROVE GrowsIn(k, Append(s, c))
    <2>1. PICK i \in DOMAIN s : s[i] = 2 /\ (IF i = 1 THEN k ELSE s[i - 1]) = 1
        BY <1>3 DEF GrowsIn
    <2>2. i \in DOMAIN Append(s, c) /\ Append(s, c)[i] = s[i]
        BY <1>1, <1>2
    <2>3. i # 1 => Append(s, c)[i - 1] = s[i - 1]
        BY <1>1, <1>2
    <2> QED
        BY <2>1, <2>2, <2>3 DEF GrowsIn
<1>4. ASSUME LastIn(k, s) = 1, c = 2 PROVE GrowsIn(k, Append(s, c))
    <2>1. Len(s) + 1 \in DOMAIN Append(s, c)
        BY <1>1, <1>2
    <2>2. (IF Len(s) + 1 = 1 THEN k ELSE Append(s, c)[(Len(s) + 1) - 1]) = 1
        <3>1. CASE s = <<>>
            BY <1>4, <3>1, EmptySeq DEF LastIn
        <3>2. CASE s # <<>>
            <4>1. Len(s) \in 1..Len(s) /\ (Len(s) + 1) - 1 = Len(s) /\ Len(s) + 1 # 1
                BY <1>1, <3>2, EmptySeq
            <4> QED
                BY <1>1, <1>4, <3>2, <4>1 DEF LastIn
        <3> QED
            BY <3>1, <3>2
    <2> QED
        BY <1>1, <1>4, <2>1, <2>2 DEF GrowsIn
<1> QED
    BY <1>1, <1>3, <1>4 DEF LastIn

\* A count is heard: a growth under way is it, or is still under way.
LEMMA CountHeard ==
    ASSUME NEW s \in Seq(1..2), s # <<>>, NEW k \in 1..2
    PROVE  /\ Head(s) \in 1..2 /\ Tail(s) \in Seq(1..2)
           /\ LastIn(Head(s), Tail(s)) = LastIn(k, s)
           /\ GrowsIn(k, s) => (k = 1 /\ Head(s) = 2) \/ GrowsIn(Head(s), Tail(s))
<1>1. /\ Head(s) \in 1..2 /\ Tail(s) \in Seq(1..2) /\ Len(Tail(s)) = Len(s) - 1 /\ Head(s) = s[1]
      /\ \A i \in 1..Len(Tail(s)) : Tail(s)[i] = s[i + 1]
    BY HeadTailProperties
<1>2. Len(s) \in Nat /\ Len(s) # 0 /\ DOMAIN s = 1..Len(s)
    BY EmptySeq, LenProperties
<1>3. DOMAIN Tail(s) = 1..(Len(s) - 1)
    BY <1>1, LenProperties
<1>4. LastIn(Head(s), Tail(s)) = LastIn(k, s)
    BY LineShorter DEF LastIn
<1>5. ASSUME GrowsIn(k, s), ~(k = 1 /\ Head(s) = 2) PROVE GrowsIn(Head(s), Tail(s))
    <2>1. PICK i \in DOMAIN s : s[i] = 2 /\ (IF i = 1 THEN k ELSE s[i - 1]) = 1
        BY <1>5 DEF GrowsIn
    <2>2. i # 1
        BY <1>1, <1>5, <2>1
    <2>3. s[i - 1] = 1
        BY <2>1, <2>2
    <2>4. i - 1 \in DOMAIN Tail(s) /\ Tail(s)[i - 1] = 2
        <3>1. i - 1 \in 1..(Len(s) - 1) /\ (i - 1) + 1 = i
            BY <1>2, <2>2
        <3> QED
            BY <1>1, <1>3, <2>1, <3>1
    <2>5. (IF i - 1 = 1 THEN Head(s) ELSE Tail(s)[(i - 1) - 1]) = 1
        <3>1. CASE i - 1 = 1
            BY <1>1, <2>3, <3>1
        <3>2. CASE i - 1 # 1
            <4>1. (i - 1) - 1 \in 1..(Len(s) - 1) /\ ((i - 1) - 1) + 1 = i - 1
                BY <1>2, <2>2, <3>2
            <4> QED
                BY <1>1, <2>3, <3>2, <4>1
        <3> QED
            BY <3>1, <3>2
    <2> QED
        BY <2>4, <2>5 DEF GrowsIn
<1> QED
    BY <1>1, <1>4, <1>5

\* Types; a thumbnail is drawn for a listed file, or one that slipped.
TilesTypes ==
    /\ added \in Nat /\ items \subseteq File /\ thumbing \subseteq File /\ tiles \subseteq File
    /\ online \in BOOLEAN /\ viewing \in BOOLEAN
    /\ toViewer \in Seq(Word) /\ toHolder \in Seq(1..2) /\ knownPeers \in 1..2
    /\ thumbing \subseteq items \cup slipped
\* What was not added yet is nowhere, and what nobody could hear is not under way.
Unheardof ==
    /\ \A f \in items \cup thumbing \cup tiles : f <= added
    /\ \A w \in Of(toViewer) : w[2] <= added
    /\ ~viewing => toViewer = <<>> /\ tiles = {}
    /\ ~online => toHolder = <<>>

\* A file that is gone, and did not slip, has no tile and no announcement under way,
\* or its retraction comes after them.
Over(f) == f \in items \cup slipped \/ (f \notin tiles /\ Silent(toViewer, f)) \/ Ended(toViewer, f)
\* All of them; and what is listed was never retracted.
Backed == \A f \in File : Over(f)
NeverBack == \A f \in items : Gone(f) \notin Of(toViewer)

\* While a viewer is there, the holder will hear its room grow, or has said every file.
Spoken(f) == f \in thumbing \cup tiles \cup missed \/ Meta(f) \in Of(toViewer)
\* The last count on the line is the count; and one of the two is so for every viewer.
Counts == online => LastIn(knownPeers, toHolder) = Count
AllSpoken == viewing => (online /\ GrowsIn(knownPeers, toHolder)) \/ \A f \in items : Spoken(f)

\* The invariant of the tiles.
TilesInv == TilesTypes /\ Unheardof /\ CapHolds /\ Backed /\ NeverBack /\ Counts /\ AllSpoken

\* Files are finitely many, and fewer of them count no more.
LEMMA FilesFinite ==
    ASSUME NEW S \in SUBSET File
    PROVE  /\ IsFiniteSet(S) /\ Cardinality(S) \in Nat
           /\ \A T \in SUBSET S : Cardinality(T) <= Cardinality(S)
<1>1. IsFiniteSet(File)
    BY FilesAssumption, FS_Interval DEF File
<1>2. IsFiniteSet(S)
    BY <1>1, FS_Subset
<1> QED
    BY <1>2, FS_CardinalityType, FS_Subset

\* One more file where there was room.
LEMMA OneMore ==
    ASSUME NEW S \in SUBSET File, NEW f \in File, Cardinality(S) < Slots
    PROVE  Cardinality(S \cup {f}) <= Slots
<1>1. IsFiniteSet(S) /\ Cardinality(S) \in Nat /\ Slots \in Nat
    BY FilesFinite, FilesAssumption
<1>2. Cardinality(S \cup {f}) = IF f \in S THEN Cardinality(S) ELSE Cardinality(S) + 1
    BY <1>1, FS_AddElement
<1> QED
    BY <1>1, <1>2

\* What is said of files, whether anybody hears it or not.
LEMMA Says ==
    ASSUME TilesTypes, NEW words \in Seq(Word), Say(words)
    PROVE  /\ toViewer' \in Seq(Word)
           /\ Of(toViewer') \subseteq Of(toViewer) \cup Of(words) /\ Of(toViewer) \subseteq Of(toViewer')
           /\ online /\ viewing => Of(toViewer') = Of(toViewer) \cup Of(words)
           /\ ~viewing => toViewer' = toViewer
           /\ \A f : /\ Silent(toViewer, f) /\ Silent(words, f) => Silent(toViewer', f)
                     /\ Ended(toViewer, f) /\ Silent(words, f) => Ended(toViewer', f)
                     /\ online /\ viewing /\ Silent(words, f) /\ Gone(f) \in Of(words) => Ended(toViewer', f)
<1>1. toViewer \in Seq(Word)
    BY DEF TilesTypes
<1>2. CASE online /\ viewing
    <2>1. toViewer' = toViewer \o words
        BY <1>2 DEF Say
    <2>2. toViewer' \in Seq(Word) /\ Of(toViewer') = Of(toViewer) \cup Of(words)
        BY <1>1, <2>1, LinesJoined
    <2>3. ASSUME NEW f, Silent(words, f), Ended(toViewer, f) \/ Gone(f) \in Of(words) PROVE Ended(toViewer', f)
        BY <1>1, <2>1, <2>3, EndedGoesOn
    <2> QED
        BY <1>2, <2>2, <2>3 DEF Silent
<1>3. CASE ~(online /\ viewing)
    <2>1. toViewer' = toViewer
        BY <1>3 DEF Say
    <2> QED
        BY <1>1, <1>3, <2>1
<1> QED
    BY <1>2, <1>3

\* An announcement of files, and their retraction.
LEMMA Announced ==
    ASSUME NEW fs \in SUBSET File
    PROVE  /\ Metas(fs) \in Seq(Word) /\ Of(Metas(fs)) = {Meta(f) : f \in fs}
           /\ Retracted(fs) \in Seq(Word) /\ Of(Retracted(fs)) = {Gone(f) : f \in fs}
<1> DEFINE M == {Meta(f) : f \in fs}
           G == {Gone(f) : f \in fs}
<1>1. IsFiniteSet(fs)
    BY FilesFinite
<1>2. IsFiniteSet(M)
    <2>1. M = {"meta"} \X fs
        BY DEF Meta
    <2>2. IsFiniteSet({"meta"})
        BY FS_Singleton, Zenon
    <2>3. IsFiniteSet({"meta"} \X fs)
        BY <1>1, <2>2, FS_Product
    <2> QED
        BY <2>1, <2>3
<1>3. IsFiniteSet(G)
    <2>1. G = {"gone"} \X fs
        BY DEF Gone
    <2>2. IsFiniteSet({"gone"})
        BY FS_Singleton, Zenon
    <2>3. IsFiniteSet({"gone"} \X fs)
        BY <1>1, <2>2, FS_Product
    <2> QED
        BY <2>1, <2>3
<1>4. Metas(fs) = SetToSeq(M) /\ Retracted(fs) = SetToSeq(G)
    BY DEF Metas, Retracted, Meta, Gone
<1>5. M \subseteq Word /\ G \subseteq Word
    BY DEF Meta, Gone, Word
<1>6. Metas(fs) \in Seq(M) /\ Retracted(fs) \in Seq(G) /\ Of(Metas(fs)) = M /\ Of(Retracted(fs)) = G
    BY <1>2, <1>3, <1>4, InSomeOrder
<1> QED
    BY <1>5, <1>6, SeqMonotonic

\* A file takes its slot.
LEMMA AddsFile == ASSUME TilesInv, NEW f \in File, AddFile(f) PROVE TilesInv'
<1>1. /\ f = added + 1 /\ added' = f
      /\ UNCHANGED <<online, knownPeers, toHolder, viewing, tiles, toViewer, slipped, missed>>
    BY DEF AddFile
<1>2. \/ items' = items /\ thumbing' = thumbing
      \/ ~(Cardinality(items) >= Slots) /\ items' = items \cup {f} /\ thumbing' = thumbing \cup {f}
    BY DEF AddFile, SlotSoon
<1>3. items \subseteq items' /\ items' \subseteq items \cup {f} /\ thumbing \subseteq thumbing'
      /\ thumbing' \subseteq thumbing \cup {f}
    BY <1>2
<1>4. f \in items' \ items => f \in thumbing'
    BY <1>2
<1>5. added \in Nat /\ added' \in Nat
    BY <1>1 DEF TilesInv, TilesTypes
<1>6. TilesTypes'
    <2>1. items' \subseteq File /\ thumbing' \subseteq File
        BY <1>3 DEF TilesInv, TilesTypes
    <2>2. thumbing' \subseteq items' \cup slipped'
        BY <1>1, <1>2 DEF TilesInv, TilesTypes
    <2> QED
        BY <1>1, <1>5, <2>1, <2>2 DEF TilesInv, TilesTypes
<1>7. Unheardof'
    <2>1. \A g \in items' \cup thumbing' \cup tiles' : g <= added'
        <3>1. SUFFICES ASSUME NEW g \in items' \cup thumbing' \cup tiles' PROVE g <= added'
            OBVIOUS
        <3>2. g = f \/ g \in items \cup thumbing \cup tiles
            BY <1>1, <1>3
        <3>3. CASE g = f
            BY <1>1, <1>5, <3>3
        <3>4. CASE g \in items \cup thumbing \cup tiles
            <4>1. g <= added /\ g \in Int
                BY <3>4 DEF TilesInv, TilesTypes, Unheardof, File
            <4> QED
                BY <1>1, <1>5, <4>1
        <3> QED
            BY <3>2, <3>3, <3>4
    <2>2. \A w \in Of(toViewer') : w[2] <= added'
        <3>1. \A w \in Of(toViewer) : w[2] <= added /\ w[2] \in Int
            <4>1. \A w \in Of(toViewer) : w \in Word
                BY LenProperties DEF TilesInv, TilesTypes, Of
            <4> QED
                BY <4>1 DEF TilesInv, Unheardof, Word, File
        <3>2. \A m \in Int : m <= added => m <= added + 1
            BY <1>5
        <3> QED
            BY <1>1, <3>1, <3>2
    <2> QED
        BY <1>1, <2>1, <2>2 DEF TilesInv, Unheardof
<1>8. CapHolds'
    <2>1. items \in SUBSET File /\ tiles' = tiles
        BY <1>1 DEF TilesInv, TilesTypes
    <2>2. Cardinality(items) \in Nat /\ Slots \in Nat
        BY <2>1, FilesFinite, FilesAssumption
    <2>3. Cardinality(items') <= Slots
        BY <1>2, <2>1, <2>2, OneMore DEF TilesInv, CapHolds
    <2> QED
        BY <2>1, <2>3 DEF TilesInv, CapHolds
<1>9. Backed'
    BY <1>1, <1>3 DEF TilesInv, Backed, Over
<1>10. NeverBack'
    <2>1. Gone(f) \notin Of(toViewer)
        <3>1. SUFFICES ASSUME Gone(f) \in Of(toViewer) PROVE FALSE
            OBVIOUS
        <3>2. Gone(f)[2] <= added /\ Gone(f)[2] = f
            BY <3>1 DEF TilesInv, Unheardof, Gone
        <3> QED
            BY <1>1, <1>5, <3>2
    <2> QED
        BY <1>1, <1>3, <2>1 DEF TilesInv, NeverBack
<1>11. Counts' /\ AllSpoken'
    <2>1. Count' = Count
        BY <1>1 DEF Count
    <2>2. \A g \in items : Spoken(g) => Spoken(g)'
        BY <1>1, <1>3 DEF Spoken
    <2>3. \A g \in items' \ items : Spoken(g)'
        BY <1>3, <1>4 DEF Spoken
    <2> QED
        BY <1>1, <2>1, <2>2, <2>3 DEF TilesInv, Counts, AllSpoken
<1> QED
    BY <1>6, <1>7, <1>8, <1>9, <1>10, <1>11 DEF TilesInv

\* A thumbnail is done: the file is announced, or nobody was there to hear it.
LEMMA Thumbed == ASSUME TilesInv, NEW f \in File, ThumbDone(f) PROVE TilesInv'
<1>1. /\ f \in thumbing /\ thumbing' = thumbing \ {f} /\ items' = items
      /\ UNCHANGED <<online, knownPeers, toHolder, viewing, tiles, added, slipped>>
      /\ missed' = (IF online THEN missed ELSE missed \cup {f})
      /\ Say(<<Meta(f)>>)
    BY DEF ThumbDone, SlotSoon, Meta
<1>2. Meta(f) \in Word
    BY DEF Meta, Word
<1>3. <<Meta(f)>> \in Seq(Word) /\ Of(<<Meta(f)>>) = {Meta(f)}
    BY <1>2, OneWord
<1>4. f \in items \cup slipped /\ f <= added
    BY <1>1 DEF TilesInv, TilesTypes, Unheardof
<1>5. /\ toViewer' \in Seq(Word)
      /\ Of(toViewer') \subseteq Of(toViewer) \cup {Meta(f)} /\ Of(toViewer) \subseteq Of(toViewer')
      /\ online /\ viewing => Of(toViewer') = Of(toViewer) \cup {Meta(f)}
      /\ ~viewing => toViewer' = toViewer
      /\ \A g : g # f => /\ Silent(toViewer, g) => Silent(toViewer', g)
                         /\ Ended(toViewer, g) => Ended(toViewer', g)
    <2>1. \A g : g # f => Silent(<<Meta(f)>>, g)
        BY <1>3 DEF Silent, Meta
    <2> DEFINE one == <<Meta(f)>>
    <2>2. TilesTypes /\ one \in Seq(Word) /\ Say(one) /\ Of(one) = {Meta(f)} /\ \A g : g # f => Silent(one, g)
        BY <1>1, <1>3, <2>1 DEF TilesInv
    <2> HIDE DEF one
    <2> QED
        BY <2>2, Says
<1>6. TilesTypes'
    <2>1. thumbing' \subseteq File /\ thumbing' \subseteq items' \cup slipped'
        BY <1>1 DEF TilesInv, TilesTypes
    <2> QED
        BY <1>1, <1>5, <2>1 DEF TilesInv, TilesTypes
<1>7. Unheardof'
    <2>1. \A w \in Of(toViewer') : w[2] <= added'
        BY <1>1, <1>4, <1>5 DEF TilesInv, Unheardof, Meta
    <2> QED
        BY <1>1, <1>5, <2>1 DEF TilesInv, Unheardof
<1>8. CapHolds' /\ NeverBack' /\ Counts'
    BY <1>1, <1>5 DEF TilesInv, CapHolds, NeverBack, Counts, Count, Gone, Meta
<1>9. Backed'
    <2>1. SUFFICES ASSUME NEW g \in File PROVE Over(g)'
        BY DEF Backed
    <2>2. CASE g = f
        BY <1>1, <1>4, <2>2 DEF Over
    <2>3. CASE g # f
        BY <1>1, <1>5, <2>3 DEF TilesInv, Backed, Over
    <2> QED
        BY <2>2, <2>3
<1>10. AllSpoken'
    <2>1. \A g \in items : viewing /\ Spoken(g) => Spoken(g)'
        <3>1. SUFFICES ASSUME NEW g \in items, viewing, Spoken(g) PROVE Spoken(g)'
            OBVIOUS
        <3>2. CASE g \in tiles \/ Meta(g) \in Of(toViewer) \/ (g \in thumbing /\ g # f)
            BY <1>1, <1>5, <3>2 DEF Spoken
        <3>3. CASE g \in missed
            <4>1. missed \subseteq missed'
                BY <1>1
            <4> QED
                BY <3>3, <4>1 DEF Spoken
        <3>4. CASE g = f /\ online
            <4>1. Meta(f) \in Of(toViewer')
                BY <1>5, <3>1, <3>4
            <4> QED
                BY <3>4, <4>1 DEF Spoken
        <3>5. CASE g = f /\ ~online
            BY <1>1, <3>5 DEF Spoken
        <3> QED
            BY <3>1, <3>2, <3>3, <3>4, <3>5 DEF Spoken
    <2> QED
        BY <1>1, <2>1 DEF TilesInv, AllSpoken
<1> QED
    BY <1>6, <1>7, <1>8, <1>9, <1>10 DEF TilesInv

\* Files are removed, and retracted.
LEMMA TakesOut ==
    ASSUME TilesInv, NEW fs \in SUBSET items, TakenOut(fs),
           NEW words \in Seq(Word), Of(words) = {Gone(f) : f \in fs}, Say(words)
    PROVE  TilesInv'
<1>1. /\ items' = items \ fs
      /\ slipped' = slipped \cup (IF online THEN fs \cap thumbing ELSE fs)
      /\ UNCHANGED <<thumbing, online, knownPeers, toHolder, viewing, tiles, added, missed>>
    BY DEF TakenOut
<1>2. \A f : Silent(words, f)
    BY DEF Silent, Meta, Gone
<1>3. /\ toViewer' \in Seq(Word)
      /\ Of(toViewer') \subseteq Of(toViewer) \cup {Gone(f) : f \in fs} /\ Of(toViewer) \subseteq Of(toViewer')
      /\ ~viewing => toViewer' = toViewer
      /\ \A f : /\ Silent(toViewer, f) => Silent(toViewer', f)
                /\ Ended(toViewer, f) => Ended(toViewer', f)
                /\ online /\ viewing /\ f \in fs => Ended(toViewer', f)
    BY <1>2, Says DEF TilesInv
<1>4. TilesTypes'
    <2>1. items' \subseteq File /\ thumbing' \subseteq items' \cup slipped'
        BY <1>1 DEF TilesInv, TilesTypes
    <2> QED
        BY <1>1, <1>3, <2>1 DEF TilesInv, TilesTypes
<1>5. Unheardof'
    <2>1. \A w \in Of(toViewer') : w[2] <= added'
        BY <1>1, <1>3 DEF TilesInv, Unheardof, Gone
    <2> QED
        BY <1>1, <1>3, <2>1 DEF TilesInv, Unheardof
<1>6. CapHolds'
    <2>1. items \in SUBSET File /\ items' \in SUBSET items
        BY <1>1 DEF TilesInv, TilesTypes
    <2>2. items' \in SUBSET File
        BY <2>1
    <2>3. Cardinality(items) \in Nat /\ Cardinality(items') \in Nat /\ Cardinality(items') <= Cardinality(items)
        BY <2>1, <2>2, FilesFinite
    <2> QED
        BY <1>1, <2>3, FilesAssumption DEF TilesInv, CapHolds
<1>7. Backed'
    <2>1. SUFFICES ASSUME NEW g \in File PROVE Over(g)'
        BY DEF Backed
    <2>2. Over(g)
        BY DEF TilesInv, Backed
    <2>3. CASE g \notin fs
        BY <1>1, <1>3, <2>2, <2>3 DEF Over
    <2>4. CASE g \in fs
        <3>1. CASE ~online
            BY <1>1, <2>4, <3>1 DEF Over
        <3>2. CASE online /\ viewing
            BY <1>3, <2>4, <3>2 DEF Over
        <3>3. CASE ~viewing
            <4>1. toViewer' = <<>> /\ tiles' = {}
                BY <1>1, <1>3, <3>3 DEF TilesInv, Unheardof
            <4>2. Of(<<>>) = {}
                BY LineEmpty
            <4>3. g \notin tiles' /\ Silent(toViewer', g)
                BY <4>1, <4>2 DEF Silent
            <4> QED
                BY <4>3 DEF Over
        <3> QED
            BY <3>1, <3>2, <3>3
    <2> QED
        BY <2>3, <2>4
<1>8. NeverBack'
    BY <1>1, <1>3 DEF TilesInv, NeverBack, Gone
<1>9. Counts' /\ AllSpoken'
    <2>1. Count' = Count
        BY <1>1 DEF Count
    <2>2. \A g : Spoken(g) => Spoken(g)'
        BY <1>1, <1>3 DEF Spoken
    <2> QED
        BY <1>1, <2>1, <2>2 DEF TilesInv, Counts, AllSpoken
<1> QED
    BY <1>4, <1>5, <1>6, <1>7, <1>8, <1>9 DEF TilesInv

\* The holder hears how many are in the room, and announces every file if they grew.
LEMMA HoldersCount == ASSUME TilesInv, HearsCount PROVE TilesInv'
<1> DEFINE present == Head(toHolder)
<1>1. /\ toHolder # <<>> /\ toHolder' = Tail(toHolder) /\ knownPeers' = present
      /\ IF present > knownPeers THEN Say(Metas(items)) /\ missed' = missed \ items
         ELSE UNCHANGED <<toViewer, missed>>
      /\ UNCHANGED <<items, thumbing, online, viewing, tiles, added, slipped>>
    BY DEF HearsCount, Known
<1>2. /\ present \in 1..2 /\ Tail(toHolder) \in Seq(1..2) /\ knownPeers \in 1..2
      /\ LastIn(present, Tail(toHolder)) = LastIn(knownPeers, toHolder)
      /\ GrowsIn(knownPeers, toHolder) => (knownPeers = 1 /\ present = 2) \/ GrowsIn(present, Tail(toHolder))
    BY <1>1, CountHeard DEF TilesInv, TilesTypes
<1> HIDE DEF present
<1>3. online
    BY <1>1 DEF TilesInv, Unheardof
<1>4. CASE present > knownPeers
    <2>1. items \in SUBSET File /\ Say(Metas(items)) /\ missed' = missed \ items
        BY <1>1, <1>4 DEF TilesInv, TilesTypes
    <2>2. Metas(items) \in Seq(Word) /\ Of(Metas(items)) = {Meta(f) : f \in items}
        BY <2>1, Announced
    <2>3. /\ toViewer' \in Seq(Word)
          /\ Of(toViewer') \subseteq Of(toViewer) \cup {Meta(f) : f \in items} /\ Of(toViewer) \subseteq Of(toViewer')
          /\ viewing => {Meta(f) : f \in items} \subseteq Of(toViewer')
          /\ ~viewing => toViewer' = toViewer
          /\ \A g : g \notin items => /\ Silent(toViewer, g) => Silent(toViewer', g)
                                      /\ Ended(toViewer, g) => Ended(toViewer', g)
        <3>1. \A g : g \notin items => Silent(Metas(items), g)
            BY <2>2 DEF Silent, Meta
        <3> QED
            BY <1>3, <2>1, <2>2, <3>1, Says DEF TilesInv
    <2>4. TilesTypes'
        BY <1>1, <1>2, <2>3 DEF TilesInv, TilesTypes
    <2>5. Unheardof'
        <3>1. \A w \in Of(toViewer') : w[2] <= added'
            BY <1>1, <2>3 DEF TilesInv, Unheardof, Meta
        <3> QED
            BY <1>1, <1>3, <2>3, <3>1 DEF TilesInv, Unheardof
    <2>6. CapHolds' /\ NeverBack'
        BY <1>1, <2>3 DEF TilesInv, CapHolds, NeverBack, Gone, Meta
    <2>7. Backed'
        BY <1>1, <2>3 DEF TilesInv, Backed, Over
    <2>8. Counts'
        BY <1>1, <1>2 DEF TilesInv, Counts, Count
    <2>9. AllSpoken'
        BY <1>1, <2>3 DEF AllSpoken, Spoken
    <2> QED
        BY <2>4, <2>5, <2>6, <2>7, <2>8, <2>9 DEF TilesInv
<1>5. CASE ~(present > knownPeers)
    <2>1. toViewer' = toViewer /\ missed' = missed
        BY <1>1, <1>5
    <2>2. ~(knownPeers = 1 /\ present = 2)
        BY <1>5
    <2>3. TilesTypes' /\ Unheardof'
        BY <1>1, <1>2, <1>3, <2>1 DEF TilesInv, TilesTypes, Unheardof
    <2>4. CapHolds' /\ NeverBack' /\ Backed'
        BY <1>1, <2>1 DEF TilesInv, CapHolds, NeverBack, Backed, Over
    <2>5. Counts'
        BY <1>1, <1>2 DEF TilesInv, Counts, Count
    <2>6. AllSpoken'
        BY <1>1, <1>2, <2>1, <2>2 DEF TilesInv, AllSpoken, Spoken
    <2> QED
        BY <2>3, <2>4, <2>5, <2>6 DEF TilesInv
<1> QED
    BY <1>4, <1>5

\* The viewer hears of a file: it has it, had no room, or loses it.
LEMMA ViewersWord == ASSUME TilesInv, ViewerHears PROVE TilesInv'
<1> DEFINE w == Head(toViewer)
<1>1. /\ toViewer # <<>> /\ toViewer' = Tail(toViewer)
      /\ UNCHANGED <<items, thumbing, online, knownPeers, toHolder, viewing, added, slipped>>
      /\ w[1] = "gone" => tiles' = tiles \ {w[2]} /\ missed' = missed
      /\ w[1] # "gone" =>
            \/ NoRoomForTile /\ tiles' = tiles /\ missed' = missed \cup ({w[2]} \ tiles)
            \/ ~NoRoomForTile /\ tiles' = tiles \cup {w[2]} /\ missed' = missed
    BY DEF ViewerHears, Tiled
<1>2. /\ w \in Word /\ toViewer' \in Seq(Word) /\ Of(toViewer) = Of(toViewer') \cup {w}
      /\ \A g : Ended(toViewer, g) => Ended(toViewer', g) \/ (w = Gone(g) /\ Silent(toViewer', g))
    <2>1. toViewer \in Seq(Word)
        BY DEF TilesInv, TilesTypes
    <2> QED
        BY <1>1, <2>1, LineShorter, EndedIsHeard
<1> HIDE DEF w
<1>3. PICK f \in File : w = Gone(f) \/ w = Meta(f)
    BY <1>2 DEF Word, Gone, Meta
<1>4. /\ w = Gone(f) => tiles' = tiles \ {f} /\ missed' = missed
      /\ w = Meta(f) => \/ NoRoomForTile /\ tiles' = tiles /\ missed' = missed \cup ({f} \ tiles)
                        \/ ~NoRoomForTile /\ tiles' = tiles \cup {f} /\ missed' = missed
    BY <1>1 DEF Gone, Meta
<1>5. viewing /\ f <= added
    <2>1. w[2] <= added /\ w[2] = f
        BY <1>2, <1>3 DEF TilesInv, Unheardof, Gone, Meta
    <2>2. viewing
        BY <1>1 DEF TilesInv, Unheardof
    <2> QED
        BY <2>1, <2>2
<1>6. tiles' \subseteq tiles \cup {f}
    BY <1>3, <1>4
<1>7. TilesTypes'
    BY <1>1, <1>2, <1>6 DEF TilesInv, TilesTypes
<1>8. Unheardof'
    BY <1>1, <1>2, <1>5, <1>6 DEF TilesInv, Unheardof
<1>9. CapHolds'
    <2>1. tiles \in SUBSET File /\ Cardinality(tiles) \in Nat /\ Slots \in Nat
        BY FilesFinite, FilesAssumption DEF TilesInv, TilesTypes
    <2>2. CASE tiles' \subseteq tiles
        <3>1. Cardinality(tiles') <= Cardinality(tiles) /\ Cardinality(tiles') \in Nat
            BY <2>1, <2>2, FilesFinite
        <3> QED
            BY <1>1, <2>1, <3>1 DEF TilesInv, CapHolds
    <2>3. CASE ~NoRoomForTile /\ tiles' = tiles \cup {f}
        <3>1. Cardinality(tiles) < Slots
            BY <2>1, <2>3 DEF NoRoomForTile
        <3>2. Cardinality(tiles \cup {f}) <= Slots
            BY <2>1, <3>1, OneMore
        <3> QED
            BY <1>1, <2>3, <3>2 DEF TilesInv, CapHolds
    <2> QED
        BY <1>3, <1>4, <2>2, <2>3
<1>10. Backed'
    <2>1. SUFFICES ASSUME NEW g \in File PROVE Over(g)'
        BY DEF Backed
    <2>2. Over(g) /\ (Silent(toViewer, g) => Silent(toViewer', g))
        BY <1>2 DEF TilesInv, Backed, Silent
    <2>3. CASE g \in items \cup slipped
        BY <1>1, <2>3 DEF Over
    <2>4. CASE g \notin tiles /\ Silent(toViewer, g)
        <3>1. w # Meta(g)
            BY <1>2, <2>4 DEF Silent
        <3>2. g \notin tiles'
            BY <1>3, <1>4, <2>4, <3>1
        <3> QED
            BY <2>2, <2>4, <3>2 DEF Over
    <2>5. CASE Ended(toViewer, g)
        <3>1. CASE w = Gone(g)
            <4>1. w = Gone(f) /\ f = g
                BY <1>3, <3>1 DEF Gone, Meta
            <4>2. g \notin tiles'
                BY <1>4, <4>1
            <4> QED
                BY <1>2, <2>5, <4>2 DEF Over
        <3>2. CASE w # Gone(g)
            BY <1>2, <2>5, <3>2 DEF Over
        <3> QED
            BY <3>1, <3>2
    <2> QED
        BY <2>2, <2>3, <2>4, <2>5 DEF Over
<1>11. NeverBack' /\ Counts'
    BY <1>1, <1>2 DEF TilesInv, NeverBack, Counts, Count
<1>12. AllSpoken'
    <2>1. \A g \in items : Spoken(g) => Spoken(g)'
        <3>1. SUFFICES ASSUME NEW g \in items, Spoken(g) PROVE Spoken(g)'
            OBVIOUS
        <3>2. w # Gone(g)
            BY <1>2 DEF TilesInv, NeverBack
        <3>3. missed \subseteq missed'
            BY <1>3, <1>4
        <3>4. g \in tiles => g \in tiles'
            BY <1>3, <1>4, <3>2
        <3>5. w = Meta(g) => g \in tiles' \cup missed'
            <4>1. w = Meta(g) => w = Meta(f) /\ f = g
                BY <1>3 DEF Gone, Meta
            <4> QED
                BY <1>4, <4>1
        <3>6. Meta(g) \in Of(toViewer) => w = Meta(g) \/ Meta(g) \in Of(toViewer')
            BY <1>2
        <3> QED
            BY <1>1, <3>1, <3>3, <3>4, <3>5, <3>6 DEF Spoken
    <2> QED
        BY <1>1, <2>1 DEF TilesInv, AllSpoken
<1> QED
    BY <1>7, <1>8, <1>9, <1>10, <1>11, <1>12 DEF TilesInv

\* A line that went, with the tiles it was for.
LEMMA NothingHeard == ASSUME toViewer' = <<>>, tiles' = {} PROVE Backed' /\ NeverBack' /\ Of(toViewer') = {}
<1>1. Of(<<>>) = {}
    BY LineEmpty
<1> QED
    BY <1>1 DEF Backed, NeverBack, Over, Silent

\* The viewer comes or goes, and so does the holder's connection.
LEMMA ComesAndGoes == ASSUME TilesInv, ViewerMoves \/ HolderDrops \/ HolderBack PROVE TilesInv'
<1>1. CASE ViewerMoves
    <2>1. /\ viewing' = ~viewing /\ tiles' = {} /\ toViewer' = <<>>
          /\ toHolder' = IF online THEN Append(toHolder, IF viewing THEN 1 ELSE 2) ELSE toHolder
          /\ missed' = IF online THEN missed ELSE missed \cup items
          /\ UNCHANGED <<items, thumbing, online, knownPeers, added, slipped>>
        BY <1>1 DEF ViewerMoves
    <2>2. Backed' /\ NeverBack' /\ Of(toViewer') = {} /\ <<>> \in Seq(Word)
        BY <2>1, NothingHeard, EmptySeq
    <2>3. toHolder' \in Seq(1..2) /\ Counts' /\ (viewing' /\ online => GrowsIn(knownPeers, toHolder'))
        <3>1. toHolder \in Seq(1..2) /\ knownPeers \in 1..2 /\ viewing \in BOOLEAN
            BY DEF TilesInv, TilesTypes
        <3>2. CASE online
            <4> DEFINE c == IF viewing THEN 1 ELSE 2
            <4>1. c \in 1..2 /\ toHolder' = Append(toHolder, c) /\ Count' = c
                <5>1. toHolder' = Append(toHolder, c)
                    BY <2>1, <3>2
                <5>2. Count' = c
                    BY <2>1, <3>1 DEF Count
                <5>3. c \in 1..2
                    OBVIOUS
                <5> QED
                    BY <5>1, <5>2, <5>3
            <4>2. LastIn(knownPeers, toHolder) = Count
                BY <3>2 DEF TilesInv, Counts
            <4>3. ~viewing => Count = 1 /\ c = 2
                BY DEF Count
            <4>4. /\ Append(toHolder, c) \in Seq(1..2) /\ LastIn(knownPeers, Append(toHolder, c)) = c
                  /\ LastIn(knownPeers, toHolder) = 1 /\ c = 2 => GrowsIn(knownPeers, Append(toHolder, c))
                BY <3>1, <4>1, CountTold
            <4> QED
                BY <2>1, <4>1, <4>2, <4>3, <4>4 DEF Counts
        <3>3. CASE ~online
            BY <2>1, <3>1, <3>3 DEF Counts
        <3> QED
            BY <3>2, <3>3
    <2>4. TilesTypes'
        <3>1. tiles' \subseteq File /\ toViewer' \in Seq(Word) /\ viewing' \in BOOLEAN
            BY <2>1, <2>2
        <3> QED
            BY <2>1, <2>3, <3>1 DEF TilesInv, TilesTypes
    <2>5. Unheardof'
        BY <2>1, <2>2 DEF TilesInv, Unheardof
    <2>6. CapHolds'
        BY <2>1, FS_EmptySet, FilesAssumption DEF TilesInv, CapHolds
    <2>7. AllSpoken'
        BY <2>1, <2>3 DEF AllSpoken, Spoken
    <2> QED
        BY <2>2, <2>3, <2>4, <2>5, <2>6, <2>7 DEF TilesInv
<1>2. CASE HolderDrops
    <2>1. /\ online /\ online' = FALSE /\ toHolder' = <<>>
          /\ missed' = missed \cup (IF toHolder = <<>> THEN {} ELSE items)
          /\ UNCHANGED <<items, thumbing, knownPeers, viewing, tiles, toViewer, added, slipped>>
        BY <1>2 DEF HolderDrops
    <2>2. TilesTypes'
        <3>1. toHolder' \in Seq(1..2)
            BY <2>1, EmptySeq
        <3>2. online' \in BOOLEAN
            BY <2>1
        <3> QED
            BY <2>1, <3>1, <3>2 DEF TilesInv, TilesTypes
    <2>3. Unheardof' /\ CapHolds' /\ Backed' /\ NeverBack' /\ Counts'
        BY <2>1 DEF TilesInv, Unheardof, CapHolds, Backed, Over, NeverBack, Counts
    <2>4. AllSpoken'
        <3>1. CASE toHolder = <<>>
            <4>1. ~GrowsIn(knownPeers, <<>>)
                <5>1. DOMAIN <<>> = {}
                    OBVIOUS
                <5> QED
                    BY <5>1 DEF GrowsIn
            <4> QED
                BY <2>1, <3>1, <4>1 DEF TilesInv, AllSpoken, Spoken
        <3>2. CASE toHolder # <<>>
            BY <2>1, <3>2 DEF AllSpoken, Spoken
        <3> QED
            BY <3>1, <3>2
    <2> QED
        BY <2>2, <2>3, <2>4 DEF TilesInv
<1>3. CASE HolderBack
    <2>1. /\ ~online /\ online' = TRUE /\ toHolder' = <<Count>>
          /\ UNCHANGED <<items, thumbing, knownPeers, viewing, tiles, toViewer, added, slipped, missed>>
        BY <1>3 DEF HolderBack
    <2>2. Count \in 1..2 /\ Count' = Count
        BY <2>1 DEF Count
    <2>3. toHolder' \in Seq(1..2) /\ Counts'
        <3>1. <<Count>> \in Seq(1..2) /\ <<Count>> # <<>> /\ Len(<<Count>>) = 1 /\ <<Count>>[1] = Count
            BY <2>2
        <3> QED
            BY <2>1, <2>2, <3>1 DEF Counts, LastIn
    <2>4. TilesTypes'
        <3>1. online' \in BOOLEAN
            BY <2>1
        <3> QED
            BY <2>1, <2>3, <3>1 DEF TilesInv, TilesTypes
    <2>5. Unheardof' /\ CapHolds' /\ Backed' /\ NeverBack' /\ AllSpoken'
        BY <2>1 DEF TilesInv, Unheardof, CapHolds, Backed, Over, NeverBack, AllSpoken, Spoken
    <2> QED
        BY <2>3, <2>4, <2>5 DEF TilesInv
<1> QED
    BY <1>1, <1>2, <1>3

\* Every step of the tiles keeps it.
LEMMA TilesKeep == ASSUME TilesInv, [TilesNext]_tilesVars PROVE TilesInv'
<1>1. CASE UNCHANGED tilesVars
    BY <1>1 DEF tilesVars, TilesInv, TilesTypes, Unheardof, CapHolds, Backed, Over, NeverBack, Counts, Count,
                AllSpoken, Spoken
<1>2. ASSUME NEW f \in File, RemoveFile(f) PROVE TilesInv'
    <2>1. Gone(f) \in Word /\ {f} \in SUBSET items /\ TakenOut({f}) /\ Say(<<Gone(f)>>)
        BY <1>2 DEF RemoveFile, Gone, Word
    <2>2. <<Gone(f)>> \in Seq(Word) /\ Of(<<Gone(f)>>) = {Gone(g) : g \in {f}}
        BY <2>1, OneWord
    <2> QED
        BY <2>1, <2>2, TakesOut
<1>3. CASE ClearAll
    <2>1. items \in SUBSET File /\ TakenOut(items) /\ Say(Retracted(items))
        BY <1>3 DEF ClearAll, Cleared, TilesInv, TilesTypes
    <2>2. Retracted(items) \in Seq(Word) /\ Of(Retracted(items)) = {Gone(g) : g \in items}
        BY <2>1, Announced
    <2> QED
        BY <2>1, <2>2, TakesOut
<1> QED
    BY <1>1, <1>2, <1>3, AddsFile, Thumbed, HoldersCount, ViewersWord, ComesAndGoes DEF TilesNext, TilesWork

\* And it holds at the start.
LEMMA TilesStart == ASSUME TilesInit PROVE TilesInv
<1>1. /\ items = {} /\ thumbing = {} /\ online = TRUE /\ knownPeers = 1 /\ toHolder = <<>>
      /\ viewing = FALSE /\ tiles = {} /\ toViewer = <<>> /\ added = 0
    BY DEF TilesInit
<1>2. /\ <<>> \in Seq(Word) /\ Of(<<>>) = {} /\ <<>> \in Seq(1..2)
    BY LineEmpty
<1>3. TilesTypes
    <2>1. added \in Nat /\ knownPeers \in 1..2
        BY <1>1
    <2>2. items \subseteq File /\ thumbing \subseteq File /\ tiles \subseteq File /\ thumbing \subseteq items \cup slipped
        BY <1>1
    <2>3. online \in BOOLEAN /\ viewing \in BOOLEAN
        BY <1>1
    <2>4. toViewer \in Seq(Word) /\ toHolder \in Seq(1..2)
        BY <1>1, <1>2
    <2> QED
        BY <2>1, <2>2, <2>3, <2>4 DEF TilesTypes
<1>4. Unheardof /\ Backed /\ NeverBack /\ AllSpoken
    BY <1>1, <1>2 DEF Unheardof, Backed, Over, Silent, NeverBack, AllSpoken
<1>5. CapHolds
    BY <1>1, FS_EmptySet, FilesAssumption DEF CapHolds
<1>6. Counts
    BY <1>1 DEF Counts, LastIn, Count
<1> QED
    BY <1>3, <1>4, <1>5, <1>6 DEF TilesInv

\* What is asked of the tiles: the cap, and once all is heard no tile without its file and
\* no file unknown (registry.js:69-74, 243-244; transfer.js:1023-1024).
TilesAreTrue == CapHolds /\ TileIsBacked /\ KnowsTheFiles
\* Tiles tell, however adds, thumbnails, drops and late joins overlap, for any number of
\* files and slots.
THEOREM TilesTell == TilesSpec => []TilesAreTrue
<1>1. TilesInit => TilesInv
    BY TilesStart
<1>2. TilesInv /\ [TilesNext]_tilesVars => TilesInv'
    BY TilesKeep
<1>3. ASSUME TilesInv PROVE TilesAreTrue
    <2>1. ASSUME toViewer = <<>> PROVE Of(toViewer) = {} /\ \A f : ~Ended(toViewer, f)
        <3>1. DOMAIN <<>> = {}
            OBVIOUS
        <3> QED
            BY <2>1, <3>1 DEF Of, Ended
    <2>2. ASSUME toHolder = <<>> PROVE ~GrowsIn(knownPeers, toHolder)
        <3>1. DOMAIN <<>> = {}
            OBVIOUS
        <3> QED
            BY <2>2, <3>1 DEF GrowsIn
    <2>3. TileIsBacked
        BY <1>3, <2>1 DEF TilesInv, TilesTypes, TileIsBacked, Calm, Backed, Over
    <2>4. KnowsTheFiles
        BY <1>3, <2>1, <2>2 DEF TilesInv, KnowsTheFiles, Calm, AllSpoken, Spoken
    <2> QED
        BY <1>3, <2>3, <2>4 DEF TilesAreTrue, TilesInv
<1> QED
    BY <1>1, <1>2, <1>3, PTL DEF TilesSpec
-----------------------------------------------------------------------------
(* The object URLs.                                                        *)

\* At most the newest save's URL is live, and only while its own timer runs.
UrlsInv ==
    /\ saves \in Nat /\ (url = 0 \/ url = saves) /\ live \subseteq {url} /\ timers \subseteq 1..saves
    /\ NoUrlLeaks /\ SaveKeepsItsUrl

\* What is asked of object URLs: none outlives its file or its timer, and the newest save
\* keeps its own.
UrlsAreKept == NoUrlLeaks /\ SaveKeepsItsUrl
\* However saves, timers and removals overlap (registry.js:69-74 lists the file).
THEOREM UrlsKept == UrlsSpec => []UrlsAreKept
<1>1. ASSUME UrlsInit PROVE UrlsInv
    <2>1. held = TRUE /\ url = 0 /\ live = {} /\ timers = {} /\ saves = 0
        BY <1>1 DEF UrlsInit
    <2>2. saves \in Nat /\ timers \subseteq 1..saves
        BY <2>1
    <2> QED
        BY <2>1, <2>2 DEF UrlsInv, NoUrlLeaks, SaveKeepsItsUrl
<1>2. ASSUME UrlsInv, [UrlsNext]_urlsVars PROVE UrlsInv'
    <2>1. CASE UNCHANGED urlsVars
        BY <1>2, <2>1 DEF urlsVars, UrlsInv, NoUrlLeaks, SaveKeepsItsUrl
    <2>2. CASE SaveFile
        <3>1. /\ held /\ held' = held /\ saves' = saves + 1 /\ url' = saves + 1
              /\ live' = (live \ {url}) \cup {saves + 1} /\ timers' = timers \cup {saves + 1}
            BY <2>2 DEF SaveFile, Revoked
        <3>2. live' = {saves + 1}
            BY <1>2, <3>1 DEF UrlsInv
        <3>3. saves' \in Nat /\ timers' \subseteq 1..saves'
            BY <1>2, <3>1 DEF UrlsInv
        <3> QED
            BY <3>1, <3>2, <3>3 DEF UrlsInv, NoUrlLeaks, SaveKeepsItsUrl
    <2>3. CASE Release
        <3>1. /\ held' = FALSE /\ live' = live \ {url} /\ url' = 0 /\ timers' = timers /\ saves' = saves
            BY <2>3 DEF Release
        <3>2. live' = {}
            BY <1>2, <3>1 DEF UrlsInv
        <3> QED
            BY <1>2, <3>1, <3>2 DEF UrlsInv, NoUrlLeaks, SaveKeepsItsUrl
    <2>4. ASSUME NEW u \in timers, UrlTimer(u) PROVE UrlsInv'
        <3>1. timers' = timers \ {u} /\ held' = held /\ saves' = saves /\ u \in 1..saves
            BY <1>2, <2>4 DEF UrlTimer, UrlsInv
        <3>2. CASE url = u
            <4>1. url' = 0 /\ live' = live \ {url} /\ url = saves
                BY <1>2, <2>4, <3>1, <3>2 DEF UrlTimer, Timed, UrlsInv
            <4>2. live' = {} /\ saves' \notin timers'
                BY <1>2, <3>1, <3>2, <4>1 DEF UrlsInv
            <4> QED
                BY <1>2, <3>1, <4>1, <4>2 DEF UrlsInv, NoUrlLeaks, SaveKeepsItsUrl
        <3>3. CASE url # u
            <4>1. url' = url /\ live' = live
                BY <2>4, <3>3 DEF UrlTimer, Timed
            <4> QED
                BY <1>2, <3>1, <3>3, <4>1 DEF UrlsInv, NoUrlLeaks, SaveKeepsItsUrl
        <3> QED
            BY <3>2, <3>3
    <2> QED
        BY <1>2, <2>1, <2>2, <2>3, <2>4 DEF UrlsNext
<1>3. UrlsInv => UrlsAreKept
    BY DEF UrlsInv, UrlsAreKept
<1> QED
    BY <1>1, <1>2, <1>3, PTL DEF UrlsSpec
-----------------------------------------------------------------------------
(* The images.                                                             *)

\* The last image shared is the one remembered, unless the session is another.
LastShared == imgShared[Len(imgShared)]
\* The invariant of the images: the session of the last one shared, and what it was.
ImagesInv ==
    /\ imgRoom \in Nat /\ imgBound \in BOOLEAN /\ imgBoard \in 0..2 /\ imgAsked \in Nat
    /\ imgReads \subseteq [n : Nat, img : 0..2]
    /\ imgShared \in Seq([img : 0..2, room : Nat, bound : {TRUE}])
    /\ imgShared # <<>> => LastShared.room <= imgRoom /\ (LastShared.room = imgRoom => LastShared.img = imgLast)
    /\ ImageSharedOnce

\* What an image hashed appends.
LEMMA ImageShared ==
    ASSUME ImagesInv, NEW k \in 1..2, k # imgLast, imgLast' = k, imgRoom' = imgRoom,
           imgShared' = Append(imgShared, [img |-> k, room |-> imgRoom, bound |-> TRUE])
    PROVE  /\ imgShared' \in Seq([img : 0..2, room : Nat, bound : {TRUE}]) /\ ImageSharedOnce'
           /\ LastShared'.room <= imgRoom' /\ LastShared'.img = imgLast'
<1> DEFINE S == [img : 0..2, room : Nat, bound : {TRUE}]
           e == [img |-> k, room |-> imgRoom, bound |-> TRUE]
<1>1. e \in S /\ e.img = k /\ e.room = imgRoom /\ e.bound = TRUE /\ imgShared \in Seq(S)
    BY DEF ImagesInv
<1>2. imgShared' = Append(imgShared, e)
    OBVIOUS
<1>3. /\ imgRoom \in Nat /\ ImageSharedOnce
      /\ imgShared # <<>> /\ LastShared.room = imgRoom => LastShared.img = imgLast
    BY DEF ImagesInv
<1> HIDE DEF S, e
<1>4. /\ imgShared' \in Seq(S) /\ Len(imgShared) \in Nat /\ Len(imgShared') = Len(imgShared) + 1
      /\ \A i \in 1..Len(imgShared) : imgShared'[i] = imgShared[i]
      /\ imgShared'[Len(imgShared) + 1] = e
    BY <1>1, <1>2, AppendProperties, LenProperties
<1>5. DOMAIN imgShared' = 1..(Len(imgShared) + 1) /\ DOMAIN imgShared = 1..Len(imgShared)
    BY <1>1, <1>4, LenProperties
<1>6. ImageSharedOnce'
    <2>1. SUFFICES ASSUME NEW i \in 1..(Len(imgShared) + 1)
                   PROVE  /\ imgShared'[i].bound
                          /\ i > 1 /\ imgShared'[i].room = imgShared'[i - 1].room
                             => imgShared'[i].img # imgShared'[i - 1].img
        BY <1>5 DEF ImageSharedOnce
    <2>2. CASE i \in 1..Len(imgShared)
        <3>1. imgShared'[i] = imgShared[i] /\ (i > 1 => imgShared'[i - 1] = imgShared[i - 1])
            BY <1>4, <2>2
        <3> QED
            BY <1>3, <1>5, <2>2, <3>1 DEF ImageSharedOnce
    <2>3. CASE i = Len(imgShared) + 1
        <3>1. imgShared'[i] = e
            BY <1>4, <2>3
        <3>2. ASSUME i > 1, e.room = imgShared'[i - 1].room PROVE e.img # imgShared'[i - 1].img
            <4>1. i - 1 = Len(imgShared) /\ Len(imgShared) \in 1..Len(imgShared) /\ imgShared # <<>>
                BY <1>4, <2>3, <3>2, EmptySeq
            <4>2. imgShared'[i - 1] = LastShared
                BY <1>4, <4>1 DEF LastShared
            <4>3. LastShared.room = imgRoom => LastShared.img = imgLast
                BY <1>3, <4>1
            <4> QED
                BY <1>1, <3>2, <4>2, <4>3
        <3> QED
            BY <1>1, <3>1, <3>2
    <2> QED
        BY <1>4, <2>2, <2>3
<1>7. LastShared' = e
    BY <1>4 DEF LastShared
<1> QED
    BY <1>1, <1>3, <1>4, <1>6, <1>7 DEF S

\* An image is shared once a session, however many reads of it overlap (capture.js:201-232).
THEOREM ImagesShared == ImagesSpec => []ImageSharedOnce
<1>1. ASSUME ImagesInit PROVE ImagesInv
    <2>1. /\ imgBoard = 0 /\ imgBound = TRUE /\ imgReads = {} /\ imgAsked = 0 /\ imgRoom = 1 /\ imgShared = <<>>
        BY <1>1 DEF ImagesInit
    <2>2. imgRoom \in Nat /\ imgBoard \in 0..2 /\ imgAsked \in Nat
        BY <2>1
    <2>3. imgBound \in BOOLEAN /\ imgReads \subseteq [n : Nat, img : 0..2]
        BY <2>1
    <2>4. imgShared \in Seq([img : 0..2, room : Nat, bound : {TRUE}])
        BY <2>1, EmptySeq
    <2>5. ImageSharedOnce
        <3>1. DOMAIN <<>> = {}
            OBVIOUS
        <3> QED
            BY <2>1, <3>1 DEF ImageSharedOnce
    <2> QED
        BY <2>1, <2>2, <2>3, <2>4, <2>5 DEF ImagesInv
<1>2. ASSUME ImagesInv, [ImagesNext]_imagesVars PROVE ImagesInv'
    <2>1. CASE UNCHANGED imagesVars
        BY <1>2, <2>1 DEF imagesVars, ImagesInv, LastShared, ImageSharedOnce
    <2>2. ASSUME NEW img \in 1..2, CopiesImage(img) PROVE ImagesInv'
        <3>1. imgBoard' = img /\ UNCHANGED <<imgBound, imgReads, imgAsked, imgLast, imgRoom, imgShared>>
            BY <2>2 DEF CopiesImage
        <3>2. imgBoard' \in 0..2
            BY <3>1
        <3> QED
            BY <1>2, <3>1, <3>2 DEF ImagesInv, LastShared, ImageSharedOnce
    <2>3. CASE SetsImageRung
        <3>1. imgBound' = ~imgBound /\ UNCHANGED <<imgBoard, imgReads, imgAsked, imgLast, imgRoom, imgShared>>
            BY <2>3 DEF SetsImageRung
        <3>2. imgBound' \in BOOLEAN
            BY <3>1
        <3> QED
            BY <1>2, <3>1, <3>2 DEF ImagesInv, LastShared, ImageSharedOnce
    <2>4. CASE AsksForImage
        <3>1. /\ imgAsked' = imgAsked + 1 /\ imgReads' = imgReads \cup {[n |-> imgAsked + 1, img |-> 0]}
              /\ UNCHANGED <<imgBoard, imgBound, imgLast, imgRoom, imgShared>>
            BY <2>4 DEF AsksForImage
        <3>2. imgAsked' \in Nat /\ [n |-> imgAsked + 1, img |-> 0] \in [n : Nat, img : 0..2]
            BY <1>2, <3>1 DEF ImagesInv
        <3>3. imgReads' \subseteq [n : Nat, img : 0..2]
            BY <1>2, <3>1, <3>2 DEF ImagesInv
        <3> QED
            BY <1>2, <3>1, <3>2, <3>3 DEF ImagesInv, LastShared, ImageSharedOnce
    <2>5. ASSUME NEW r \in imgReads, ReadsImage(r) PROVE ImagesInv'
        <3>1. /\ imgReads' \subseteq imgReads \cup {[r EXCEPT !.img = imgBoard]}
              /\ UNCHANGED <<imgBoard, imgBound, imgAsked, imgLast, imgRoom, imgShared>>
            BY <2>5 DEF ReadsImage
        <3>2. [r EXCEPT !.img = imgBoard] \in [n : Nat, img : 0..2]
            BY <1>2 DEF ImagesInv
        <3>3. imgReads' \subseteq [n : Nat, img : 0..2]
            BY <1>2, <3>1, <3>2 DEF ImagesInv
        <3> QED
            BY <1>2, <3>1, <3>3 DEF ImagesInv, LastShared, ImageSharedOnce
    <2>6. ASSUME NEW r \in imgReads, HashesImage(r) PROVE ImagesInv'
        <3>1. /\ r.img # 0 /\ imgReads' = imgReads \ {r} /\ UNCHANGED <<imgBoard, imgBound, imgAsked, imgRoom>>
              /\ IF imgBound /\ r.img # imgLast
                 THEN /\ imgLast' = r.img
                      /\ imgShared' = Append(imgShared, [img |-> r.img, room |-> imgRoom, bound |-> imgBound])
                 ELSE UNCHANGED <<imgLast, imgShared>>
            BY <2>6 DEF HashesImage
        <3>2. r.img \in 1..2
            BY <1>2, <3>1 DEF ImagesInv
        <3>3. imgReads' \subseteq [n : Nat, img : 0..2]
            BY <1>2, <3>1 DEF ImagesInv
        <3>4. CASE imgBound /\ r.img # imgLast
            <4>1. imgBound = TRUE /\ imgLast' = r.img
                BY <1>2, <3>1, <3>4 DEF ImagesInv
            <4>2. imgShared' = Append(imgShared, [img |-> r.img, room |-> imgRoom, bound |-> TRUE])
                BY <3>1, <3>4, <4>1
            <4>3. /\ imgShared' \in Seq([img : 0..2, room : Nat, bound : {TRUE}]) /\ ImageSharedOnce'
                  /\ LastShared'.room <= imgRoom' /\ LastShared'.img = imgLast'
                BY <1>2, <3>1, <3>2, <3>4, <4>1, <4>2, ImageShared
            <4> QED
                BY <1>2, <3>1, <3>3, <4>3 DEF ImagesInv
        <3>5. CASE ~(imgBound /\ r.img # imgLast)
            <4>1. UNCHANGED <<imgLast, imgShared>>
                BY <3>1, <3>5
            <4> QED
                BY <1>2, <3>1, <3>3, <4>1 DEF ImagesInv, LastShared, ImageSharedOnce
        <3> QED
            BY <3>4, <3>5
    <2>7. CASE ForgetsImage
        <3>1. imgRoom' = imgRoom + 1 /\ UNCHANGED <<imgBoard, imgBound, imgReads, imgAsked, imgShared>>
            BY <2>7 DEF ForgetsImage
        <3>2. imgRoom' \in Nat
            BY <1>2, <3>1 DEF ImagesInv
        <3>3. imgShared # <<>> => LastShared.room <= imgRoom' /\ LastShared.room # imgRoom'
            <4>1. SUFFICES ASSUME imgShared # <<>> PROVE LastShared.room <= imgRoom' /\ LastShared.room # imgRoom'
                OBVIOUS
            <4>2. LastShared \in [img : 0..2, room : Nat, bound : {TRUE}]
                <5>1. Len(imgShared) \in 1..Len(imgShared)
                    BY <1>2, <4>1, EmptySeq DEF ImagesInv
                <5> QED
                    BY <1>2, <5>1, ElementOfSeq DEF ImagesInv, LastShared
            <4>3. LastShared.room \in Nat /\ imgRoom \in Nat /\ LastShared.room <= imgRoom
                BY <1>2, <4>1, <4>2 DEF ImagesInv
            <4> QED
                BY <3>1, <4>3
        <3>4. LastShared' = LastShared /\ ImageSharedOnce'
            BY <1>2, <3>1 DEF ImagesInv, LastShared, ImageSharedOnce
        <3> QED
            BY <1>2, <3>1, <3>2, <3>3, <3>4 DEF ImagesInv
    <2> QED
        BY <1>2, <2>1, <2>2, <2>3, <2>4, <2>5, <2>6, <2>7 DEF ImagesNext
<1>3. ImagesInv => ImageSharedOnce
    BY DEF ImagesInv
<1> QED
    BY <1>1, <1>2, <1>3, PTL DEF ImagesSpec

\* The three machines side by side: files stay bounded and agreed.
THEOREM FilesStay == TilesSpec /\ UrlsSpec /\ ImagesSpec => []FilesKept
<1>1. TilesAreTrue /\ UrlsAreKept /\ ImageSharedOnce => FilesKept
    BY DEF TilesAreTrue, UrlsAreKept, FilesKept
<1> QED
    BY <1>1, TilesTell, UrlsKept, ImagesShared, PTL
-----------------------------------------------------------------------------
(* The clips kept, and the settings of two tabs (Store).                   *)

\* Clips are numbered, each of no room or of the room its line is for; none was wiped.
ClipId == (0..3) \X Nat
\* What a store keeps, and the three things said of a line of clips.
ClipRecord == [room : 0..3, clips : Seq(ClipId)]
IsNumbered(line) == line \in Seq(ClipId) /\ \A c \in Of(line) : c[2] <= histClips
IsFrom(line, of) == \A c \in Of(line) : c[1] \in {0, of}
IsKept(line) == Of(line) \cap wiped = {}

\* The types of the history.
HistoryTypes ==
    /\ histClips \in Nat /\ sealed \in BOOLEAN
    /\ roomId \in 0..3 /\ now \in {0, roomId}
    /\ record \in ClipRecord
    /\ wiped \subseteq ClipId /\ \A c \in wiped : c[2] <= histClips
\* Of the line shown and of the stored one alike; and what is shown is of the room, once
\* the session has said which it is.
HistoryInv ==
    /\ HistoryTypes
    /\ IsNumbered(clips) /\ IsFrom(clips, roomId) /\ IsKept(clips)
    /\ IsNumbered(record.clips) /\ IsFrom(record.clips, record.room) /\ IsKept(record.clips)
    /\ ~sealed => IsFrom(clips, now)

\* What is stored afterwards: nothing, what was, or the line.
LEMMA Stored ==
    ASSUME NEW before, NEW r, NEW line, Persists(before, r, line)
    PROVE  record' \in {NoRecord, before, [room |-> r, clips |-> line]}
BY DEF Persists

\* The newest clips of a line with one more in front.
LEMMA Newest ==
    ASSUME NEW S, NEW s \in Seq(S), NEW e \in S, NEW k \in Nat, k <= Len(s) + 1
    PROVE  /\ SubSeq(<<e>> \o s, 1, k) \in Seq(S)
           /\ Of(SubSeq(<<e>> \o s, 1, k)) \subseteq Of(s) \cup {e}
<1>1. <<e>> \in Seq(S) /\ Len(<<e>>) = 1 /\ <<e>>[1] = e /\ Len(s) \in Nat
    BY LenProperties
<1>2. /\ <<e>> \o s \in Seq(S) /\ Len(<<e>> \o s) = 1 + Len(s)
      /\ \A i \in 1..(1 + Len(s)) : (<<e>> \o s)[i] = IF i <= 1 THEN <<e>>[i] ELSE s[i - 1]
    BY <1>1, ConcatProperties
<1>3. \A i \in 1..k : (<<e>> \o s)[i] \in S /\ (<<e>> \o s)[i] \in Of(s) \cup {e}
    <2>1. TAKE i \in 1..k
    <2>2. CASE i = 1
        BY <1>1, <1>2, <2>2
    <2>3. CASE i # 1
        <3>1. i - 1 \in 1..Len(s) /\ i \in 1..(1 + Len(s)) /\ ~(i <= 1)
            BY <1>1, <2>3
        <3>2. s[i - 1] \in S /\ s[i - 1] \in Of(s)
            BY <3>1, LenProperties DEF Of
        <3> QED
            BY <1>2, <3>1, <3>2
    <2> QED
        BY <2>2, <2>3
<1>4. /\ SubSeq(<<e>> \o s, 1, k) \in Seq(S)
      /\ Len(SubSeq(<<e>> \o s, 1, k)) = (IF 1 <= k THEN k - 1 + 1 ELSE 0)
      /\ \A i \in 1..(k - 1 + 1) : SubSeq(<<e>> \o s, 1, k)[i] = (<<e>> \o s)[1 + i - 1]
    BY <1>3, SubSeqProperties
<1>5. k - 1 + 1 = k /\ (\A i \in 1..k : 1 + i - 1 = i) /\ (1 <= k \/ k = 0)
    OBVIOUS
<1>6. \A i \in 1..k : SubSeq(<<e>> \o s, 1, k)[i] = (<<e>> \o s)[i]
    BY <1>4, <1>5
<1>7. DOMAIN SubSeq(<<e>> \o s, 1, k) \subseteq 1..k
    BY <1>4, <1>5, LenProperties
<1> QED
    BY <1>3, <1>4, <1>6, <1>7 DEF Of

\* There is nothing in the empty line.
LEMMA Nothing == Of(<<>>) = {} /\ <<>> \in Seq(ClipId) /\ IsNumbered(<<>>) /\ IsKept(<<>>)
                 /\ \A to : IsFrom(<<>>, to)
<1>1. <<>> \in Seq(ClipId) /\ DOMAIN <<>> = {}
    BY EmptySeq
<1>2. Of(<<>>) = {}
    BY <1>1 DEF Of
<1> QED
    BY <1>1, <1>2 DEF IsNumbered, IsKept, IsFrom

\* The fields of a record of clips, and its type.
LEMMA RecordOf ==
    /\ NoRecord.room = 0 /\ NoRecord.clips = <<>>
    /\ \A r, line : [room |-> r, clips |-> line].room = r /\ [room |-> r, clips |-> line].clips = line
BY DEF NoRecord
LEMMA RecordIn ==
    /\ NoRecord \in ClipRecord
    /\ \A r \in 0..3, line \in Seq(ClipId) : [room |-> r, clips |-> line] \in ClipRecord
<1>1. \A r \in 0..3, line \in Seq(ClipId) : [room |-> r, clips |-> line] \in ClipRecord
    BY DEF ClipRecord
<1>2. 0 \in 0..3 /\ <<>> \in Seq(ClipId)
    BY Nothing
<1> QED
    BY <1>1, <1>2 DEF NoRecord

\* A clip is added in front and the oldest is cut off.
LEMMA AddKeeps == ASSUME HistoryInv, AddsClip PROVE HistoryInv'
<1>1. /\ histClips' = histClips + 1 /\ UNCHANGED <<roomId, sealed, now, histMoves, wiped>>
    BY DEF AddsClip
<1> DEFINE new == <<now, histClips + 1>>
<1>2. histClips \in Nat /\ now \in 0..3 /\ new \in ClipId /\ clips \in Seq(ClipId) /\ MaxClipsKept \in Nat
    BY StoreAssumption DEF HistoryInv, HistoryTypes, IsNumbered, ClipId, StoreAssumption
<1>3. \E k \in Nat : k <= Len(clips) + 1 /\ clips' = SubSeq(<<new>> \o clips, 1, k)
    <2>1. Len(<<new>> \o clips) = Len(clips) + 1 /\ Len(clips) \in Nat
        <3>1. <<new>> \in Seq(ClipId) /\ Len(<<new>>) = 1
            BY <1>2
        <3> QED
            BY <1>2, <3>1, ConcatProperties, LenProperties
    <2> DEFINE k == IF Len(<<new>> \o clips) > MaxClipsKept THEN MaxClipsKept ELSE Len(<<new>> \o clips)
    <2>2. clips' = SubSeq(<<new>> \o clips, 1, k)
        BY <1>1 DEF AddsClip
    <2>3. k \in Nat /\ k <= Len(clips) + 1
        BY <1>2, <2>1
    <2> QED
        BY <2>2, <2>3
<1>4. clips' \in Seq(ClipId) /\ Of(clips') \subseteq Of(clips) \cup {new}
    BY <1>2, <1>3, Newest
<1>5. record' \in {NoRecord, record, [room |-> roomId, clips |-> clips']}
    BY Stored DEF AddsClip
<1>6. new[1] = now /\ new[2] = histClips + 1 /\ new \notin wiped
    BY <1>2 DEF HistoryInv, HistoryTypes
<1>7. \A c \in Of(clips) \cup Of(record.clips) \cup wiped : c[2] \in Nat /\ c[2] <= histClips
    <2>1. \A c \in Of(clips) \cup Of(record.clips) \cup wiped : c \in ClipId
        BY DEF HistoryInv, HistoryTypes, IsNumbered, Of
    <2> QED
        BY <2>1 DEF HistoryInv, HistoryTypes, IsNumbered, ClipId
<1>8. \A c \in Of(clips) \cup Of(record.clips) \cup wiped \cup {new} : c[2] <= histClips'
    BY <1>1, <1>2, <1>6, <1>7
<1>9. IsNumbered(clips)' /\ IsNumbered(record.clips)'
    <2>1. \A c \in Of(clips') : c[2] <= histClips'
        BY <1>4, <1>8
    <2>2. \A c \in Of(record.clips) : c[2] <= histClips'
        BY <1>8
    <2>3. \A c \in Of(record'.clips) : c[2] <= histClips'
        BY <1>5, <2>1, <2>2, RecordOf, Nothing
    <2>4. record'.clips \in Seq(ClipId)
        BY <1>4, <1>5, RecordOf, Nothing DEF HistoryInv, IsNumbered
    <2> QED
        BY <1>4, <2>1, <2>3, <2>4 DEF IsNumbered
<1>10. IsFrom(clips, roomId)' /\ IsFrom(record.clips, record.room)' /\ (~sealed => IsFrom(clips, now))'
    <2>1. (\A c \in Of(clips') : c[1] \in {0, roomId}) /\ (~sealed => \A c \in Of(clips') : c[1] \in {0, now})
        BY <1>4, <1>6 DEF HistoryInv, HistoryTypes, IsFrom
    <2>2. \A c \in Of(record'.clips) : c[1] \in {0, record'.room}
        BY <1>5, <2>1, RecordOf, Nothing DEF HistoryInv, IsFrom
    <2> QED
        BY <1>1, <2>1, <2>2 DEF IsFrom
<1>11. IsKept(clips)' /\ IsKept(record.clips)'
    <2>1. Of(clips') \cap wiped = {}
        BY <1>4, <1>6 DEF HistoryInv, IsKept
    <2>2. Of(record'.clips) \cap wiped = {}
        BY <1>5, <2>1, RecordOf, Nothing DEF HistoryInv, IsKept
    <2> QED
        BY <1>1, <2>1, <2>2 DEF IsKept
<1>12. HistoryTypes'
    <2>1. record' \in ClipRecord
        BY <1>4, <1>5, RecordIn DEF HistoryInv, HistoryTypes
    <2>2. histClips' \in Nat /\ \A c \in wiped' : c[2] <= histClips'
        BY <1>1, <1>2, <1>8
    <2> QED
        BY <1>1, <2>1, <2>2 DEF HistoryInv, HistoryTypes
<1> QED
    BY <1>9, <1>10, <1>11, <1>12 DEF HistoryInv

\* The line is emptied and what was in it wiped; what is stored is gone before.
LEMMA ClearKeeps ==
    ASSUME HistoryInv, NEW to \in 0..3, Clear, record' \in {NoRecord, [room |-> to, clips |-> <<>>]},
           roomId' \in 0..3, now' \in {0, roomId'}, UNCHANGED histClips
    PROVE  HistoryInv'
<1>1. clips' = <<>> /\ sealed' = FALSE /\ wiped' = wiped \cup Of(clips)
    BY DEF Clear, Wiped, Of
<1>2. record'.clips = <<>>
    BY RecordOf
<1>3. /\ IsNumbered(clips)' /\ IsFrom(clips, roomId)' /\ IsKept(clips)'
      /\ IsNumbered(record.clips)' /\ IsFrom(record.clips, record.room)' /\ IsKept(record.clips)'
      /\ (~sealed => IsFrom(clips, now))'
    BY <1>1, <1>2, Nothing DEF IsNumbered, IsFrom, IsKept
<1>4. HistoryTypes'
    <2>1. record' \in ClipRecord
        BY Nothing, RecordIn
    <2>2. wiped' \subseteq ClipId /\ \A c \in wiped' : c[2] <= histClips'
        BY <1>1 DEF HistoryInv, HistoryTypes, IsNumbered, Of
    <2> QED
        BY <1>1, <2>1, <2>2 DEF HistoryInv, HistoryTypes
<1> QED
    BY <1>3, <1>4 DEF HistoryInv

\* Every step of the history keeps it.
LEMMA HistoryKeeps == ASSUME HistoryInv, [HistoryNext]_historyVars PROVE HistoryInv'
<1>1. CASE UNCHANGED historyVars
    BY <1>1 DEF historyVars, HistoryInv, HistoryTypes, IsNumbered, IsFrom, IsKept
<1>2. CASE ClearsHistory
    <2>1. Clear /\ UNCHANGED <<roomId, now, histClips>>
        BY <1>2 DEF ClearsHistory
    <2>2. record' \in {NoRecord, [room |-> roomId, clips |-> <<>>]}
        BY <1>2, Stored DEF ClearsHistory, Removed
    <2>3. roomId \in 0..3 /\ now \in {0, roomId}
        BY DEF HistoryInv, HistoryTypes
    <2> QED
        BY <2>1, <2>2, <2>3, ClearKeeps
<1>3. ASSUME NEW to \in HistRoom, KeyChanged(to) PROVE HistoryInv'
    <2>1. now' = to /\ roomId' = to /\ to \in 0..3 /\ UNCHANGED histClips
        BY <1>3 DEF KeyChanged, NextId, HistRoom
    <2>2. CASE roomId \notin {0, to}
        <3>1. Clear /\ Persists(NoRecord, to, <<>>)
            BY <1>3, <2>1, <2>2 DEF KeyChanged, NextId, Removed
        <3>2. record' \in {NoRecord, [room |-> to, clips |-> <<>>]}
            BY <3>1, Stored
        <3> QED
            BY <2>1, <3>1, <3>2, ClearKeeps
    <2>3. CASE roomId \in {0, to}
        <3>1. sealed' = FALSE /\ UNCHANGED <<clips, wiped>> /\ Persists(record, to, clips)
            BY <1>3, <2>1, <2>3 DEF KeyChanged, NextId
        <3>2. record' \in {NoRecord, record, [room |-> to, clips |-> clips]}
            BY <3>1, Stored
        <3>3. \A c \in Of(clips) : c[1] \in {0, to}
            BY <2>3 DEF HistoryInv, IsFrom
        <3>4. IsFrom(clips, roomId)' /\ (~sealed => IsFrom(clips, now))'
            BY <2>1, <3>1, <3>3 DEF IsFrom
        <3>5. IsNumbered(clips)' /\ IsKept(clips)'
            BY <2>1, <3>1 DEF HistoryInv, IsNumbered, IsKept
        <3>6. \A c \in Of(record'.clips) : c[1] \in {0, record'.room}
            BY <3>2, <3>3, RecordOf, Nothing DEF HistoryInv, IsFrom
        <3>7. IsNumbered(record.clips)' /\ IsKept(record.clips)'
            <4>1. record'.clips \in {<<>>, record.clips, clips}
                BY <3>2, RecordOf
            <4>2. /\ IsNumbered(<<>>) /\ IsNumbered(record.clips) /\ IsNumbered(clips)
                  /\ IsKept(<<>>) /\ IsKept(record.clips) /\ IsKept(clips)
                BY Nothing DEF HistoryInv
            <4>3. IsNumbered(record'.clips) /\ IsKept(record'.clips)
                BY <4>1, <4>2
            <4>4. IsNumbered(record.clips)'
                BY <2>1, <4>3 DEF IsNumbered
            <4>5. IsKept(record.clips)'
                BY <3>1, <4>3 DEF IsKept
            <4> QED
                BY <4>4, <4>5
        <3>8. record' \in ClipRecord
            BY <2>1, <3>2, RecordIn DEF HistoryInv, HistoryTypes, IsNumbered
        <3>9. HistoryTypes'
            BY <2>1, <3>1, <3>8 DEF HistoryInv, HistoryTypes
        <3>10. IsFrom(record.clips, record.room)'
            BY <3>6 DEF IsFrom
        <3> QED
            BY <3>4, <3>5, <3>7, <3>9, <3>10 DEF HistoryInv
    <2> QED
        BY <2>2, <2>3
<1>4. CASE Reloads
    <2>1. /\ now' = 0 /\ roomId' = record.room /\ UNCHANGED <<histClips, wiped>>
          /\ clips' = (IF record.room = 0 THEN <<>> ELSE record.clips)
          /\ sealed' = (clips' # <<>>)
          /\ record' = (IF record.room = 0 THEN NoRecord ELSE record)
        BY <1>4 DEF Reloads
    <2>2. record.room \in 0..3
        BY DEF HistoryInv, HistoryTypes, ClipRecord
    <2>3. CASE record.room = 0
        <3>1. clips' = <<>> /\ record' = NoRecord /\ sealed' = FALSE /\ roomId' = 0
            BY <2>1, <2>3
        <3>2. /\ IsNumbered(clips)' /\ IsFrom(clips, roomId)' /\ IsKept(clips)'
              /\ IsNumbered(record.clips)' /\ IsFrom(record.clips, record.room)' /\ IsKept(record.clips)'
              /\ (~sealed => IsFrom(clips, now))'
            BY <3>1, RecordOf, Nothing DEF IsNumbered, IsFrom, IsKept
        <3>3. HistoryTypes'
            BY <2>1, <3>1, RecordIn DEF HistoryInv, HistoryTypes
        <3> QED
            BY <3>2, <3>3 DEF HistoryInv
    <2>4. CASE record.room # 0
        <3>1. clips' = record.clips /\ record' = record
            BY <2>1, <2>4
        <3>2. sealed' = FALSE => clips' = <<>>
            BY <2>1
        <3>3. (~sealed => IsFrom(clips, now))'
            BY <2>1, <3>2, Nothing DEF IsFrom
        <3>4. /\ IsNumbered(clips)' /\ IsFrom(clips, roomId)' /\ IsKept(clips)'
              /\ IsNumbered(record.clips)' /\ IsFrom(record.clips, record.room)' /\ IsKept(record.clips)'
            BY <2>1, <3>1 DEF HistoryInv, IsNumbered, IsFrom, IsKept
        <3>5. HistoryTypes'
            BY <2>1, <2>2, <3>1 DEF HistoryInv, HistoryTypes
        <3> QED
            BY <3>3, <3>4, <3>5 DEF HistoryInv
    <2> QED
        BY <2>3, <2>4
<1> QED
    BY <1>1, <1>2, <1>3, <1>4, AddKeeps DEF HistoryNext

\* And it holds at the start.
LEMMA HistoryStarts == ASSUME HistoryInit PROVE HistoryInv
<1>1. HistoryTypes
    <2>1. roomId = 0 /\ now = 0 /\ histClips = 0 /\ sealed = FALSE /\ wiped = {} /\ record = NoRecord
        BY DEF HistoryInit
    <2>2. roomId \in 0..3
        BY <2>1
    <2>3. sealed \in BOOLEAN
        BY <2>1
    <2> QED
        BY <2>1, <2>2, <2>3, RecordIn DEF HistoryTypes
<1>2. clips = <<>> /\ record = NoRecord
    BY DEF HistoryInit
<1> QED
    BY <1>1, <1>2, RecordOf, Nothing DEF HistoryInv, IsNumbered, IsFrom, IsKept

\* The history of a room is that room's and what was cleared stays so, though the browser
\* may refuse to write (history.js:153-163).
THEOREM HistoryStays == HistorySpec => []HistoryIsOfItsRoom
<1>1. HistoryInit => HistoryInv
    BY HistoryStarts
<1>2. HistoryInv /\ [HistoryNext]_historyVars => HistoryInv'
    BY HistoryKeeps
<1>3. HistoryInv => HistoryIsOfItsRoom
    BY DEF HistoryInv, HistoryIsOfItsRoom, ShownOfThisRoom, ClearedStaysCleared, Shown, IsFrom, IsKept, Of
<1> QED
    BY <1>1, <1>2, <1>3, PTL DEF HistorySpec
-----------------------------------------------------------------------------
\* The settings of two tabs.
Setting == [rung : Rung, remember : BOOLEAN]
SettingsTypes ==
    /\ disk \in Setting /\ settings \in [Tab -> Setting] /\ events \in [Tab -> Seq(Setting)]
    /\ binding \in [Tab -> BOOLEAN] /\ crossed \in BOOLEAN
\* Until writes cross, a tab has what is on disk or is still to hear it last.
Hearing(t) == IF events[t] = <<>> THEN settings[t] = disk ELSE events[t][Len(events[t])] = disk
\* The clipboard is read on the top rung alone; and the invariant of the settings.
Bound(t) == binding[t] = (settings[t].rung = "live")
SettingsInv ==
    /\ SettingsTypes
    /\ \A t \in Tab : Bound(t)
    /\ ~crossed => \A t \in Tab : Hearing(t)
    /\ NothingReverted /\ KeyForgotten

\* There are two tabs.
LEMMA Tabs == \A t \in Tab : Other(t) \in Tab /\ Other(t) # t /\ \A u \in Tab : u = t \/ u = Other(t)
BY DEF Tab, Other

\* A setting saved: one field on disk and in the tab, and an event for the other.
LEMMA SaveKeeps ==
    ASSUME SettingsInv, NEW t \in Tab, NEW name \in {"rung", "remember"}, NEW value,
           Sets(t), SaveSetting(t, name, value),
           [settings[t] EXCEPT ![name] = value] \in Setting, [disk EXCEPT ![name] = value] \in Setting
    PROVE  /\ disk' = [disk EXCEPT ![name] = value] /\ disk' \in Setting
           /\ settings' = [settings EXCEPT ![t] = [settings[t] EXCEPT ![name] = value]]
           /\ settings' \in [Tab -> Setting] /\ events' \in [Tab -> Seq(Setting)] /\ crossed' \in BOOLEAN
           /\ ~crossed' => ~crossed /\ settings[t] = disk /\ \A u \in Tab : Hearing(u)'
           /\ NothingReverted'
<1>1. /\ disk' = [disk EXCEPT ![name] = value]
      /\ settings' = [settings EXCEPT ![t][name] = value]
      /\ events' = (IF disk' = disk THEN events ELSE [events EXCEPT ![Other(t)] = Append(@, disk')])
      /\ chosen' = [chosen EXCEPT ![name] = value]
      /\ crossed' = (crossed \/ events[t] # <<>>)
    BY DEF SaveSetting, Merged, Sets
<1>2. settings' = [settings EXCEPT ![t] = [settings[t] EXCEPT ![name] = value]]
    BY <1>1
<1>3. disk' \in Setting /\ settings' \in [Tab -> Setting]
    BY <1>1, <1>2 DEF SettingsInv, SettingsTypes
<1>4. \A u \in Tab : events[u] \in Seq(Setting)
    BY DEF SettingsInv, SettingsTypes
<1>5. /\ Append(events[Other(t)], disk') \in Seq(Setting)
      /\ Append(events[Other(t)], disk') # <<>>
      /\ Append(events[Other(t)], disk')[Len(Append(events[Other(t)], disk'))] = disk'
    BY <1>3, <1>4, Tabs, AppendProperties, LenProperties
<1>6. events' \in [Tab -> Seq(Setting)]
    BY <1>1, <1>5 DEF SettingsInv, SettingsTypes
<1>7. ASSUME ~crossed' PROVE ~crossed /\ settings[t] = disk /\ \A u \in Tab : Hearing(u)'
    <2>1. ~crossed /\ events[t] = <<>>
        BY <1>1, <1>7
    <2>2. \A u \in Tab : Hearing(u)
        BY <2>1 DEF SettingsInv
    <2>3. settings[t] = disk
        BY <2>1, <2>2 DEF Hearing
    <2>4. settings'[t] = disk' /\ events'[t] = <<>>
        BY <1>1, <1>2, <2>1, <2>3, Tabs DEF SettingsInv, SettingsTypes
    <2>5. Hearing(t)'
        BY <2>4 DEF Hearing
    <2>6. Hearing(Other(t))'
        <3>1. settings'[Other(t)] = settings[Other(t)]
            BY <1>2, Tabs DEF SettingsInv, SettingsTypes
        <3>2. CASE disk' = disk
            BY <1>1, <2>2, <3>1, <3>2, Tabs DEF Hearing
        <3>3. CASE disk' # disk
            <4>1. events'[Other(t)] = Append(events[Other(t)], disk')
                BY <1>1, <3>3, Tabs DEF SettingsInv, SettingsTypes
            <4> QED
                BY <1>5, <4>1 DEF Hearing
        <3> QED
            BY <3>2, <3>3
    <2> QED
        BY <2>1, <2>3, <2>5, <2>6, Tabs
<1>8. NothingReverted'
    BY <1>1 DEF SettingsInv, NothingReverted
<1>9. crossed' \in BOOLEAN
    BY <1>1 DEF SettingsInv, SettingsTypes
<1> QED
    BY <1>1, <1>2, <1>3, <1>6, <1>7, <1>8, <1>9

\* Every step of the settings keeps it.
LEMMA SettingsKeep == ASSUME SettingsInv, [SettingsNext]_settingsVars PROVE SettingsInv'
<1>1. CASE UNCHANGED settingsVars
    BY <1>1 DEF settingsVars, SettingsInv, SettingsTypes, Bound, Hearing, NothingReverted, KeyForgotten
<1>2. ASSUME NEW t \in Tab, NEW rung \in Rung, SetsRung(t, rung) PROVE SettingsInv'
    <2>1. /\ Sets(t) /\ SaveSetting(t, "rung", rung) /\ binding' = [binding EXCEPT ![t] = rung = "live"]
          /\ UNCHANGED <<sessionOf, lastKey>>
        BY <1>2 DEF SetsRung
    <2>2. \A u \in Tab : settings[u] \in Setting
        BY DEF SettingsInv, SettingsTypes
    <2>3. \A s \in Setting : /\ [s EXCEPT !["rung"] = rung] \in Setting
                             /\ [s EXCEPT !["rung"] = rung].rung = rung
                             /\ [s EXCEPT !["rung"] = rung].remember = s.remember
        BY DEF Setting
    <2>4. /\ disk' = [disk EXCEPT !["rung"] = rung] /\ disk' \in Setting
          /\ settings' = [settings EXCEPT ![t] = [settings[t] EXCEPT !["rung"] = rung]]
          /\ settings' \in [Tab -> Setting] /\ events' \in [Tab -> Seq(Setting)] /\ crossed' \in BOOLEAN
          /\ ~crossed' => ~crossed /\ \A u \in Tab : Hearing(u)'
          /\ NothingReverted'
        BY <2>1, <2>2, <2>3, SaveKeeps DEF SettingsInv, SettingsTypes
    <2>5. binding' \in [Tab -> BOOLEAN]
        BY <2>1 DEF SettingsInv, SettingsTypes
    <2>6. ASSUME NEW u \in Tab PROVE Bound(u)'
        <3>1. CASE u = t
            BY <2>1, <2>2, <2>3, <2>4, <3>1 DEF SettingsInv, SettingsTypes, Bound
        <3>2. CASE u # t
            BY <2>1, <2>4, <3>2 DEF SettingsInv, SettingsTypes, Bound
        <3> QED
            BY <3>1, <3>2
    <2>7. KeyForgotten'
        BY <2>1, <2>3, <2>4 DEF SettingsInv, SettingsTypes, KeyForgotten
    <2> QED
        BY <2>4, <2>5, <2>6, <2>7 DEF SettingsInv, SettingsTypes
<1>3. ASSUME NEW t \in Tab, SetsRemember(t) PROVE SettingsInv'
    <2> DEFINE value == ~settings[t].remember
    <2>1. /\ Sets(t) /\ SaveSetting(t, "remember", value) /\ lastKey' = (IF value THEN sessionOf[t] ELSE 0)
          /\ UNCHANGED <<binding, sessionOf>>
        BY <1>3 DEF SetsRemember, KeyAfter
    <2>2. (\A u \in Tab : settings[u] \in Setting) /\ value \in BOOLEAN
        BY DEF SettingsInv, SettingsTypes, Setting
    <2> HIDE DEF value
    <2>3. \A s \in Setting : /\ [s EXCEPT !["remember"] = value] \in Setting
                             /\ [s EXCEPT !["remember"] = value].remember = value
                             /\ [s EXCEPT !["remember"] = value].rung = s.rung
        BY <2>2 DEF Setting
    <2>4. /\ disk' = [disk EXCEPT !["remember"] = value] /\ disk' \in Setting
          /\ settings' = [settings EXCEPT ![t] = [settings[t] EXCEPT !["remember"] = value]]
          /\ settings' \in [Tab -> Setting] /\ events' \in [Tab -> Seq(Setting)] /\ crossed' \in BOOLEAN
          /\ ~crossed' => ~crossed /\ \A u \in Tab : Hearing(u)'
          /\ NothingReverted'
        BY <2>1, <2>2, <2>3, SaveKeeps DEF SettingsInv, SettingsTypes
    <2>6. ASSUME NEW u \in Tab PROVE Bound(u)'
        <3>1. CASE u = t
            BY <2>1, <2>2, <2>3, <2>4, <3>1 DEF SettingsInv, SettingsTypes, Bound
        <3>2. CASE u # t
            BY <2>1, <2>4, <3>2 DEF SettingsInv, SettingsTypes, Bound
        <3> QED
            BY <3>1, <3>2
    <2>7. KeyForgotten'
        BY <2>1, <2>3, <2>4 DEF SettingsInv, SettingsTypes, KeyForgotten
    <2> QED
        BY <2>1, <2>4, <2>6, <2>7 DEF SettingsInv, SettingsTypes
<1>4. ASSUME NEW t \in Tab, NEW key \in {1, 2}, OpensKey(t, key) PROVE SettingsInv'
    <2>1. /\ crossed' = (crossed \/ events[t] # <<>>)
          /\ lastKey' = (IF settings[t].remember THEN key ELSE 0)
          /\ UNCHANGED <<settings, disk, events, binding, chosen>>
        BY <1>4 DEF OpensKey, Sets
    <2>2. KeyForgotten'
        BY <2>1 DEF SettingsInv, KeyForgotten, Hearing
    <2>3. SettingsTypes'
        BY <2>1 DEF SettingsInv, SettingsTypes
    <2>4. NothingReverted' /\ (\A u \in Tab : Bound(u)') /\ (~crossed' => \A u \in Tab : Hearing(u)')
        BY <2>1 DEF SettingsInv, NothingReverted, Bound, Hearing
    <2> QED
        BY <2>2, <2>3, <2>4 DEF SettingsInv
<1>5. ASSUME NEW t \in Tab, HearsSettings(t) PROVE SettingsInv'
    <2> DEFINE saved == Head(events[t])
    <2>1. /\ events[t] # <<>> /\ settings' = [settings EXCEPT ![t] = saved]
          /\ binding' = [binding EXCEPT ![t] = IF saved.rung = settings[t].rung THEN @ ELSE saved.rung = "live"]
          /\ events' = [events EXCEPT ![t] = Tail(@)]
          /\ UNCHANGED <<disk, sessionOf, lastKey, chosen, crossed, sets>>
        BY <1>5 DEF HearsSettings, Applies
    <2>2. events[t] \in Seq(Setting)
        BY DEF SettingsInv, SettingsTypes
    <2>3. /\ saved \in Setting /\ Tail(events[t]) \in Seq(Setting) /\ saved = events[t][1]
          /\ Len(Tail(events[t])) = Len(events[t]) - 1
          /\ \A i \in 1..Len(Tail(events[t])) : Tail(events[t])[i] = events[t][i + 1]
        BY <2>1, <2>2, HeadTailProperties
    <2>4. Len(events[t]) \in Nat /\ Len(events[t]) # 0
        BY <2>1, <2>2, EmptySeq, LenProperties
    <2> HIDE DEF saved
    <2>5. events' \in [Tab -> Seq(Setting)] /\ settings' \in [Tab -> Setting] /\ binding' \in [Tab -> BOOLEAN]
        BY <2>1, <2>3 DEF SettingsInv, SettingsTypes
    <2>6. ASSUME ~crossed, NEW u \in Tab PROVE Hearing(u)'
        <3>0. Hearing(u)
            BY <2>6 DEF SettingsInv
        <3>1. CASE u # t
            BY <2>1, <3>0, <3>1 DEF SettingsInv, SettingsTypes, Hearing
        <3>2. CASE u = t
            <4>1. events'[t] = Tail(events[t]) /\ settings'[t] = saved /\ events[t][Len(events[t])] = disk
                BY <2>1, <3>0, <3>2 DEF SettingsInv, SettingsTypes, Hearing
            <4>2. CASE Tail(events[t]) = <<>>
                <5>1. Len(events[t]) = 1
                    <6>1. Len(Tail(events[t])) = 0
                        BY <2>3, <4>2, EmptySeq
                    <6> QED
                        BY <2>3, <2>4, <6>1
                <5> QED
                    BY <2>1, <2>3, <3>2, <4>1, <4>2, <5>1 DEF Hearing
            <4>3. CASE Tail(events[t]) # <<>>
                <5>1. Len(Tail(events[t])) \in 1..Len(Tail(events[t]))
                    BY <2>3, <2>4, <4>3, EmptySeq, LenProperties
                <5>2. Len(Tail(events[t])) + 1 = Len(events[t])
                    BY <2>3, <2>4
                <5>3. Tail(events[t])[Len(Tail(events[t]))] = disk
                    BY <2>3, <4>1, <5>1, <5>2
                <5> QED
                    BY <2>1, <3>2, <4>1, <4>3, <5>3 DEF Hearing
            <4> QED
                BY <4>2, <4>3
        <3> QED
            BY <3>1, <3>2
    <2>7. ASSUME NEW u \in Tab PROVE Bound(u)'
        BY <2>1, <2>3 DEF SettingsInv, SettingsTypes, Bound
    <2> QED
        BY <2>1, <2>5, <2>6, <2>7 DEF SettingsInv, SettingsTypes, NothingReverted, KeyForgotten
<1>6. ASSUME NEW t \in Tab, Restores(t) PROVE SettingsInv'
    <2>1. /\ settings' = [settings EXCEPT ![t] = disk] /\ events' = [events EXCEPT ![t] = <<>>]
          /\ binding' = [binding EXCEPT ![t] = disk.rung = "live"]
          /\ UNCHANGED <<disk, sessionOf, lastKey, chosen, crossed>>
        BY <1>6 DEF Restores
    <2>2. SettingsTypes'
        BY <2>1, EmptySeq DEF SettingsInv, SettingsTypes
    <2>3. ASSUME NEW u \in Tab PROVE Bound(u)' /\ (~crossed => Hearing(u)')
        BY <2>1 DEF SettingsInv, SettingsTypes, Bound, Hearing
    <2> QED
        BY <2>1, <2>2, <2>3 DEF SettingsInv, NothingReverted, KeyForgotten
<1> QED
    BY <1>1, <1>2, <1>3, <1>4, <1>5, <1>6 DEF SettingsNext

\* What tabs share is what the user last asked for, in all of them, whatever events are
\* still to be heard (state.js:121-152).
THEOREM SettingsStay == SettingsSpec => []SettingsAgree
<1>1. SettingsInit => SettingsInv
    <2>1. [rung |-> "live", remember |-> TRUE] \in Setting /\ <<>> \in Seq(Setting)
        BY EmptySeq DEF Setting, Rung
    <2>2. SUFFICES ASSUME SettingsInit PROVE SettingsInv
        OBVIOUS
    <2>3. disk = [rung |-> "live", remember |-> TRUE] /\ settings = [t \in Tab |-> disk] /\ chosen = disk
          /\ events = [t \in Tab |-> <<>>] /\ binding = [t \in Tab |-> TRUE] /\ lastKey = 1
        BY <2>2 DEF SettingsInit
    <2>4. crossed \in BOOLEAN
        BY <2>2 DEF SettingsInit
    <2>5. SettingsTypes
        BY <2>1, <2>3, <2>4 DEF SettingsTypes
    <2>6. \A t \in Tab : Bound(t) /\ Hearing(t)
        BY <2>1, <2>3 DEF Bound, Hearing
    <2>7. NothingReverted /\ KeyForgotten
        BY <2>3 DEF NothingReverted, KeyForgotten
    <2> QED
        BY <2>5, <2>6, <2>7 DEF SettingsInv
<1>2. SettingsInv /\ [SettingsNext]_settingsVars => SettingsInv'
    BY SettingsKeep
<1>3. SettingsInv => SettingsAgree
    BY DEF SettingsInv, SettingsAgree, TabsAgree, Bound, Hearing
<1> QED
    BY <1>1, <1>2, <1>3, PTL DEF SettingsSpec

\* Both stores side by side.
THEOREM StoreStays == HistorySpec /\ SettingsSpec => []StoreAgrees
BY HistoryStays, SettingsStay, PTL DEF StoreAgrees
-----------------------------------------------------------------------------
(* The dialogs (Shell).                                                    *)

\* The types of the dialogs; the page is held once by a dialog and once by the gate.
DialogsCounted == dialog \in Nat /\ dialogs \in Nat /\ gates \in Nat /\ dialog <= dialogs
PageFlags == gateUp \in BOOLEAN /\ qrUp \in BOOLEAN /\ inert \in BOOLEAN /\ overlapped \in BOOLEAN
DepthCounts == inertDepth = (IF dialog # 0 THEN 1 ELSE 0) + (IF gateUp THEN 1 ELSE 0)
\* The invariant: what is held is what stands before the page, and all else has answered.
DialogsInv ==
    /\ DialogsCounted /\ PageFlags /\ DepthCounts
    /\ Covered /\ qrUp => overlapped
    /\ InertWhileCovered
    /\ EveryDialogSettles

\* What holding and releasing the page comes to.
LEMMA HoldsPage ==
    ASSUME inertDepth \in Int, inert \in BOOLEAN, NEW again \in BOOLEAN, Holds(again)
    PROVE  /\ inertDepth' = (IF again THEN inertDepth ELSE inertDepth + 1)
           /\ inert' = (IF again THEN inertDepth = 1 \/ inert ELSE inertDepth = 0 \/ inert)
<1>1. CASE again
    <2>1. Shallower(<<inertDepth, inert>>) = <<inertDepth - 1, inertDepth # 1 /\ inert>>
        BY DEF Shallower
    <2>2. Inert(Deeper(<<inertDepth - 1, inertDepth # 1 /\ inert>>))
        BY <1>1, <2>1 DEF Holds
    <2>3. /\ inertDepth' = (inertDepth - 1) + 1
          /\ inert' = (inertDepth - 1 = 0 \/ (inertDepth # 1 /\ inert))
        BY <2>2 DEF Inert, Deeper
    <2>4. (inertDepth - 1) + 1 = inertDepth /\ (inertDepth - 1 = 0) = (inertDepth = 1)
        OBVIOUS
    <2>5. inert' = (inertDepth = 1 \/ inert)
        BY <2>3, <2>4
    <2> QED
        BY <1>1, <2>3, <2>4, <2>5
<1>2. CASE ~again
    BY <1>2 DEF Holds, Inert, Deeper
<1> QED
    BY <1>1, <1>2
\* And what releasing it comes to.
LEMMA ReleasesPage ==
    ASSUME Releases
    PROVE  inertDepth' = inertDepth - 1 /\ inert' = (inertDepth # 1 /\ inert)
BY DEF Releases, Inert, Shallower

\* Every step of the dialogs keeps it.
LEMMA DialogsKeep == ASSUME DialogsInv, [ModalNext]_modalVars PROVE DialogsInv'
<1>1. CASE UNCHANGED modalVars
    BY <1>1 DEF modalVars, DialogsInv, DialogsCounted, PageFlags, DepthCounts, InertWhileCovered, EveryDialogSettles, Covered
<1>2. CASE ModalNext
    <2>1. overlapped' = ((Covered' /\ qrUp') \/ ((Covered' \/ qrUp') /\ overlapped))
        BY <1>2 DEF ModalNext
    <2>a. dialog \in Nat /\ inertDepth \in Int /\ inert \in BOOLEAN /\ gateUp \in BOOLEAN
        BY DEF DialogsInv, DialogsCounted, DepthCounts, PageFlags
    <2>2. CASE ShowsDialog
        <3>1. /\ dialogs' = dialogs + 1 /\ dialog' = dialogs + 1 /\ UNCHANGED <<gateUp, qrUp, gates>>
              /\ settled' = (IF dialog = 0 THEN settled ELSE settled \cup {dialog})
              /\ inertDepth' = (IF dialog # 0 THEN inertDepth ELSE inertDepth + 1)
              /\ inert' = (IF dialog # 0 THEN inertDepth = 1 \/ inert ELSE inertDepth = 0 \/ inert)
            BY <2>2, <2>a, HoldsPage DEF ShowsDialog, Replaced
        <3>2. EveryDialogSettles'
            <4>1. SUFFICES ASSUME NEW n \in 1..dialogs', n \notin settled' PROVE n = dialog'
                BY DEF EveryDialogSettles
            <4>2. CASE n \in 1..dialogs
                BY <3>1, <4>1, <4>2 DEF DialogsInv, DialogsCounted, EveryDialogSettles
            <4>3. CASE n \notin 1..dialogs
                BY <3>1, <4>3 DEF DialogsInv, DialogsCounted
            <4> QED
                BY <4>2, <4>3
        <3>3. InertWhileCovered' /\ (Covered' /\ qrUp' => overlapped')
            BY <2>1, <3>1 DEF DialogsInv, PageFlags, DepthCounts, DialogsCounted, InertWhileCovered, Covered
        <3>4. DialogsCounted'
            BY <3>1 DEF DialogsInv, DialogsCounted
        <3>5. PageFlags'
            BY <2>1, <3>1 DEF DialogsInv, PageFlags
        <3>6. DepthCounts'
            BY <3>1 DEF DialogsInv, DialogsCounted, PageFlags, DepthCounts
        <3> QED
            BY <3>4, <3>5, <3>6, <3>1, <3>2, <3>3 DEF DialogsInv
    <2>3. CASE ClosesDialog
        <3>1. /\ dialog # 0 /\ dialog' = 0 /\ settled' = settled \cup {dialog}
              /\ inertDepth' = inertDepth - 1 /\ inert' = (inertDepth # 1 /\ inert)
              /\ UNCHANGED <<gateUp, qrUp, dialogs, gates>>
            BY <2>3, ReleasesPage DEF ClosesDialog
        <3>2. EveryDialogSettles'
            BY <3>1 DEF DialogsInv, EveryDialogSettles
        <3>3. InertWhileCovered' /\ (Covered' /\ qrUp' => overlapped')
            BY <2>1, <3>1 DEF DialogsInv, PageFlags, DepthCounts, DialogsCounted, InertWhileCovered, Covered
        <3>4. DialogsCounted'
            BY <3>1 DEF DialogsInv, DialogsCounted
        <3>5. PageFlags'
            BY <2>1, <3>1 DEF DialogsInv, PageFlags
        <3>6. DepthCounts'
            BY <3>1 DEF DialogsInv, DialogsCounted, PageFlags, DepthCounts
        <3> QED
            BY <3>4, <3>5, <3>6, <3>1, <3>2, <3>3 DEF DialogsInv
    <2>4. CASE RaisesGate
        <3>1. /\ gates' = gates + 1 /\ gateUp' = TRUE /\ UNCHANGED <<dialog, qrUp, dialogs, settled>>
              /\ inertDepth' = (IF gateUp THEN inertDepth ELSE inertDepth + 1)
              /\ inert' = (IF gateUp THEN inertDepth = 1 \/ inert ELSE inertDepth = 0 \/ inert)
            BY <2>4, <2>a, HoldsPage DEF RaisesGate
        <3>3. InertWhileCovered' /\ (Covered' /\ qrUp' => overlapped')
            BY <2>1, <3>1 DEF DialogsInv, PageFlags, DepthCounts, DialogsCounted, InertWhileCovered, Covered
        <3>4. DialogsCounted'
            BY <3>1 DEF DialogsInv, DialogsCounted
        <3>5. PageFlags'
            BY <2>1, <3>1 DEF DialogsInv, PageFlags
        <3>6. DepthCounts'
            BY <3>1 DEF DialogsInv, DialogsCounted, PageFlags, DepthCounts
        <3> QED
            BY <3>4, <3>5, <3>6, <3>1, <3>3 DEF DialogsInv, EveryDialogSettles
    <2>5. CASE DropsGate
        <3>1. /\ gateUp /\ gateUp' = FALSE /\ UNCHANGED <<dialog, qrUp, dialogs, gates, settled>>
              /\ inertDepth' = inertDepth - 1 /\ inert' = (inertDepth # 1 /\ inert)
            BY <2>5, ReleasesPage DEF DropsGate
        <3>3. InertWhileCovered' /\ (Covered' /\ qrUp' => overlapped')
            BY <2>1, <3>1 DEF DialogsInv, PageFlags, DepthCounts, DialogsCounted, InertWhileCovered, Covered
        <3>4. DialogsCounted'
            BY <3>1 DEF DialogsInv, DialogsCounted
        <3>5. PageFlags'
            BY <2>1, <3>1 DEF DialogsInv, PageFlags
        <3>6. DepthCounts'
            BY <3>1 DEF DialogsInv, DialogsCounted, PageFlags, DepthCounts
        <3> QED
            BY <3>4, <3>5, <3>6, <3>1, <3>3 DEF DialogsInv, EveryDialogSettles
    <2>6. CASE ShowsQr \/ ClosesQr
        <3>1. /\ \/ (gateUp => ~inert) /\ qrUp' = TRUE /\ inert' = TRUE
                 \/ qrUp /\ qrUp' = FALSE /\ inert' = FALSE
              /\ UNCHANGED <<dialog, gateUp, inertDepth, dialogs, gates, settled>>
            BY <2>6 DEF ShowsQr, ClosesQr
        <3>3. InertWhileCovered' /\ (Covered' /\ qrUp' => overlapped')
            BY <2>1, <3>1 DEF DialogsInv, PageFlags, DepthCounts, DialogsCounted, InertWhileCovered, Covered
        <3>4. DialogsCounted'
            BY <3>1 DEF DialogsInv, DialogsCounted
        <3>5. PageFlags'
            BY <2>1, <3>1 DEF DialogsInv, PageFlags
        <3>6. DepthCounts'
            BY <3>1 DEF DialogsInv, DialogsCounted, PageFlags, DepthCounts
        <3> QED
            BY <3>4, <3>5, <3>6, <3>1, <3>3 DEF DialogsInv, EveryDialogSettles
    <2> QED
        BY <1>2, <2>2, <2>3, <2>4, <2>5, <2>6 DEF ModalNext
<1> QED
    BY <1>1, <1>2

\* modal.js:83-119, for any number of dialogs and gates: the page is out of reach exactly
\* while something stands before it, and every dialog that is gone has answered.
THEOREM DialogsAnswer == ModalSpec => []DialogsSettle
<1>1. ModalInit => DialogsInv
    <2>1. ModalInit => DialogsCounted /\ PageFlags /\ DepthCounts
        <3>1. ModalInit => DialogsCounted /\ DepthCounts
            BY DEF ModalInit, DialogsCounted, DepthCounts
        <3>2. ModalInit => gateUp = FALSE /\ qrUp = FALSE /\ inert = FALSE /\ overlapped = FALSE
            BY DEF ModalInit
        <3> QED
            BY <3>1, <3>2 DEF PageFlags
    <2>2. ModalInit => EveryDialogSettles
        BY DEF ModalInit, EveryDialogSettles
    <2> QED
        BY <2>1, <2>2 DEF ModalInit, DialogsInv, InertWhileCovered, Covered
<1>2. DialogsInv /\ [ModalNext]_modalVars => DialogsInv'
    BY DialogsKeep
<1>3. DialogsInv => DialogsSettle
    BY DEF DialogsInv, DialogsSettle
<1> QED
    BY <1>1, <1>2, <1>3, PTL DEF ModalSpec
-----------------------------------------------------------------------------
(* The roster and the banners (Notices).                                   *)

\* The ids a relay tells of, those of other devices, and those present.
Ids == (Others \cup {"self"}) \X {"temp", "own"}
OthersIds == Others \X {"temp", "own"}
Present == Members(devices, "out")
Place == {"out", "temp", "own"}

\* The types of the roster; a pipe that is up has a place in the room.
RosterTypes ==
    /\ devices \in [Others -> Place] /\ self \in Place
    /\ pipe \in {"none", "down", "up"} /\ (pipe = "up" <=> self # "out")
    /\ frames \in Seq(SUBSET Ids) /\ (pipe # "up" => frames = <<>>)
    /\ knownIds \in (SUBSET Ids) \cup {NoRoster} /\ (pipe = "none" => knownIds = NoRoster)

\* What is heard last is the room.
HeardLast ==
    pipe = "up" => IF frames = <<>> THEN knownIds = Room /\ peers = Cardinality(Room)
                   ELSE frames[Len(frames)] = Room

\* Arrivals are heeded while the pipe is up, or once a roster was heard.
Heeds == pipe = "up" \/ knownIds # NoRoster
\* An owed arrival is missing from what is known, or from what is still to be heard.
Missing(x) == (knownIds # NoRoster /\ x \notin knownIds) \/ \E f \in Of(frames) : x \notin f
OwedMissing == Heeds => \A x \in owed : x \in Present /\ Missing(x)
\* What stands is in all of it.
Everywhere(x) == (knownIds # NoRoster => x \in knownIds) /\ \A f \in Of(frames) : x \in f
StandingEverywhere == Heeds => \A x \in standing \ {Provisional} : x \in Present /\ Everywhere(x)
\* A doubt is of a locked room nobody is known in; nothing is announced off the pipe.
Doubted == /\ doubt => locked /\ ~verified /\ peers <= 1
           /\ pipe = "none" => ~doubt
           /\ locked \in BOOLEAN /\ verified \in BOOLEAN /\ doubt \in BOOLEAN
Crying == NoCryWolf /\ (pipe # "up" => announced = {})

\* The invariant of the roster.
RosterInv == RosterTypes /\ HeardLast /\ OwedMissing /\ StandingEverywhere /\ Doubted /\ Crying

\* Who is in a room: the others, and this device under one of its two ids.
LEMMA MembersAre ==
    ASSUME NEW d \in [Others -> Place], NEW s \in Place
    PROVE  /\ Members(d, s) \in SUBSET Ids
           /\ Members(d, s) \cap OthersIds = Members(d, "out")
           /\ Members(d, "out") = {} => \A o \in Others : d[o] = "out"
           /\ s # "out" => <<"self", s>> \in Members(d, s) /\ Members(d, s) \subseteq Members(d, "out") \cup {<<"self", s>>}
           /\ Provisional \notin OthersIds /\ <<"self", s>> \notin OthersIds
           /\ NoRoster \notin SUBSET Ids
<1>1. "self" \notin Others
    BY NoticesAssumption DEF NoticesAssumption
<1>2. Members(d, "out") \subseteq OthersIds /\ Members(d, "out") \subseteq Ids
    BY DEF Members, OthersIds, Ids, Place
<1>3. Members(d, s) = Members(d, "out") \cup (IF s = "out" THEN {} ELSE {<<"self", s>>})
    BY DEF Members
<1>4. Provisional \notin OthersIds /\ <<"self", s>> \notin OthersIds
    BY <1>1 DEF Provisional, OthersIds
<1>5. s # "out" => <<"self", s>> \in Ids
    BY DEF Ids, Place
<1>6. <<"none", "none">> \notin Ids
    BY DEF Ids
<1>7. NoRoster \notin SUBSET Ids
    BY <1>6 DEF NoRoster
<1>8. Members(d, "out") = {} => \A o \in Others : d[o] = "out"
    BY DEF Members
<1> QED
    BY <1>2, <1>3, <1>4, <1>5, <1>7, <1>8

\* There are finitely many ids, since there are finitely many others.
LEMMA IdsFinite == IsFiniteSet(Ids)
<1>1. IsFiniteSet(Others \cup {"self"})
    BY NoticesAssumption, FS_AddElement DEF NoticesAssumption
<1>2. IsFiniteSet({"temp"} \cup {"own"})
    BY FS_AddElement, FS_Singleton
<1>3. {"temp", "own"} = {"temp"} \cup {"own"}
    OBVIOUS
<1> QED
    BY <1>1, <1>2, <1>3, FS_Product DEF Ids

\* The room is a roster.
LEMMA RoomIs ==
    ASSUME RosterTypes
    PROVE  Room \in SUBSET Ids /\ Room \cap OthersIds = Present /\ Room # NoRoster
BY MembersAre DEF RosterTypes, Room, Present

\* Other devices come, are renamed and go: what they were told last was the room before.
LEMMA BecomesKeeps ==
    ASSUME RosterInv, NEW o \in Others, NEW place \in Place, Becomes(o, place)
    PROVE  RosterInv'
<1> DEFINE those == Members(devices', self')
<1>1. /\ devices' \in [Others -> Place]
      /\ frames' = (IF pipe = "up" THEN Append(frames, those) ELSE frames)
      /\ standing' = standing \cap those
      /\ owed' = (owed \cap those) \cup (IF pipe = "up" THEN those \ Room ELSE {})
      /\ UNCHANGED <<self, pipe, knownIds, peers, locked, verified, lockDoubt, doubt, announced>>
    BY DEF Becomes, Told, lockVars, RosterInv, RosterTypes
<1>2. those \in SUBSET Ids /\ those \cap OthersIds = Present' /\ those # NoRoster /\ those = Room'
    BY <1>1, MembersAre DEF RosterInv, RosterTypes, Present, Room
<1>3. Present \subseteq OthersIds
    BY RoomIs DEF RosterInv
<1> HIDE DEF those
<1>4. CASE pipe = "up"
    <2>1. /\ frames' = Append(frames, those) /\ frames' \in Seq(SUBSET Ids) /\ frames' # <<>>
          /\ Of(frames') = Of(frames) \cup {those} /\ frames'[Len(frames')] = those
        BY <1>1, <1>2, <1>4, LineLonger DEF RosterInv, RosterTypes
    <2>2. RosterTypes' /\ HeardLast'
        BY <1>1, <1>2, <1>4, <2>1 DEF RosterInv, RosterTypes, HeardLast
    <2>3. \A x : x \notin Room => Missing(x)'
        <3>1. CASE frames = <<>>
            BY <1>1, <1>4, <3>1, RoomIs DEF RosterInv, HeardLast, Missing
        <3>2. CASE frames # <<>>
            <4>1. Room \in Of(frames)
                <5>1. Len(frames) \in DOMAIN frames /\ frames[Len(frames)] = Room
                    BY <1>4, <3>2, EmptySeq, LenProperties DEF RosterInv, RosterTypes, HeardLast
                <5> QED
                    BY <5>1 DEF Of
            <4> QED
                BY <2>1, <4>1 DEF Missing
        <3> QED
            BY <3>1, <3>2
    <2>4. OwedMissing'
        <3>1. SUFFICES ASSUME NEW x \in owed' PROVE x \in Present' /\ Missing(x)'
            BY DEF OwedMissing
        <3>2. CASE x \in owed /\ x \in those
            <4>1. x \in Present /\ Missing(x)
                BY <1>4, <3>2 DEF RosterInv, OwedMissing, Heeds
            <4>2. x \in Present'
                BY <1>2, <1>3, <3>2, <4>1
            <4>3. Missing(x)'
                BY <1>1, <2>1, <4>1 DEF Missing
            <4> QED
                BY <4>2, <4>3
        <3>3. CASE x \in those \ Room
            <4>1. x \in OthersIds
                <5>1. those \subseteq Present' \cup {<<"self", self>>} /\ <<"self", self>> \in Room
                    BY <1>1, <1>2, <1>4, MembersAre DEF RosterInv, RosterTypes, Present, Room
                <5> QED
                    BY <1>2, <3>3, <5>1
            <4> QED
                BY <1>2, <2>3, <3>3, <4>1
        <3> QED
            BY <1>1, <3>1, <3>2, <3>3
    <2>5. StandingEverywhere'
        <3>1. SUFFICES ASSUME NEW x \in standing', x # Provisional PROVE x \in Present' /\ Everywhere(x)'
            BY DEF StandingEverywhere
        <3>2. x \in standing /\ x \in those
            BY <1>1
        <3>3. x \in Present /\ Everywhere(x)
            BY <1>4, <3>1, <3>2 DEF RosterInv, StandingEverywhere, Heeds
        <3> QED
            BY <1>1, <1>2, <1>3, <2>1, <3>2, <3>3 DEF Everywhere
    <2>6. Doubted' /\ Crying'
        BY <1>1 DEF RosterInv, Doubted, Crying, NoCryWolf
    <2> QED
        BY <2>2, <2>4, <2>5, <2>6 DEF RosterInv
<1>5. CASE pipe # "up"
    <2>1. frames' = frames /\ owed' = owed \cap those
        BY <1>1, <1>5
    <2>2. RosterTypes' /\ HeardLast'
        BY <1>1, <1>5, <2>1 DEF RosterInv, RosterTypes, HeardLast
    <2>3. OwedMissing'
        <3>1. SUFFICES ASSUME NEW x \in owed', Heeds' PROVE x \in Present' /\ Missing(x)'
            BY DEF OwedMissing
        <3>2. x \in Present /\ Missing(x) /\ x \in those
            BY <1>1, <2>1, <3>1 DEF RosterInv, OwedMissing, Heeds
        <3> QED
            BY <1>1, <1>2, <1>3, <2>1, <3>2 DEF Missing
    <2>4. StandingEverywhere'
        <3>1. SUFFICES ASSUME NEW x \in standing', x # Provisional, Heeds' PROVE x \in Present' /\ Everywhere(x)'
            BY DEF StandingEverywhere
        <3>2. x \in Present /\ Everywhere(x) /\ x \in those
            BY <1>1, <3>1 DEF RosterInv, StandingEverywhere, Heeds
        <3> QED
            BY <1>1, <1>2, <1>3, <2>1, <3>2 DEF Everywhere
    <2>5. Doubted' /\ Crying'
        BY <1>1 DEF RosterInv, Doubted, Crying, NoCryWolf
    <2> QED
        BY <2>2, <2>3, <2>4, <2>5 DEF RosterInv
<1> QED
    BY <1>4, <1>5

\* This device joins, under the roster it has or with none.
LEMMA WelcomeKeeps == ASSUME RosterInv, Welcome PROVE RosterInv'
<1> DEFINE those == Members(devices, "temp")
<1>1. /\ pipe = "down" /\ pipe' = "up" /\ self' = "temp" /\ frames' = <<those>> /\ announced' = {}
      /\ UNCHANGED <<devices, knownIds, peers, locked, verified, lockDoubt, doubt>>
      /\ IF knownIds = NoRoster THEN standing' = those /\ owed' = {} ELSE UNCHANGED <<standing, owed>>
    BY DEF Welcome, lockVars
<1>2. /\ those \in SUBSET Ids /\ those \cap OthersIds = Present /\ those \subseteq Present \cup {Provisional}
      /\ those = Room' /\ Present' = Present
    BY <1>1, MembersAre DEF RosterInv, RosterTypes, Present, Room, Place, Provisional
<1> HIDE DEF those
<1>3. Present \subseteq those
    BY <1>2
<1>4. /\ frames' \in Seq(SUBSET Ids) /\ frames' # <<>> /\ Of(frames') = {those} /\ frames'[Len(frames')] = those
    <2>1. DOMAIN <<those>> = {1} /\ <<those>>[1] = those /\ Len(<<those>>) = 1
        OBVIOUS
    <2> QED
        BY <1>1, <1>2, <2>1 DEF Of
<1>5. RosterTypes' /\ HeardLast'
    BY <1>1, <1>2, <1>4 DEF RosterInv, RosterTypes, HeardLast, Place
<1>6. OwedMissing'
    <2>1. SUFFICES ASSUME NEW x \in owed' PROVE x \in Present' /\ Missing(x)'
        BY DEF OwedMissing
    <2>2. knownIds # NoRoster /\ x \in owed
        BY <1>1, <2>1
    <2>3. frames = <<>>
        BY <1>1 DEF RosterInv, RosterTypes
    <2>4. x \in Present /\ x \notin knownIds
        BY <2>2, <2>3, LineEmpty DEF RosterInv, OwedMissing, Heeds, Missing
    <2> QED
        BY <1>1, <1>2, <2>2, <2>4 DEF Missing
<1>7. StandingEverywhere'
    <2>1. SUFFICES ASSUME NEW x \in standing', x # Provisional PROVE x \in Present' /\ Everywhere(x)'
        BY DEF StandingEverywhere
    <2>2. CASE knownIds = NoRoster
        BY <1>1, <1>2, <1>4, <2>1, <2>2 DEF Everywhere
    <2>3. CASE knownIds # NoRoster
        <3>1. x \in Present /\ x \in knownIds
            BY <1>1, <2>1, <2>3 DEF RosterInv, StandingEverywhere, Heeds, Everywhere
        <3> QED
            BY <1>1, <1>2, <1>3, <1>4, <3>1 DEF Everywhere
    <2> QED
        BY <2>2, <2>3
<1>8. Doubted' /\ Crying'
    BY <1>1 DEF RosterInv, Doubted, Crying, NoCryWolf
<1> QED
    BY <1>5, <1>6, <1>7, <1>8 DEF RosterInv

\* Its hello is adopted.
LEMMA HelloKeeps == ASSUME RosterInv, Hello PROVE RosterInv'
<1> DEFINE those == Members(devices, "own")
<1>1. /\ self = "temp" /\ self' = "own" /\ frames' = Append(frames, those) /\ standing' = standing \cap those
      /\ UNCHANGED <<devices, pipe, knownIds, peers, locked, verified, lockDoubt, doubt, announced, owed>>
    BY DEF Hello, lockVars
<1>2. /\ those \in SUBSET Ids /\ those \cap OthersIds = Present /\ those = Room' /\ Present' = Present
    BY <1>1, MembersAre DEF RosterInv, RosterTypes, Present, Room, Place
<1> HIDE DEF those
<1>3. /\ frames' \in Seq(SUBSET Ids) /\ frames' # <<>>
      /\ Of(frames') = Of(frames) \cup {those} /\ frames'[Len(frames')] = those
    BY <1>1, <1>2, LineLonger DEF RosterInv, RosterTypes
<1>4. pipe = "up"
    BY <1>1 DEF RosterInv, RosterTypes
<1>5. RosterTypes' /\ HeardLast'
    BY <1>1, <1>2, <1>3, <1>4 DEF RosterInv, RosterTypes, HeardLast, Place
<1>6. OwedMissing'
    BY <1>1, <1>2, <1>3, <1>4 DEF RosterInv, OwedMissing, Heeds, Missing
<1>7. StandingEverywhere'
    BY <1>1, <1>2, <1>3, <1>4 DEF RosterInv, StandingEverywhere, Heeds, Everywhere
<1>8. Doubted' /\ Crying'
    BY <1>1 DEF RosterInv, Doubted, Crying, NoCryWolf
<1> QED
    BY <1>5, <1>6, <1>7, <1>8 DEF RosterInv

\* A roster is heard: who stood was in the one before, and who is owed is announced by the
\* first that has it after one that had not.
LEMMA HearsKeeps == ASSUME RosterInv, Hears PROVE RosterInv'
<1> DEFINE listed == Head(frames)
<1>1. /\ frames # <<>> /\ frames' = Tail(frames) /\ peers' = Cardinality(listed) /\ knownIds' = listed
      /\ announced' = (IF knownIds = NoRoster THEN {} ELSE (listed \ knownIds) \ {Provisional})
      /\ owed' = owed \ announced' /\ doubt' \in {FALSE, doubt} /\ (peers' > 1 => doubt' = FALSE)
      /\ UNCHANGED <<devices, self, pipe, locked, verified, standing>>
    BY DEF Hears, Listed, Company
<1>2. /\ listed \in SUBSET Ids /\ frames' \in Seq(SUBSET Ids)
      /\ Of(frames) = Of(frames') \cup {listed}
      /\ frames[Len(frames)] = IF frames' = <<>> THEN listed ELSE frames'[Len(frames')]
    BY <1>1, LineShorter DEF RosterInv, RosterTypes
<1>3. listed # NoRoster /\ pipe = "up" /\ Present' = Present /\ Room' = Room
    BY <1>1, <1>2, MembersAre DEF RosterInv, RosterTypes, Present, Room, Place
<1> HIDE DEF listed
<1>4. RosterTypes' /\ HeardLast'
    BY <1>1, <1>2, <1>3 DEF RosterInv, RosterTypes, HeardLast
<1>5. OwedMissing'
    <2>1. SUFFICES ASSUME NEW x \in owed' PROVE x \in Present' /\ Missing(x)'
        BY DEF OwedMissing
    <2>2. x \in owed /\ x \notin announced' /\ x \in Present /\ Missing(x)
        BY <1>1, <1>3, <2>1 DEF RosterInv, OwedMissing, Heeds
    <2>3. x # Provisional
        BY <2>2, MembersAre, RoomIs DEF RosterInv, RosterTypes, Place
    <2>4. Missing(x)'
        BY <1>1, <1>2, <1>3, <2>2, <2>3 DEF Missing
    <2> QED
        BY <1>3, <2>2, <2>4
<1>6. StandingEverywhere' /\ NoCryWolf'
    <2>1. ASSUME NEW x \in standing, x # Provisional
          PROVE  x \in Present /\ x \notin announced' /\ Everywhere(x)'
        <3>1. x \in Present /\ Everywhere(x)
            BY <1>3, <2>1 DEF RosterInv, StandingEverywhere, Heeds
        <3> QED
            BY <1>1, <1>2, <3>1 DEF Everywhere
    <2>2. Provisional \notin announced'
        BY <1>1
    <2> QED
        BY <1>1, <1>3, <2>1, <2>2 DEF StandingEverywhere, NoCryWolf
<1>7. Doubted'
    <2>1. IsFiniteSet(listed)
        BY <1>2, IdsFinite, FS_Subset
    <2>2. peers' \in Nat
        BY <1>1, <2>1, FS_CardinalityType
    <2>3. doubt' => doubt /\ peers' <= 1
        <3>1. doubt' => ~(peers' > 1) /\ doubt
            BY <1>1
        <3> QED
            BY <2>2, <3>1
    <2>4. doubt' \in BOOLEAN
        BY <1>1 DEF RosterInv, Doubted
    <2> QED
        BY <1>1, <1>3, <2>3, <2>4 DEF RosterInv, Doubted
<1> QED
    BY <1>3, <1>4, <1>5, <1>6, <1>7, <1>1 DEF RosterInv, Crying

\* The connection goes, and with it the roster or not.
LEMMA UnplugsKeep == ASSUME RosterInv, Drops \/ SwitchesPipe \/ LeavesRoom PROVE RosterInv'
<1>1. \E place \in {"down", "none"} : pipe' = place /\ (place = "none" => LeavesRoom)
    BY DEF Drops, SwitchesPipe, LeavesRoom, Unplugs
<1>2. /\ self' = "out" /\ frames' = <<>> /\ announced' = {}
      /\ UNCHANGED <<devices, standing>>
    BY DEF Drops, SwitchesPipe, LeavesRoom, Unplugs
<1>3. <<>> \in Seq(SUBSET Ids) /\ Of(<<>>) = {} /\ Present' = Present
    BY <1>2, LineEmpty DEF Present
<1>4. \/ knownIds' = NoRoster
      \/ SwitchesPipe /\ pipe = "up" /\ pipe' = "down" /\ knownIds' = knownIds /\ owed' = owed \ knownIds
    BY DEF Drops, SwitchesPipe, LeavesRoom, Unplugs, Forgotten
<1>5. RosterTypes'
    <2>1. knownIds' \in (SUBSET Ids) \cup {NoRoster} /\ (pipe' = "none" => knownIds' = NoRoster)
        <3>1. knownIds \in (SUBSET Ids) \cup {NoRoster}
            BY DEF RosterInv, RosterTypes
        <3>2. CASE knownIds' = NoRoster
            BY <3>2
        <3>3. CASE pipe' = "down" /\ knownIds' = knownIds
            BY <3>1, <3>3
        <3> QED
            BY <1>4, <3>2, <3>3
    <2> QED
        BY <1>1, <1>2, <1>3, <2>1 DEF RosterInv, RosterTypes, Place
<1>6. HeardLast' /\ Crying'
    BY <1>1, <1>2 DEF HeardLast, Crying, NoCryWolf
<1>7. OwedMissing' /\ StandingEverywhere'
    <2>1. CASE knownIds' = NoRoster
        BY <1>1, <2>1 DEF OwedMissing, StandingEverywhere, Heeds
    <2>2. CASE knownIds' # NoRoster
        <3>1. pipe = "up" /\ knownIds' = knownIds /\ owed' = owed \ knownIds
            BY <1>4, <2>2
        <3>2. OwedMissing'
            BY <1>3, <2>2, <3>1 DEF RosterInv, OwedMissing, Heeds, Missing
        <3>3. StandingEverywhere'
            BY <1>2, <1>3, <2>2, <3>1 DEF RosterInv, StandingEverywhere, Heeds, Everywhere
        <3> QED
            BY <3>2, <3>3
    <2> QED
        BY <2>1, <2>2
<1>8. Doubted'
    <2>1. CASE LeavesRoom
        BY <2>1 DEF LeavesRoom, Doubted
    <2>2. CASE Drops \/ SwitchesPipe
        BY <1>1, <2>2 DEF Drops, SwitchesPipe, Unplugs, lockVars, RosterInv, Doubted
    <2> QED
        BY <2>1, <2>2
<1> QED
    BY <1>5, <1>6, <1>7, <1>8 DEF RosterInv

\* A room is opened, something of it verified, the doubt's timer fires.
LEMMA LocksKeep ==
    ASSUME RosterInv, (\E l \in BOOLEAN : OpensRoom(l)) \/ Verifies \/ DoubtFires
    PROVE  RosterInv'
<1>1. CASE \E l \in BOOLEAN : OpensRoom(l)
    <2>1. PICK l \in BOOLEAN : OpensRoom(l)
        BY <1>1
    <2>2. /\ pipe = "none" /\ pipe' = "down" /\ devices' \in [Others -> Place] /\ doubt' = (doubt /\ l)
          /\ locked' = l /\ verified' = FALSE
          /\ UNCHANGED <<self, frames, knownIds, peers, announced, standing, owed>>
        BY <2>1 DEF OpensRoom, Place
    <2>3. ~doubt /\ knownIds = NoRoster /\ self = "out" /\ frames = <<>> /\ announced = {}
        BY <2>2 DEF RosterInv, RosterTypes, Doubted, Crying
    <2>4. RosterTypes'
        BY <2>2, <2>3 DEF RosterInv, RosterTypes
    <2>5. HeardLast' /\ OwedMissing' /\ StandingEverywhere' /\ Crying'
        BY <2>2, <2>3 DEF HeardLast, OwedMissing, StandingEverywhere, Heeds, Crying, NoCryWolf
    <2>6. Doubted'
        BY <2>2, <2>3 DEF Doubted
    <2> QED
        BY <2>4, <2>5, <2>6 DEF RosterInv
<1>2. CASE Verifies \/ DoubtFires
    <2>1. UNCHANGED <<devices, self, pipe, frames, knownIds, peers, locked, announced, standing, owed>>
        BY <1>2 DEF Verifies, DoubtFires
    <2>2. Doubted'
        <3>1. CASE Verifies
            <4>1. verified' = TRUE /\ doubt' = FALSE
                BY <3>1 DEF Verifies
            <4> QED
                BY <2>1, <4>1 DEF RosterInv, Doubted
        <3>2. CASE DoubtFires
            <4>1. /\ doubt' = (doubt \/ (locked /\ ~verified /\ pipe = "up" /\ peers <= 1))
                  /\ verified' = verified
                BY <3>2 DEF DoubtFires
            <4>2. doubt' => doubt \/ (locked /\ ~verified /\ pipe = "up" /\ peers <= 1)
                BY <4>1
            <4>3. doubt' \in BOOLEAN
                BY <4>1
            <4> QED
                BY <2>1, <4>1, <4>2, <4>3 DEF RosterInv, Doubted
        <3> QED
            BY <1>2, <3>1, <3>2
    <2>3. RosterTypes' /\ HeardLast'
        BY <2>1 DEF RosterInv, RosterTypes, HeardLast, Room
    <2>4. OwedMissing' /\ StandingEverywhere' /\ Crying'
        BY <2>1 DEF RosterInv, OwedMissing, StandingEverywhere, Heeds, Missing, Everywhere, Present, Crying, NoCryWolf
    <2> QED
        BY <2>2, <2>3, <2>4 DEF RosterInv
<1> QED
    BY <1>1, <1>2

\* Every step of the roster keeps it.
LEMMA RosterKeeps == ASSUME RosterInv, [RosterNext]_rosterVars PROVE RosterInv'
<1>1. CASE UNCHANGED rosterVars
    BY <1>1 DEF rosterVars, RosterInv, RosterTypes, HeardLast, Room, OwedMissing, StandingEverywhere, Heeds,
                Missing, Everywhere, Present, Doubted, Crying, NoCryWolf
<1>2. CASE \E o \in Others : Arrives(o) \/ Renamed(o) \/ Departs(o)
    BY <1>2, BecomesKeeps DEF Arrives, Renamed, Departs, Place
<1> QED
    BY <1>1, <1>2, WelcomeKeeps, HelloKeeps, HearsKeeps, UnplugsKeep, LocksKeep DEF RosterNext

\* And it holds at the start.
LEMMA RosterStarts == ASSUME RosterInit PROVE RosterInv
<1>1. /\ devices = [o \in Others |-> "out"] /\ self = "out" /\ pipe = "none" /\ frames = <<>>
      /\ knownIds = NoRoster /\ announced = {}
    BY DEF RosterInit
<1>2. RosterTypes
    <2>1. devices \in [Others -> Place] /\ self \in Place
        BY <1>1 DEF Place
    <2>2. frames \in Seq(SUBSET Ids)
        BY <1>1, LineEmpty
    <2>3. pipe \in {"none", "down", "up"} /\ (pipe = "up" <=> self # "out")
        BY <1>1
    <2>4. knownIds \in (SUBSET Ids) \cup {NoRoster}
        BY <1>1
    <2> QED
        BY <1>1, <2>1, <2>2, <2>3, <2>4 DEF RosterTypes
<1>3. locked = FALSE /\ verified = FALSE /\ doubt = FALSE
    BY DEF RosterInit
<1>4. Doubted
    BY <1>3 DEF Doubted
<1> QED
    BY <1>1, <1>2, <1>4 DEF RosterInv, HeardLast, OwedMissing, StandingEverywhere, Heeds, Crying, NoCryWolf

\* A doubt stands over a room of which nobody else was last heard.
LEMMA Alone == ASSUME RosterInv PROVE ArrivalsAnnounced /\ DoubtIsTrue
<1>1. ArrivalsAnnounced
    <2>1. SUFFICES ASSUME pipe = "up", frames = <<>>, NEW x \in owed PROVE FALSE
        BY DEF ArrivalsAnnounced
    <2>2. knownIds = Room /\ x \in Present /\ x \notin knownIds
        BY <2>1, LineEmpty DEF RosterInv, HeardLast, OwedMissing, Heeds, Missing
    <2>3. Present \subseteq Room
        BY RoomIs DEF RosterInv
    <2> QED
        BY <2>2, <2>3
<1>2. ASSUME doubt PROVE locked /\ ~verified
    BY <1>2 DEF RosterInv, Doubted
<1>3. ASSUME doubt, pipe = "up", frames = <<>> PROVE \A o \in Others : devices[o] = "out"
    <2>1. peers <= 1 /\ peers = Cardinality(Room)
        BY <1>3 DEF RosterInv, Doubted, HeardLast
    <2>2. /\ <<"self", self>> \in Room /\ <<"self", self>> \notin OthersIds
          /\ Room \in SUBSET Ids /\ Room \cap OthersIds = Present
          /\ Present = {} => \A o \in Others : devices[o] = "out"
        BY <1>3, MembersAre DEF RosterInv, RosterTypes, Room, Present
    <2>3. IsFiniteSet(Room)
        BY <2>2, IdsFinite, FS_Subset
    <2>4. Cardinality(Room) \in Nat /\ Cardinality(Room) # 0
        BY <2>2, <2>3, FS_EmptySet, FS_CardinalityType
    <2>5. Cardinality(Room) = 1
        BY <2>1, <2>4
    <2>6. PICK x : Room = {x}
        BY <2>3, <2>5, FS_Singleton
    <2>7. Present = {}
        BY <2>2, <2>6
    <2> QED
        BY <2>2, <2>7
<1> QED
    BY <1>1, <1>2, <1>3 DEF DoubtIsTrue

\* What is asked of the roster (state.js:239-243, banners.js:122-126, 207-216).
RosterIsTrue == NoCryWolf /\ ArrivalsAnnounced /\ DoubtIsTrue
\* Arrivals are announced and nobody else is, whatever drops, switches and renames come
\* between, and the doubt is over an empty room, for any set of other devices.
THEOREM RosterTells == RosterSpec => []RosterIsTrue
<1>1. RosterInit => RosterInv
    BY RosterStarts
<1>2. RosterInv /\ [RosterNext]_rosterVars => RosterInv'
    BY RosterKeeps
<1>3. RosterInv => RosterIsTrue
    BY Alone DEF RosterInv, Crying, RosterIsTrue
<1> QED
    BY <1>1, <1>2, <1>3, PTL DEF RosterSpec
-----------------------------------------------------------------------------
\* Only the banner that is up, and nobody reads, has a clock, but for orphans.
ClockRuns(n) == n \in orphaned \/ (n = bannerUp /\ ~Held(n))
\* The invariant of the banners.
BannersInv ==
    /\ shown \in Nat /\ bannerUp \in 0..shown /\ focused \in BOOLEAN /\ snatched = FALSE
    /\ hovering \subseteq 1..shown
    /\ \A n \in clocks : ClockRuns(n)

\* Every step of the banners keeps it.
LEMMA BannerKeeps == ASSUME BannersInv, [BannerNext]_bannerVars PROVE BannersInv'
<1>1. CASE UNCHANGED bannerVars
    BY <1>1 DEF bannerVars, BannersInv, ClockRuns, Held
<1>2. CASE ShowsBanner
    <2>1. /\ shown' = shown + 1 /\ bannerUp' = shown + 1 /\ clocks' = (clocks \ {bannerUp}) \cup {shown + 1}
          /\ focused' = FALSE /\ UNCHANGED <<hovering, orphaned, snatched>>
        BY <1>2 DEF ShowsBanner, Removes, Stopped
    <2>2. shown \in Nat /\ bannerUp \in 0..shown /\ hovering \subseteq 1..shown
        BY DEF BannersInv
    <2>3. shown + 1 \notin hovering /\ hovering \subseteq 1..(shown + 1)
        BY <2>2
    <2>4. \A n \in clocks' : ClockRuns(n)'
        BY <2>1, <2>3 DEF BannersInv, ClockRuns, Held
    <2>5. shown' \in Nat /\ bannerUp' \in 0..shown' /\ hovering' \subseteq 1..shown'
        BY <2>1, <2>2, <2>3
    <2>6. focused' \in BOOLEAN /\ snatched' = FALSE
        BY <2>1 DEF BannersInv
    <2> QED
        BY <2>4, <2>5, <2>6 DEF BannersInv
<1>3. CASE ClosesBanner
    <2>1. /\ bannerUp' = 0 /\ clocks' = clocks \ {bannerUp} /\ focused' = FALSE
          /\ UNCHANGED <<shown, hovering, orphaned, snatched>>
        BY <1>3 DEF ClosesBanner, Removes, Stopped
    <2>2. \A n \in clocks' : ClockRuns(n)'
        BY <2>1 DEF BannersInv, ClockRuns
    <2>3. shown' \in Nat /\ bannerUp' \in 0..shown' /\ hovering' \subseteq 1..shown'
        BY <2>1 DEF BannersInv
    <2>4. focused' \in BOOLEAN /\ snatched' = FALSE
        BY <2>1 DEF BannersInv
    <2> QED
        BY <2>2, <2>3, <2>4 DEF BannersInv
<1>4. CASE PointerEnters
    BY <1>4 DEF PointerEnters, Stopped, BannersInv, ClockRuns, Held
<1>5. CASE PointerLeaves
    BY <1>5 DEF PointerLeaves, BannersInv, ClockRuns, Held
<1>6. CASE FocusEnters
    BY <1>6 DEF FocusEnters, Stopped, BannersInv, ClockRuns, Held
<1>7. CASE FocusLeaves
    BY <1>7 DEF FocusLeaves, BannersInv, ClockRuns, Held
<1>8. ASSUME NEW n \in refocus, Restarts(n) PROVE BannersInv'
    BY <1>8 DEF Restarts, BannersInv, ClockRuns, Held
<1>9. ASSUME NEW n \in clocks, ClockFires(n) PROVE BannersInv'
    <2>1. ClockRuns(n)
        BY DEF BannersInv
    <2>2. snatched' = (snatched \/ (bannerUp # 0 /\ n \notin orphaned /\ (n # bannerUp \/ Held(n))))
        BY <1>9 DEF ClockFires
    <2>3. snatched' = FALSE
        BY <2>1, <2>2 DEF BannersInv, ClockRuns
    <2>4. /\ bannerUp' = 0 /\ focused' = FALSE /\ clocks' \subseteq clocks \ {bannerUp}
          /\ UNCHANGED <<shown, hovering, orphaned>>
        BY <1>9 DEF ClockFires, Removes, Stopped
    <2>5. \A m \in clocks' : ClockRuns(m)'
        BY <2>4 DEF BannersInv, ClockRuns
    <2>6. shown' \in Nat /\ bannerUp' \in 0..shown' /\ hovering' \subseteq 1..shown'
        BY <2>4 DEF BannersInv
    <2>7. focused' \in BOOLEAN
        BY <2>4
    <2> QED
        BY <2>3, <2>5, <2>6, <2>7 DEF BannersInv
<1> QED
    BY <1>1, <1>2, <1>3, <1>4, <1>5, <1>6, <1>7, <1>8, <1>9 DEF BannerNext

\* A banner never goes from under its reader (dom.js:107-116).
THEOREM BannersStay == BannerSpec => []StaysWhileRead
<1>1. BannerInit => BannersInv
    <2>1. SUFFICES ASSUME BannerInit PROVE BannersInv
        OBVIOUS
    <2>2. /\ bannerUp = 0 /\ shown = 0 /\ clocks = {} /\ hovering = {} /\ focused = FALSE
          /\ orphaned = {} /\ snatched = FALSE
        BY <2>1 DEF BannerInit
    <2>3. shown \in Nat /\ bannerUp \in 0..shown
        BY <2>2
    <2>4. focused \in BOOLEAN /\ hovering \subseteq 1..shown
        BY <2>2
    <2> QED
        BY <2>2, <2>3, <2>4 DEF BannersInv
<1>2. BannersInv /\ [BannerNext]_bannerVars => BannersInv'
    BY BannerKeeps
<1>3. BannersInv => StaysWhileRead
    BY DEF BannersInv, StaysWhileRead
<1> QED
    BY <1>1, <1>2, <1>3, PTL DEF BannerSpec

\* Both side by side: what the user is told of ids is so, and a banner stays to be read but
\* for a clock that a focusout started once it was gone: state.js:239-256, dom.js:96-131.
THEOREM NoticesStay == RosterSpec /\ BannerSpec => []NoticesAreTrue
<1>1. RosterIsTrue /\ StaysWhileRead => NoticesAreTrue
    BY DEF RosterIsTrue, NoticesAreTrue
<1> QED
    BY <1>1, RosterTells, BannersStay, PTL
-----------------------------------------------------------------------------
(* The prompts *)

\* What the relay tells the holder: a roster with the id or without it, or a request.
HolderNews == ({"peers"} \X BOOLEAN) \cup ({"req"} \X (Nat \ {0}))
Roster(h, j, up) == h[j] = <<"peers", up>>
Asked(h, j, d) == h[j] = <<"req", d>>

GrantTypes ==
    /\ device \in Nat /\ lastDevice \in Nat /\ device \in {0, lastDevice}
    /\ heard \in Seq(HolderNews) /\ prompts \in Seq(Nat \ {0})
    /\ \A p \in Of(prompts) : p <= lastDevice
    /\ granted \in BOOLEAN /\ grantees \subseteq Nat \ {0} /\ heirs \subseteq Nat
\* Requests come in the order of the devices, after those that are prompts already.
AskInTurn(h) == \A i, j \in DOMAIN h : \A c, d \in Nat : Asked(h, i, c) /\ Asked(h, j, d) /\ i < j => c <= d
Newer(ps, h) == \A p \in Of(ps), j \in DOMAIN h : \A d \in Nat : Asked(h, j, d) => p <= d
AskedAll(h, last) == \A j \in DOMAIN h : \A d \in Nat : Asked(h, j, d) => d <= last
\* The holder hears of a departure, of an id it knows by then, among the first k - 1 or at all.
Parting(h, r, j) == Roster(h, j, FALSE) /\ (r = "yes" \/ \E i \in DOMAIN h : i < j /\ Roster(h, i, TRUE))
GoneBefore(h, r, k) == \E j \in DOMAIN h : j < k /\ Parting(h, r, j)
GoneIn(h, r) == \E j \in DOMAIN h : Parting(h, r, j)
\* It does before a request of a device that may not be served unasked.
Warned(h, r, ds) == \A j \in DOMAIN h : \A d \in Nat : Asked(h, j, d) => d \in ds \/ GoneBefore(h, r, j)
\* The last it hears of the id is whether somebody has it.
EndsWith(h, r, up) ==
    /\ (r = "yes") # up => \E j \in DOMAIN h : Roster(h, j, up)
    /\ \A j \in DOMAIN h : Roster(h, j, ~up) => \E i \in DOMAIN h : j < i /\ Roster(h, i, up)
MayHave == grantees \cup heirs
NextToHave == IF device = 0 THEN lastDevice + 1 ELSE device
GrantInv ==
    /\ GrantTypes /\ AskInTurn(heard) /\ Newer(prompts, heard) /\ AskedAll(heard, lastDevice)
    /\ EndsWith(heard, roster, device # 0)
    /\ granted =>
         Warned(heard, roster, MayHave) /\ (NextToHave \in MayHave \/ GoneIn(heard, roster))
    /\ GrantFollowsDevice

\* One more at the end of a line, and the first of one taken, place by place.
LEMMA LongerAt ==
    ASSUME NEW S, NEW s \in Seq(S), NEW e \in S
    PROVE  /\ Append(s, e) \in Seq(S) /\ Append(s, e) # <<>>
           /\ DOMAIN s = 1..Len(s) /\ Len(s) \in Nat /\ DOMAIN Append(s, e) = 1..(Len(s) + 1)
           /\ \A i \in DOMAIN s : Append(s, e)[i] = s[i]
           /\ Append(s, e)[Len(s) + 1] = e
<1>1. DOMAIN s = 1..Len(s) /\ Len(s) \in Nat
    BY LenProperties
<1>2. /\ Append(s, e) \in Seq(S) /\ Append(s, e) # <<>> /\ Len(Append(s, e)) = Len(s) + 1
      /\ \A i \in 1..Len(s) : Append(s, e)[i] = s[i]
      /\ Append(s, e)[Len(s) + 1] = e
    BY AppendProperties
<1>3. DOMAIN Append(s, e) = 1..(Len(s) + 1)
    BY <1>2, LenProperties
<1> QED
    BY <1>1, <1>2, <1>3
LEMMA ShorterAt ==
    ASSUME NEW S, NEW s \in Seq(S), s # <<>>
    PROVE  /\ Tail(s) \in Seq(S) /\ Head(s) = s[1] /\ 1 \in DOMAIN s
           /\ \A i \in DOMAIN Tail(s) : i \in Nat \ {0} /\ i + 1 \in DOMAIN s /\ Tail(s)[i] = s[i + 1]
           /\ \A i \in DOMAIN s : i \in Nat \ {0} /\ (i # 1 => i - 1 \in DOMAIN Tail(s) /\ Tail(s)[i - 1] = s[i])
<1>1. /\ Tail(s) \in Seq(S) /\ Len(Tail(s)) = Len(s) - 1 /\ Head(s) = s[1]
      /\ \A i \in 1..Len(Tail(s)) : Tail(s)[i] = s[i + 1]
    BY HeadTailProperties
<1>2. Len(s) \in Nat /\ Len(s) # 0 /\ DOMAIN s = 1..Len(s)
    BY EmptySeq, LenProperties
<1>3. DOMAIN Tail(s) = 1..(Len(s) - 1)
    BY <1>1, LenProperties
<1>4. /\ 1 \in 1..Len(s)
      /\ \A i \in 1..(Len(s) - 1) : i \in Nat \ {0} /\ i + 1 \in 1..Len(s)
      /\ \A i \in 1..Len(s) : i \in Nat \ {0} /\ (i # 1 => i - 1 \in 1..(Len(s) - 1) /\ (i - 1) + 1 = i)
    BY <1>2
<1>5. \A i \in 1..Len(s) : i # 1 => Tail(s)[i - 1] = s[i]
    <2>1. ASSUME NEW i \in 1..Len(s), i # 1 PROVE Tail(s)[i - 1] = s[i]
        <3>1. i - 1 \in 1..Len(Tail(s)) /\ (i - 1) + 1 = i
            BY <1>1, <1>4, <2>1
        <3> QED
            BY <1>1, <3>1
    <2> QED
        BY <2>1
<1> QED
    BY <1>1, <1>2, <1>3, <1>4, <1>5

\* The places of a longer line.
LEMMA LongerPlaces ==
    ASSUME NEW S, NEW h \in Seq(S), NEW e \in S
    PROVE  LET m == Append(h, e)
               L == Len(h) + 1
           IN /\ m \in Seq(S) /\ m # <<>> /\ L \in Nat
              /\ \A j \in DOMAIN h : j \in DOMAIN m /\ m[j] = h[j] /\ j \in Nat /\ j < L
              /\ \A j \in DOMAIN m : j \in Nat /\ j <= L /\ ((j \in DOMAIN h /\ m[j] = h[j]) \/ (j = L /\ m[j] = e))
              /\ L \in DOMAIN m /\ m[L] = e
<1> DEFINE m == Append(h, e)
           L == Len(h) + 1
<1>1. m \in Seq(S) /\ m # <<>> /\ L \in Nat
    BY LongerAt
<1>2. /\ \A j \in DOMAIN h : j \in DOMAIN m /\ m[j] = h[j] /\ j \in Nat /\ j < L
      /\ \A j \in DOMAIN m : j \in Nat /\ j <= L /\ ((j \in DOMAIN h /\ m[j] = h[j]) \/ (j = L /\ m[j] = e))
      /\ L \in DOMAIN m /\ m[L] = e
    <2>1. /\ DOMAIN h = 1..Len(h) /\ Len(h) \in Nat /\ DOMAIN m = 1..(Len(h) + 1)
          /\ \A i \in DOMAIN h : m[i] = h[i]
          /\ m[Len(h) + 1] = e
        BY LongerAt
    <2>2. \A j \in 1..Len(h) : j \in 1..(Len(h) + 1) /\ j \in Nat /\ j < L
        BY <2>1
    <2>3. \A j \in 1..(Len(h) + 1) : j \in Nat /\ j <= L /\ (j \in 1..Len(h) \/ j = L)
        BY <2>1
    <2>4. L \in 1..(Len(h) + 1)
        BY <2>1
    <2> HIDE DEF m
    <2>5. L \in DOMAIN m /\ m[L] = e
        BY <2>1, <2>4
    <2> HIDE DEF L
    <2>6. \A j \in DOMAIN h : j \in DOMAIN m /\ m[j] = h[j] /\ j \in Nat /\ j < L
        <3>1. ASSUME NEW j \in DOMAIN h PROVE j \in DOMAIN m /\ j \in Nat /\ j < L
            <4>1. j \in 1..Len(h)
                BY <2>1
            <4>2. j \in 1..(Len(h) + 1) /\ j \in Nat /\ j < L
                BY <2>2, <4>1
            <4> QED
                BY <2>1, <4>2
        <3> QED
            BY <2>1, <3>1
    <2>7. \A j \in DOMAIN m : j \in Nat /\ j <= L /\ ((j \in DOMAIN h /\ m[j] = h[j]) \/ (j = L /\ m[j] = e))
        BY <2>1, <2>3, <2>5
    <2> QED
        BY <2>5, <2>6, <2>7
<1> QED
    BY <1>1, <1>2

\* The holder is told one more thing.
LEMMA MoreHeard ==
    ASSUME NEW h \in Seq(HolderNews), NEW e \in HolderNews, NEW last \in Nat, NEW ps, NEW ds, NEW r,
           AskInTurn(h), Newer(ps, h), AskedAll(h, last),
           \A d \in Nat : e = <<"req", d>> => d = last /\ \A p \in Of(ps) : p <= d
    PROVE  LET m == Append(h, e) IN
           /\ m \in Seq(HolderNews) /\ AskInTurn(m) /\ Newer(ps, m) /\ AskedAll(m, last)
           /\ GoneIn(h, r) \/ (e = <<"peers", FALSE>> /\ EndsWith(h, r, TRUE)) => GoneIn(m, r)
           /\ Warned(h, r, ds) /\ (\A d \in Nat : e = <<"req", d>> => d \in ds \/ GoneIn(h, r)) =>
                 Warned(m, r, ds)
<1> DEFINE m == Append(h, e)
           L == Len(h) + 1
<1>1. m \in Seq(HolderNews) /\ m # <<>> /\ L \in Nat
    BY LongerPlaces
<1>2. /\ \A j \in DOMAIN h : j \in DOMAIN m /\ m[j] = h[j] /\ j \in Nat /\ j < L
      /\ \A j \in DOMAIN m : j \in Nat /\ j <= L /\ ((j \in DOMAIN h /\ m[j] = h[j]) \/ (j = L /\ m[j] = e))
      /\ L \in DOMAIN m /\ m[L] = e
    BY LongerPlaces
<1> HIDE DEF m, L
<1>4. AskInTurn(m)
    <2>1. SUFFICES ASSUME NEW i \in DOMAIN m, NEW j \in DOMAIN m, NEW c \in Nat, NEW d \in Nat,
                          Asked(m, i, c), Asked(m, j, d), i < j
                   PROVE  c <= d
        BY DEF AskInTurn
    <2>2. i \in DOMAIN h /\ Asked(h, i, c)
        BY <1>1, <1>2, <2>1 DEF Asked
    <2>3. CASE j \in DOMAIN h
        BY <1>2, <2>1, <2>2, <2>3 DEF AskInTurn, Asked
    <2>4. CASE j = L /\ m[j] = e
        <3>1. d = last /\ c <= last
            BY <2>1, <2>2, <2>4 DEF AskedAll, Asked
        <3> QED
            BY <3>1
    <2> QED
        BY <1>2, <2>3, <2>4
<1>5. Newer(ps, m) /\ AskedAll(m, last)
    BY <1>2 DEF Newer, AskedAll, Asked
<1>6. \A j \in DOMAIN h : Parting(h, r, j) => Parting(m, r, j)
    BY <1>2 DEF Parting, Roster
<1>7. GoneIn(h, r) \/ (e = <<"peers", FALSE>> /\ EndsWith(h, r, TRUE)) => GoneIn(m, r)
    <2>1. GoneIn(h, r) => GoneIn(m, r)
        BY <1>2, <1>6 DEF GoneIn
    <2>2. ASSUME e = <<"peers", FALSE>>, EndsWith(h, r, TRUE) PROVE GoneIn(m, r)
        <3>1. r = "yes" \/ \E i \in DOMAIN h : Roster(h, i, TRUE)
            BY <2>2 DEF EndsWith
        <3>2. Roster(m, L, FALSE) /\ (r = "yes" \/ \E i \in DOMAIN m : i < L /\ Roster(m, i, TRUE))
            BY <1>2, <2>2, <3>1 DEF Roster
        <3> QED
            BY <1>2, <3>2 DEF GoneIn, Parting
    <2> QED
        BY <2>1, <2>2
<1>8. ASSUME Warned(h, r, ds), \A d \in Nat : e = <<"req", d>> => d \in ds \/ GoneIn(h, r)
      PROVE  Warned(m, r, ds)
    <2>1. SUFFICES ASSUME NEW j \in DOMAIN m, NEW d \in Nat, Asked(m, j, d)
                   PROVE  d \in ds \/ GoneBefore(m, r, j)
        BY DEF Warned
    <2>2. CASE j \in DOMAIN h
        <3>1. Asked(h, j, d)
            BY <1>2, <2>1, <2>2 DEF Asked
        <3>2. d \in ds \/ GoneBefore(h, r, j)
            BY <1>8, <2>2, <3>1 DEF Warned
        <3> QED
            BY <1>2, <1>6, <3>2 DEF GoneBefore
    <2>3. CASE j = L /\ m[j] = e
        <3>1. d \in ds \/ GoneIn(h, r)
            BY <1>8, <2>1, <2>3 DEF Asked
        <3> QED
            BY <1>2, <1>6, <2>3, <3>1 DEF GoneIn, GoneBefore
    <2> QED
        BY <1>2, <2>2, <2>3
<1> QED
    BY <1>1, <1>4, <1>5, <1>7, <1>8 DEF m

\* And the last it hears of the id.
LEMMA LastHeard ==
    ASSUME NEW h \in Seq(HolderNews), NEW e \in HolderNews, NEW r, NEW up \in BOOLEAN,
           e = <<"peers", up>> \/ (e[1] = "req" /\ EndsWith(h, r, up))
    PROVE  EndsWith(Append(h, e), r, up)
<1> DEFINE m == Append(h, e)
           L == Len(h) + 1
<1>1. m \in Seq(HolderNews) /\ m # <<>> /\ L \in Nat
    BY LongerPlaces
<1>2. /\ \A j \in DOMAIN h : j \in DOMAIN m /\ m[j] = h[j] /\ j \in Nat /\ j < L
      /\ \A j \in DOMAIN m : j \in Nat /\ j <= L /\ ((j \in DOMAIN h /\ m[j] = h[j]) \/ (j = L /\ m[j] = e))
      /\ L \in DOMAIN m /\ m[L] = e
    BY LongerPlaces
<1>3. SUFFICES EndsWith(m, r, up)
    OBVIOUS
<1> HIDE DEF m, L
<1>4. CASE e = <<"peers", up>>
    <2>1. Roster(m, L, up) /\ ~Roster(m, L, ~up)
        <3>1. <<"peers", up>> # <<"peers", ~up>>
            OBVIOUS
        <3> QED
            BY <1>2, <1>4, <3>1 DEF Roster
    <2>2. \A j \in DOMAIN m : Roster(m, j, ~up) => j < L
        <3>1. ASSUME NEW j \in DOMAIN m, Roster(m, j, ~up) PROVE j < L
            <4>1. j # L
                BY <2>1, <3>1
            <4> QED
                BY <1>1, <1>2, <4>1
        <3> QED
            BY <3>1
    <2> QED
        BY <1>2, <2>1, <2>2 DEF EndsWith
<1>5. CASE e[1] = "req" /\ EndsWith(h, r, up)
    <2>1. \A b \in BOOLEAN : ~Roster(m, L, b)
        <3>1. \A b : <<"peers", b>>[1] = "peers"
            OBVIOUS
        <3> QED
            BY <1>2, <1>5, <3>1 DEF Roster
    <2>2. \A j \in DOMAIN m, b \in BOOLEAN : Roster(m, j, b) => j \in DOMAIN h /\ Roster(h, j, b)
        <3>1. ASSUME NEW j \in DOMAIN m, NEW b \in BOOLEAN, Roster(m, j, b) PROVE j \in DOMAIN h /\ Roster(h, j, b)
            <4>1. j # L
                BY <2>1, <3>1
            <4> QED
                BY <1>2, <3>1, <4>1 DEF Roster
        <3> QED
            BY <3>1
    <2>3. \A j \in DOMAIN h, b \in BOOLEAN : Roster(h, j, b) => j \in DOMAIN m /\ Roster(m, j, b)
        BY <1>2 DEF Roster
    <2> QED
        BY <1>5, <2>2, <2>3 DEF EndsWith
<1> QED
    BY <1>4, <1>5

\* What is in its roster, r before and s after it handled e.
Sees(e, r, s) ==
    \/ e[1] = "req" /\ s = r
    \/ \E up \in BOOLEAN : e = <<"peers", up>> /\ s = IF up THEN "yes" ELSE "no"

\* The holder handles what it was told first.
LEMMA FewerHeard ==
    ASSUME NEW h \in Seq(HolderNews), h # <<>>, NEW last, NEW ps, NEW ds, NEW r, NEW s,
           AskInTurn(h), Newer(ps, h), AskedAll(h, last),
           Sees(h[1], r, s)
    PROVE  LET m == Tail(h) IN
           /\ m \in Seq(HolderNews) /\ Head(h) \in HolderNews /\ Head(h) = h[1]
           /\ AskInTurn(m) /\ Newer(ps, m) /\ AskedAll(m, last)
           /\ \A d \in Nat : Head(h) = <<"req", d>> =>
                 /\ d <= last /\ (Warned(h, r, ds) => d \in ds)
                 /\ \A j \in DOMAIN m : \A c \in Nat : Asked(m, j, c) => d <= c
           /\ \A up \in BOOLEAN : EndsWith(h, r, up) => EndsWith(m, s, up)
           /\ ~(r = "yes" /\ Head(h) = <<"peers", FALSE>>) =>
                 (Warned(h, r, ds) => Warned(m, s, ds)) /\ (GoneIn(h, r) => GoneIn(m, s))
<1> DEFINE m == Tail(h)
<1>1. /\ m \in Seq(HolderNews) /\ Head(h) = h[1] /\ 1 \in DOMAIN h
      /\ \A i \in DOMAIN m : i \in Nat \ {0} /\ i + 1 \in DOMAIN h /\ m[i] = h[i + 1]
      /\ \A i \in DOMAIN h : i \in Nat \ {0} /\ (i # 1 => i - 1 \in DOMAIN m /\ m[i - 1] = h[i])
    BY ShorterAt
<1>2. Head(h) \in HolderNews
    BY <1>1, ElementOfSeq, LenProperties
<1> HIDE DEF m
<1>3. AskInTurn(m)
    <2>1. SUFFICES ASSUME NEW i \in DOMAIN m, NEW j \in DOMAIN m, NEW c \in Nat, NEW d \in Nat,
                          Asked(m, i, c), Asked(m, j, d), i < j
                   PROVE  c <= d
        BY DEF AskInTurn
    <2>2. i + 1 \in DOMAIN h /\ j + 1 \in DOMAIN h /\ Asked(h, i + 1, c) /\ Asked(h, j + 1, d) /\ i + 1 < j + 1
        <3>1. i + 1 \in DOMAIN h /\ j + 1 \in DOMAIN h /\ m[i] = h[i + 1] /\ m[j] = h[j + 1]
            BY <1>1
        <3>2. i + 1 < j + 1
            BY <1>1, <2>1
        <3> QED
            BY <2>1, <3>1, <3>2 DEF Asked
    <2> QED
        BY <2>2 DEF AskInTurn
<1>4. Newer(ps, m) /\ AskedAll(m, last)
    <2>1. \A j \in DOMAIN m : \A d \in Nat : Asked(m, j, d) => j + 1 \in DOMAIN h /\ Asked(h, j + 1, d)
        BY <1>1 DEF Asked
    <2>2. Newer(ps, m)
        BY <2>1 DEF Newer
    <2>3. AskedAll(m, last)
        BY <2>1 DEF AskedAll
    <2> QED
        BY <2>2, <2>3
<1>5. ASSUME NEW d \in Nat, Head(h) = <<"req", d>>
      PROVE  /\ d <= last /\ (Warned(h, r, ds) => d \in ds)
             /\ \A j \in DOMAIN m : \A c \in Nat : Asked(m, j, c) => d <= c
    <2>1. Asked(h, 1, d)
        BY <1>1, <1>5 DEF Asked
    <2>2. d <= last
        BY <1>1, <2>1 DEF AskedAll
    <2>3. ~GoneBefore(h, r, 1)
        <3>1. \A j \in DOMAIN h : ~(j < 1)
            BY <1>1
        <3> QED
            BY <3>1 DEF GoneBefore
    <2>4. Warned(h, r, ds) => d \in ds
        BY <1>1, <2>1, <2>3 DEF Warned
    <2>5. ASSUME NEW j \in DOMAIN m, NEW c \in Nat, Asked(m, j, c) PROVE d <= c
        <3>1. j + 1 \in DOMAIN h /\ Asked(h, j + 1, c) /\ 1 < j + 1
            BY <1>1, <2>5 DEF Asked
        <3> QED
            BY <1>1, <2>1, <3>1 DEF AskInTurn
    <2> QED
        BY <2>2, <2>4, <2>5
<1>6. /\ \A i \in DOMAIN m, b \in BOOLEAN : Roster(m, i, b) => i + 1 \in DOMAIN h /\ Roster(h, i + 1, b)
      /\ \A i \in DOMAIN h, b \in BOOLEAN : Roster(h, i, b) /\ i # 1 => i - 1 \in DOMAIN m /\ Roster(m, i - 1, b)
    BY <1>1 DEF Roster
<1>7. \A i \in DOMAIN h : i \in Nat \ {0}
    BY <1>1
<1>8. \A up \in BOOLEAN : EndsWith(h, r, up) => EndsWith(m, s, up)
    <2>1. SUFFICES ASSUME NEW up \in BOOLEAN, EndsWith(h, r, up) PROVE EndsWith(m, s, up)
        OBVIOUS
    <2>2. ASSUME NEW j \in DOMAIN m, Roster(m, j, ~up)
          PROVE  \E i \in DOMAIN m : j < i /\ Roster(m, i, up)
        <3>1. j + 1 \in DOMAIN h /\ Roster(h, j + 1, ~up) /\ j \in Nat
            BY <1>1, <1>6, <2>2
        <3>2. PICK i \in DOMAIN h : j + 1 < i /\ Roster(h, i, up)
            BY <2>1, <3>1 DEF EndsWith
        <3>3. i # 1 /\ j < i - 1
            BY <1>7, <3>1, <3>2
        <3> QED
            BY <1>6, <3>2, <3>3
    <2>3. ASSUME (s = "yes") # up PROVE \E j \in DOMAIN m : Roster(m, j, up)
        <3>1. CASE h[1][1] = "req" /\ s = r
            <4>1. PICK j \in DOMAIN h : Roster(h, j, up)
                BY <2>1, <2>3, <3>1 DEF EndsWith
            <4>2. j # 1
                BY <3>1, <4>1 DEF Roster
            <4> QED
                BY <1>6, <4>1, <4>2
        <3>2. ASSUME NEW b \in BOOLEAN, h[1] = <<"peers", b>>, s = IF b THEN "yes" ELSE "no"
              PROVE  \E j \in DOMAIN m : Roster(m, j, up)
            <4>1. b = ~up
                BY <2>3, <3>2
            <4>2. Roster(h, 1, ~up)
                BY <3>2, <4>1 DEF Roster
            <4>3. PICK i \in DOMAIN h : 1 < i /\ Roster(h, i, up)
                BY <1>1, <2>1, <4>2 DEF EndsWith
            <4> QED
                BY <1>6, <1>7, <4>3
        <3> QED
            BY <3>1, <3>2 DEF Sees
    <2> QED
        BY <2>2, <2>3 DEF EndsWith
<1>9. ASSUME ~(r = "yes" /\ Head(h) = <<"peers", FALSE>>), NEW j \in DOMAIN h, Parting(h, r, j)
      PROVE  j # 1 /\ j - 1 \in DOMAIN m /\ Parting(m, s, j - 1)
    <2>1. Roster(h, j, FALSE) /\ (r = "yes" \/ \E i \in DOMAIN h : i < j /\ Roster(h, i, TRUE))
        BY <1>9 DEF Parting
    <2>2. j # 1
        <3>1. \A i \in DOMAIN h : ~(i < 1)
            BY <1>7
        <3> QED
            BY <1>1, <1>9, <2>1, <3>1 DEF Roster
    <2>3. j - 1 \in DOMAIN m /\ Roster(m, j - 1, FALSE)
        BY <1>6, <2>1, <2>2
    <2>4. Head(h) = <<"peers", TRUE>> => s = "yes"
        <3>1. \A b \in BOOLEAN : <<"peers", TRUE>> = <<"peers", b>> => b
            OBVIOUS
        <3>2. <<"peers", TRUE>>[1] # "req"
            OBVIOUS
        <3> QED
            BY <1>1, <3>1, <3>2 DEF Sees
    <2>5. CASE r = "yes"
        <3>1. Head(h) # <<"peers", FALSE>>
            BY <1>9, <2>5
        <3>2. s = "yes"
            BY <1>1, <2>4, <2>5, <3>1 DEF Sees
        <3> QED
            BY <2>2, <2>3, <3>2 DEF Parting
    <2>6. ASSUME NEW i \in DOMAIN h, i < j, Roster(h, i, TRUE)
          PROVE  s = "yes" \/ \E k \in DOMAIN m : k < j - 1 /\ Roster(m, k, TRUE)
        <3>1. CASE i = 1
            BY <1>1, <2>4, <2>6, <3>1 DEF Roster
        <3>2. CASE i # 1
            <4>1. i - 1 \in DOMAIN m /\ Roster(m, i - 1, TRUE)
                BY <1>6, <2>6, <3>2
            <4>2. i - 1 < j - 1
                BY <1>7, <2>6
            <4> QED
                BY <4>1, <4>2
        <3> QED
            BY <3>1, <3>2
    <2> QED
        BY <2>1, <2>2, <2>3, <2>5, <2>6 DEF Parting
<1>10. ASSUME ~(r = "yes" /\ Head(h) = <<"peers", FALSE>>), GoneIn(h, r) PROVE GoneIn(m, s)
    BY <1>9, <1>10 DEF GoneIn
<1>11. ASSUME ~(r = "yes" /\ Head(h) = <<"peers", FALSE>>), Warned(h, r, ds) PROVE Warned(m, s, ds)
    <2>1. SUFFICES ASSUME NEW j \in DOMAIN m, NEW d \in Nat, Asked(m, j, d)
                   PROVE  d \in ds \/ GoneBefore(m, s, j)
        BY DEF Warned
    <2>2. j + 1 \in DOMAIN h /\ Asked(h, j + 1, d) /\ j \in Nat
        BY <1>1, <2>1 DEF Asked
    <2>3. d \in ds \/ GoneBefore(h, r, j + 1)
        BY <1>11, <2>2 DEF Warned
    <2>4. ASSUME GoneBefore(h, r, j + 1) PROVE GoneBefore(m, s, j)
        <3>1. PICK i \in DOMAIN h : i < j + 1 /\ Parting(h, r, i)
            BY <2>4 DEF GoneBefore
        <3>2. i # 1 /\ i - 1 \in DOMAIN m /\ Parting(m, s, i - 1)
            BY <1>9, <1>11, <3>1
        <3>3. i - 1 < j
            BY <1>7, <2>2, <3>1
        <3> QED
            BY <3>2, <3>3 DEF GoneBefore
    <2> QED
        BY <2>3, <2>4
<1> QED
    BY <1>1, <1>2, <1>3, <1>4, <1>5, <1>8, <1>10, <1>11 DEF m

\* A prompt that is answered or expires leaves the others.
LEMMA PromptsFewer ==
    ASSUME NEW s \in Seq(Nat \ {0}), NEW i \in DOMAIN s
    PROVE  RemoveAt(s, i) \in Seq(Nat \ {0}) /\ Of(RemoveAt(s, i)) \subseteq Of(s)
<1> DEFINE front == SubSeq(s, 1, i - 1)
           back == SubSeq(s, i + 1, Len(s))
<1>1. Len(s) \in Nat /\ DOMAIN s = 1..Len(s)
    BY LenProperties
<1>2. /\ 1 \in Nat \ {0} /\ i - 1 \in Nat /\ 1 - 1 <= i - 1 /\ i - 1 <= Len(s)
      /\ i + 1 \in Nat \ {0} /\ (i + 1) - 1 <= Len(s) /\ Len(s) <= Len(s)
    BY <1>1
<1>3. RemoveAt(s, i) = front \o back
    BY DEF RemoveAt
<1>4. front = SubSeq(s, 1, i - 1) /\ back = SubSeq(s, i + 1, Len(s))
    OBVIOUS
<1> HIDE DEF front, back
<1>5. front \in Seq(Nat \ {0}) /\ Of(front) \subseteq Of(s)
    BY <1>2, <1>4, Stretch
<1>6. back \in Seq(Nat \ {0}) /\ Of(back) \subseteq Of(s)
    BY <1>1, <1>2, <1>4, Stretch
<1>7. front \o back \in Seq(Nat \ {0}) /\ Of(front \o back) = Of(front) \cup Of(back)
    BY <1>5, <1>6, LinesJoined
<1> QED
    BY <1>3, <1>5, <1>6, <1>7

\* What comes and goes with the id: the connection of its device, or the holder's own.
LEMMA IdsKeep ==
    ASSUME GrantInv, IdGoes \/ IdComes \/ AsksForFile \/ HolderReconnects
    PROVE  GrantInv'
<1>1. /\ GrantTypes /\ AskInTurn(heard) /\ Newer(prompts, heard) /\ AskedAll(heard, lastDevice)
      /\ EndsWith(heard, roster, device # 0)
      /\ granted =>
           Warned(heard, roster, MayHave) /\ (NextToHave \in MayHave \/ GoneIn(heard, roster))
      /\ unasked \subseteq MayHave
    BY DEF GrantInv, GrantFollowsDevice, MayHave
<1>2. /\ device \in Nat /\ lastDevice \in Nat /\ device \in {0, lastDevice}
      /\ heard \in Seq(HolderNews) /\ prompts \in Seq(Nat \ {0})
      /\ \A p \in Of(prompts) : p \in Nat /\ p <= lastDevice
      /\ granted \in BOOLEAN /\ grantees \subseteq Nat \ {0} /\ heirs \subseteq Nat
    BY <1>1, LenProperties, ElementOfSeq DEF GrantTypes, Of
<1>3. /\ \A b \in BOOLEAN : <<"peers", b>> \in HolderNews /\ \A d \in Nat : <<"peers", b>> # <<"req", d>>
      /\ <<"peers", TRUE>> # <<"peers", FALSE>>
    BY DEF HolderNews
<1>4. CASE IdGoes
    <2>1. /\ device # 0 /\ device' = 0 /\ heard' = Append(heard, <<"peers", FALSE>>)
          /\ UNCHANGED <<lastDevice, roster, granted, grantees, heirs, prompts, unasked>>
        BY <1>4 DEF IdGoes
    <2>2. EndsWith(heard, roster, TRUE) /\ (device' # 0) = FALSE
        <3>1. (device # 0) = TRUE
            BY <2>1
        <3> QED
            BY <1>1, <2>1, <3>1
    <2>3. /\ heard' \in Seq(HolderNews) /\ AskInTurn(heard') /\ Newer(prompts, heard')
          /\ AskedAll(heard', lastDevice) /\ GoneIn(heard', roster) /\ EndsWith(heard', roster, FALSE)
          /\ Warned(heard, roster, MayHave) => Warned(heard', roster, MayHave)
        <3>1. EndsWith(heard', roster, FALSE)
            BY <1>2, <1>3, <2>1, LastHeard
        <3> QED
            BY <1>1, <1>2, <1>3, <2>1, <2>2, <3>1, MoreHeard
    <2>4. GrantTypes'
        BY <1>1, <1>2, <2>1, <2>3 DEF GrantTypes, Of
    <2>5. EndsWith(heard', roster', device' # 0)
        BY <2>1, <2>2, <2>3
    <2> QED
        BY <1>1, <2>1, <2>3, <2>4, <2>5 DEF GrantInv, GrantFollowsDevice, MayHave
<1>5. CASE IdComes
    <2>1. /\ device = 0 /\ device' = lastDevice + 1 /\ lastDevice' = device'
          /\ heard' = Append(heard, <<"peers", TRUE>>)
          /\ UNCHANGED <<roster, granted, grantees, heirs, prompts, unasked>>
        BY <1>5 DEF IdComes
    <2>2. /\ heard' \in Seq(HolderNews) /\ AskInTurn(heard') /\ Newer(prompts, heard')
          /\ AskedAll(heard', lastDevice) /\ (GoneIn(heard, roster) => GoneIn(heard', roster))
          /\ EndsWith(heard', roster, TRUE)
          /\ Warned(heard, roster, MayHave) => Warned(heard', roster, MayHave)
        <3>1. EndsWith(heard', roster, TRUE)
            BY <1>2, <1>3, <2>1, LastHeard
        <3> QED
            BY <1>1, <1>2, <1>3, <2>1, <3>1, MoreHeard
    <2>3. AskedAll(heard', lastDevice')
        <3>1. \A d \in Nat : d <= lastDevice => d <= lastDevice'
            BY <1>2, <2>1
        <3> QED
            BY <2>2, <3>1 DEF AskedAll
    <2>4. GrantTypes'
        <3>1. lastDevice' \in Nat /\ \A p \in Of(prompts) : p <= lastDevice'
            BY <1>2, <2>1
        <3> QED
            BY <1>1, <1>2, <2>1, <2>2, <3>1 DEF GrantTypes, Of
    <2>5. (device' # 0) = TRUE /\ NextToHave' = NextToHave
        BY <1>2, <2>1 DEF NextToHave
    <2>6. EndsWith(heard', roster', device' # 0)
        BY <2>1, <2>2, <2>5
    <2> QED
        BY <1>1, <2>1, <2>2, <2>3, <2>4, <2>5, <2>6 DEF GrantInv, GrantFollowsDevice, MayHave
<1>6. CASE AsksForFile
    <2>1. /\ device # 0 /\ heard' = Append(heard, <<"req", device>>)
          /\ UNCHANGED <<device, lastDevice, roster, granted, grantees, heirs, prompts, unasked>>
        BY <1>6 DEF AsksForFile
    <2>2. /\ <<"req", device>> \in HolderNews /\ device = lastDevice /\ NextToHave = device
          /\ \A d \in Nat : <<"req", device>> = <<"req", d>> => d = device
          /\ <<"req", device>>[1] = "req" /\ (device # 0) \in BOOLEAN
        BY <1>2, <2>1 DEF HolderNews, NextToHave
    <2>3. \A d \in Nat : <<"req", device>> = <<"req", d>> => d = lastDevice /\ \A p \in Of(prompts) : p <= d
        BY <1>2, <2>2
    <2>4. device \in MayHave \/ GoneIn(heard, roster) =>
             \A d \in Nat : <<"req", device>> = <<"req", d>> => d \in MayHave \/ GoneIn(heard, roster)
        BY <2>2
    <2>5. /\ heard' \in Seq(HolderNews) /\ AskInTurn(heard') /\ Newer(prompts, heard')
          /\ AskedAll(heard', lastDevice) /\ (GoneIn(heard, roster) => GoneIn(heard', roster))
          /\ EndsWith(heard', roster, device # 0)
          /\ Warned(heard, roster, MayHave) /\ (device \in MayHave \/ GoneIn(heard, roster)) =>
                Warned(heard', roster, MayHave)
        <3>1. PICK up \in BOOLEAN : up = (device # 0)
            OBVIOUS
        <3>2. EndsWith(heard, roster, up)
            BY <1>1, <3>1
        <3>3. EndsWith(heard', roster, up)
            BY <1>2, <2>1, <2>2, <3>2, LastHeard
        <3>4. EndsWith(heard', roster, device # 0)
            BY <3>1, <3>3
        <3> QED
            BY <1>1, <1>2, <2>1, <2>2, <2>3, <2>4, <3>4, MoreHeard
    <2>6. GrantTypes'
        BY <1>1, <1>2, <2>1, <2>5 DEF GrantTypes, Of
    <2> QED
        BY <1>1, <2>1, <2>2, <2>5, <2>6 DEF GrantInv, GrantFollowsDevice, MayHave, NextToHave
<1>7. CASE HolderReconnects
    <2>1. /\ heard' = <<<<"peers", device # 0>>>> /\ roster' = "none"
          /\ heirs' = heirs \cup (IF granted THEN {NextToHave} ELSE {})
          /\ UNCHANGED <<device, lastDevice, granted, grantees, prompts, unasked>>
        BY <1>7 DEF HolderReconnects, NextToHave
    <2>2. PICK e : e = <<"peers", device # 0>>
        OBVIOUS
    <2>3. /\ e \in HolderNews /\ (\A d \in Nat : e # <<"req", d>>)
          /\ NextToHave \in Nat
        <3>1. NextToHave \in Nat
            BY <1>2 DEF NextToHave
        <3>2. PICK b \in BOOLEAN : b = (device # 0)
            OBVIOUS
        <3>3. e = <<"peers", b>>
            BY <2>2, <3>2
        <3> QED
            BY <1>3, <3>1, <3>3
    <2>4. heard' \in Seq(HolderNews) /\ DOMAIN heard' = {1} /\ heard'[1] = e
        <3>1. heard' = <<e>>
            BY <2>1, <2>2
        <3> QED
            BY <2>3, <3>1
    <2>5. \A d \in Nat, j \in DOMAIN heard' : ~Asked(heard', j, d)
        BY <2>3, <2>4 DEF Asked
    <2>6. /\ AskInTurn(heard') /\ Newer(prompts, heard') /\ AskedAll(heard', lastDevice)
          /\ Warned(heard', roster', MayHave')
        BY <2>5 DEF AskInTurn, Newer, AskedAll, Warned
    <2>7. EndsWith(heard', roster', device # 0)
        <3>1. PICK b \in BOOLEAN : b = (device # 0)
            OBVIOUS
        <3>2. heard'[1] = <<"peers", b>>
            BY <2>2, <2>4, <3>1
        <3>3. <<"peers", b>> # <<"peers", ~b>>
            OBVIOUS
        <3>4. EndsWith(heard', roster', b)
            BY <2>4, <3>2, <3>3 DEF EndsWith, Roster
        <3> QED
            BY <3>1, <3>4
    <2>8. GrantTypes'
        BY <1>1, <1>2, <2>1, <2>3, <2>4 DEF GrantTypes, Of
    <2>9. MayHave \subseteq MayHave' /\ (granted' => NextToHave' \in MayHave')
        BY <2>1 DEF MayHave, NextToHave
    <2>10. GrantFollowsDevice'
        BY <1>1, <2>1, <2>9 DEF GrantFollowsDevice, MayHave
    <2> QED
        BY <1>1, <2>1, <2>6, <2>7, <2>8, <2>9, <2>10 DEF GrantInv
<1> QED
    BY <1>4, <1>5, <1>6, <1>7

\* What the holder hears.
LEMMA HearingKeeps ==
    ASSUME GrantInv, HearsRoster \/ HearsRequest
    PROVE  GrantInv'
<1>1. /\ GrantTypes /\ AskInTurn(heard) /\ Newer(prompts, heard) /\ AskedAll(heard, lastDevice)
      /\ EndsWith(heard, roster, device # 0)
      /\ granted =>
           Warned(heard, roster, MayHave) /\ (NextToHave \in MayHave \/ GoneIn(heard, roster))
      /\ unasked \subseteq MayHave
    BY DEF GrantInv, GrantFollowsDevice, MayHave
<1>2. /\ device \in Nat /\ lastDevice \in Nat /\ device \in {0, lastDevice}
      /\ heard \in Seq(HolderNews) /\ prompts \in Seq(Nat \ {0})
      /\ \A p \in Of(prompts) : p \in Nat /\ p <= lastDevice
      /\ granted \in BOOLEAN /\ grantees \subseteq Nat \ {0} /\ heirs \subseteq Nat
    BY <1>1, LenProperties, ElementOfSeq DEF GrantTypes, Of
<1>3. heard # <<>> /\ heard' = Tail(heard) /\ UNCHANGED <<device, lastDevice, grantees, heirs>>
    BY DEF HearsRoster, HearsRequest
<1>4. Head(heard) \in HolderNews /\ Head(heard) = heard[1] /\ (device # 0) \in BOOLEAN
    BY <1>2, <1>3, ShorterAt, ElementOfSeq, LenProperties
<1>5. ASSUME Sees(heard[1], roster, roster')
      PROVE  /\ heard' \in Seq(HolderNews)
             /\ AskInTurn(heard') /\ Newer(prompts, heard') /\ AskedAll(heard', lastDevice')
             /\ \A d \in Nat : Head(heard) = <<"req", d>> =>
                   /\ d <= lastDevice /\ (Warned(heard, roster, MayHave) => d \in MayHave)
                   /\ \A j \in DOMAIN heard' : \A c \in Nat : Asked(heard', j, c) => d <= c
             /\ EndsWith(heard', roster', device' # 0)
             /\ ~(roster = "yes" /\ Head(heard) = <<"peers", FALSE>>) =>
                   /\ Warned(heard, roster, MayHave) => Warned(heard', roster', MayHave)
                   /\ GoneIn(heard, roster) => GoneIn(heard', roster')
    BY <1>1, <1>2, <1>3, <1>4, <1>5, FewerHeard
<1>6. MayHave' = MayHave /\ NextToHave' = NextToHave
    BY <1>3 DEF MayHave, NextToHave
<1>7. CASE HearsRoster
    <2>1. PICK present \in BOOLEAN : Head(heard) = <<"peers", present>>
        BY <1>4, <1>7 DEF HearsRoster, HolderNews
    <2>2. /\ roster' = (IF present THEN "yes" ELSE "no")
          /\ granted' = (granted /\ ~(roster = "yes" /\ ~present))
          /\ UNCHANGED <<prompts, unasked>>
        BY <1>7, <2>1 DEF HearsRoster, Forgets
    <2>3. Sees(heard[1], roster, roster')
        BY <1>4, <2>1, <2>2 DEF Sees
    <2>4. GrantTypes'
        BY <1>2, <1>3, <1>5, <2>2, <2>3 DEF GrantTypes, Of
    <2>5. granted' => granted /\ ~(roster = "yes" /\ Head(heard) = <<"peers", FALSE>>)
        <3>1. <<"peers", TRUE>> # <<"peers", FALSE>>
            OBVIOUS
        <3> QED
            BY <2>1, <2>2, <3>1
    <2> QED
        BY <1>1, <1>3, <1>5, <1>6, <2>2, <2>3, <2>4, <2>5 DEF GrantInv, GrantFollowsDevice
<1>8. CASE HearsRequest
    <2>1. PICK d \in Nat \ {0} : Head(heard) = <<"req", d>>
        BY <1>4, <1>8 DEF HearsRequest, HolderNews
    <2>2. /\ UNCHANGED <<roster, granted>>
          /\ granted => unasked' = unasked \cup {d} /\ prompts' = prompts
          /\ ~granted => prompts' = Append(prompts, d) /\ unasked' = unasked
        BY <1>8, <2>1 DEF HearsRequest
    <2>3. /\ Sees(heard[1], roster, roster')
          /\ Head(heard) # <<"peers", FALSE>>
        <3>1. <<"req", d>> # <<"peers", FALSE>> /\ <<"req", d>>[1] = "req"
            OBVIOUS
        <3> QED
            BY <1>4, <2>1, <2>2, <3>1 DEF Sees
    <2>4. /\ d <= lastDevice /\ (Warned(heard, roster, MayHave) => d \in MayHave)
          /\ \A j \in DOMAIN heard' : \A c \in Nat : Asked(heard', j, c) => d <= c
        BY <1>5, <2>1, <2>3
    <2>5. /\ prompts' \in Seq(Nat \ {0})
          /\ Of(prompts') = Of(prompts) \/ Of(prompts') = Of(prompts) \cup {d}
        <3>1. /\ Append(prompts, d) \in Seq(Nat \ {0})
              /\ Of(Append(prompts, d)) = Of(prompts) \cup {d}
            BY <1>2, <2>1, LineLonger
        <3>2. prompts' = prompts \/ prompts' = Append(prompts, d)
            BY <1>2, <2>2
        <3> QED
            BY <1>2, <3>1, <3>2
    <2>6. Newer(prompts', heard')
        BY <1>5, <2>3, <2>4, <2>5 DEF Newer
    <2>7. GrantTypes'
        <3>1. \A p \in Of(prompts') : p <= lastDevice
            BY <1>2, <2>4, <2>5
        <3> QED
            BY <1>2, <1>3, <1>5, <2>2, <2>3, <2>5, <3>1 DEF GrantTypes, Of
    <2>8. unasked' \subseteq MayHave
        BY <1>1, <1>2, <2>2, <2>4
    <2>9. GrantFollowsDevice'
        BY <1>6, <2>8 DEF GrantFollowsDevice, MayHave
    <2> QED
        BY <1>1, <1>3, <1>5, <1>6, <2>2, <2>3, <2>6, <2>7, <2>9 DEF GrantInv
<1> QED
    BY <1>7, <1>8

\* What the user answers, and what expires unanswered.
LEMMA AnswersKeep ==
    ASSUME GrantInv, Sweeps \/ \E i \in DOMAIN prompts : AnswerOne(i) \/ AnswerAlways(i)
    PROVE  GrantInv'
<1>1. /\ GrantTypes /\ AskInTurn(heard) /\ Newer(prompts, heard) /\ AskedAll(heard, lastDevice)
      /\ EndsWith(heard, roster, device # 0)
      /\ granted =>
           Warned(heard, roster, MayHave) /\ (NextToHave \in MayHave \/ GoneIn(heard, roster))
      /\ unasked \subseteq MayHave
    BY DEF GrantInv, GrantFollowsDevice, MayHave
<1>2. /\ device \in Nat /\ lastDevice \in Nat /\ device \in {0, lastDevice}
      /\ heard \in Seq(HolderNews) /\ prompts \in Seq(Nat \ {0})
      /\ \A p \in Of(prompts) : p \in Nat /\ p <= lastDevice
      /\ granted \in BOOLEAN /\ grantees \subseteq Nat \ {0} /\ heirs \subseteq Nat
    BY <1>1, LenProperties, ElementOfSeq DEF GrantTypes, Of
<1>3. UNCHANGED <<device, lastDevice, heard, roster, unasked>>
    BY DEF Sweeps, AnswerOne, AnswerAlways
<1>4. prompts' \in Seq(Nat \ {0}) /\ Of(prompts') \subseteq Of(prompts)
    <2>1. CASE Sweeps
        <3>1. prompts # <<>> /\ prompts' = Tail(prompts)
            BY <2>1 DEF Sweeps, Settled
        <3> QED
            BY <1>2, <3>1, LineShorter
    <2>2. ASSUME NEW i \in DOMAIN prompts, AnswerOne(i)
          PROVE  prompts' \in Seq(Nat \ {0}) /\ Of(prompts') \subseteq Of(prompts)
        <3>1. prompts' = RemoveAt(prompts, i)
            BY <2>2 DEF AnswerOne, Settled
        <3> QED
            BY <1>2, <2>2, <3>1, PromptsFewer
    <2>3. ASSUME NEW i \in DOMAIN prompts, AnswerAlways(i)
          PROVE  prompts' \in Seq(Nat \ {0}) /\ Of(prompts') \subseteq Of(prompts)
        BY <2>3, LineEmpty DEF AnswerAlways, Settled
    <2> QED
        BY <2>1, <2>2, <2>3
<1>5. /\ AskInTurn(heard') /\ Newer(prompts', heard') /\ AskedAll(heard', lastDevice')
    BY <1>1, <1>3, <1>4 DEF Newer
<1>6. CASE UNCHANGED <<granted, heirs, grantees>>
    <2>1. GrantTypes'
        BY <1>2, <1>3, <1>4, <1>6 DEF GrantTypes, Of
    <2> QED
        BY <1>1, <1>3, <1>5, <1>6, <2>1 DEF GrantInv, GrantFollowsDevice, MayHave, NextToHave
<1>7. ASSUME NEW i \in DOMAIN prompts, AnswerAlways(i) PROVE GrantInv'
    <2> DEFINE p == prompts[i]
    <2>1. /\ granted' = TRUE /\ grantees' = grantees \cup {p}
          /\ heirs' = heirs \cup p..LastToHave
        BY <1>7 DEF AnswerAlways
    <2>2. p \in Nat \ {0} /\ p \in Of(prompts) /\ p <= lastDevice
        <3>1. p \in Nat \ {0} /\ p \in Of(prompts)
            BY <1>2, <1>7, ElementOfSeq, LenProperties DEF Of
        <3> QED
            BY <1>2, <3>1
    <2> HIDE DEF p
    <2>3. /\ LastToHave \in {lastDevice, lastDevice + 1}
          /\ NoDepartureToCome => LastToHave = lastDevice + 1
        BY DEF LastToHave
    <2>4. \A d \in Nat : p <= d /\ d <= LastToHave => d \in MayHave'
        <3>1. \A d \in Nat : p <= d /\ d <= LastToHave => d \in p..LastToHave
            BY <1>2, <2>2, <2>3
        <3> QED
            BY <2>1, <3>1 DEF MayHave
    <2>5. GrantTypes'
        <3>1. p..LastToHave \subseteq Nat
            BY <2>2
        <3> QED
            BY <1>2, <1>3, <1>4, <2>1, <2>2, <3>1 DEF GrantTypes, Of
    <2>6. Warned(heard, roster, MayHave')
        <3>1. ASSUME NEW j \in DOMAIN heard, NEW d \in Nat, Asked(heard, j, d) PROVE d \in MayHave'
            <4>1. d <= lastDevice /\ p <= d
                BY <1>1, <2>2, <3>1 DEF AskedAll, Newer
            <4>2. d <= LastToHave
                BY <1>2, <2>3, <4>1
            <4> QED
                BY <2>4, <4>1, <4>2
        <3> QED
            BY <3>1 DEF Warned
    <2>7. NextToHave \in MayHave' \/ GoneIn(heard, roster)
        <3>1. CASE device # 0
            <4>1. NextToHave = lastDevice /\ lastDevice <= LastToHave
                BY <1>2, <2>3, <3>1 DEF NextToHave
            <4> QED
                BY <1>2, <2>2, <2>4, <4>1
        <3>2. CASE NoDepartureToCome
            <4>1. NextToHave = lastDevice + 1 /\ p <= lastDevice + 1
                BY <1>2, <2>2, <3>2 DEF NextToHave, NoDepartureToCome
            <4> QED
                BY <1>2, <2>3, <2>4, <3>2, <4>1
        <3>3. CASE device = 0 /\ ~NoDepartureToCome
            <4>1. EndsWith(heard, roster, FALSE)
                <5>1. (device # 0) = FALSE
                    BY <3>3
                <5> QED
                    BY <1>1, <5>1
            <4>2. CASE roster = "yes"
                BY <4>1, <4>2 DEF EndsWith, GoneIn, Parting
            <4>3. ASSUME NEW j \in DOMAIN heard, Roster(heard, j, TRUE) PROVE GoneIn(heard, roster)
                <5>1. PICK k \in DOMAIN heard : j < k /\ Roster(heard, k, FALSE)
                    BY <4>1, <4>3 DEF EndsWith
                <5> QED
                    BY <4>3, <5>1 DEF GoneIn, Parting
            <4> QED
                BY <3>3, <4>2, <4>3 DEF NoDepartureToCome, Roster
        <3> QED
            BY <3>1, <3>2, <3>3
    <2>8. NextToHave' = NextToHave
        BY <1>3 DEF NextToHave
    <2>9. GrantFollowsDevice'
        BY <1>1, <1>3, <2>1 DEF GrantFollowsDevice, MayHave
    <2> QED
        BY <1>1, <1>3, <1>5, <2>1, <2>5, <2>6, <2>7, <2>8, <2>9 DEF GrantInv
<1> QED
    BY <1>6, <1>7 DEF Sweeps, AnswerOne

\* No device is served without a prompt but those the user allowed and those that follow
\* one with no departure between them for the holder to hear: transfer.js:1055-1059.
THEOREM GrantsStay == GrantsInit /\ [][GrantsNext]_grantsVars => []GrantFollowsDevice
<1>1. GrantsInit => GrantInv
    <2>1. Of(<<>>) = {} /\ DOMAIN <<>> = {} /\ <<>> \in Seq(HolderNews) /\ <<>> \in Seq(Nat \ {0})
        BY EmptySeq, LineEmpty
    <2>2. AskInTurn(<<>>) /\ Newer(<<>>, <<>>) /\ AskedAll(<<>>, 0)
        BY <2>1 DEF AskInTurn, Newer, AskedAll
    <2>3. ASSUME GrantsInit PROVE GrantTypes
        <3>1. /\ device = 0 /\ lastDevice = 0 /\ heard = <<>> /\ prompts = <<>>
              /\ granted = FALSE /\ grantees = {} /\ heirs = {}
            BY <2>3 DEF GrantsInit
        <3>2. Of(prompts) = {} /\ heard \in Seq(HolderNews) /\ prompts \in Seq(Nat \ {0})
            BY <2>1, <3>1
        <3> QED
            BY <3>1, <3>2 DEF GrantTypes
    <2>4. GrantsInit => GrantFollowsDevice /\ ~granted
        BY DEF GrantsInit, GrantFollowsDevice
    <2>6. GrantsInit => EndsWith(heard, roster, device # 0)
        <3>1. ASSUME GrantsInit PROVE DOMAIN heard = {} /\ (roster = "yes") = FALSE /\ (device # 0) = FALSE
            BY <2>1, <3>1 DEF GrantsInit
        <3> QED
            BY <3>1 DEF EndsWith
    <2>5. GrantsInit => AskInTurn(heard) /\ Newer(prompts, heard) /\ AskedAll(heard, lastDevice)
        BY <2>2 DEF GrantsInit
    <2> QED
        BY <2>3, <2>4, <2>5, <2>6 DEF GrantInv
<1>2. GrantInv /\ [GrantsNext]_grantsVars => GrantInv'
    <2>1. ASSUME GrantInv, UNCHANGED grantsVars PROVE GrantInv'
        BY <2>1 DEF GrantInv, grantsVars, GrantTypes, Of, GrantFollowsDevice, MayHave, NextToHave
    <2> QED
        BY <2>1, IdsKeep, HearingKeeps, AnswersKeep DEF GrantsNext, GrantsWork
<1>3. GrantInv => GrantFollowsDevice
    BY DEF GrantInv
<1> QED
    BY <1>1, <1>2, <1>3, PTL
-----------------------------------------------------------------------------
(* The toasts *)

\* The queue is in the order the messages were made.
ToastInv ==
    /\ made \in Nat /\ toasts \in Seq(Nat) /\ Rising(toasts)
    /\ \A x \in Of(toasts) : x <= made

\* The end of a line that rises: it rises, and what was cut off is less.
LEMMA EndRises ==
    ASSUME NEW s \in Seq(Nat), Rising(s), NEW k \in 1..(Len(s) + 1)
    PROVE  LET e == SubSeq(s, k, Len(s)) IN
           /\ e \in Seq(Nat) /\ Rising(e) /\ Of(e) \subseteq Of(s)
           /\ \A a \in Of(s) \ Of(e), b \in Of(e) : a < b
<1> DEFINE e == SubSeq(s, k, Len(s))
<1>1. Len(s) \in Nat /\ DOMAIN s = 1..Len(s) /\ k \in Nat /\ 1 <= k /\ k <= Len(s) + 1
    BY LenProperties
<1>2. \A i \in k..Len(s) : i \in 1..Len(s)
    BY <1>1
<1>3. /\ e \in Seq(Nat) /\ Len(e) = IF k <= Len(s) THEN Len(s) - k + 1 ELSE 0
      /\ \A i \in 1..(Len(s) - k + 1) : e[i] = s[k + i - 1]
    <2>1. \A i \in k..Len(s) : s[i] \in Nat
        BY <1>1, <1>2, ElementOfSeq
    <2> QED
        BY <1>1, <2>1, SubSeqProperties
<1>4. Len(e) = Len(s) - k + 1
    BY <1>1, <1>3
<1>5. DOMAIN e = 1..(Len(s) - k + 1)
    BY <1>3, <1>4, LenProperties
<1> HIDE DEF e
<1>6. /\ \A i \in DOMAIN e : k + i - 1 \in DOMAIN s /\ e[i] = s[k + i - 1] /\ i \in Int
      /\ \A i \in DOMAIN s : i < k \/ (i - k + 1 \in DOMAIN e /\ e[i - k + 1] = s[i])
    <2>1. \A i \in 1..(Len(s) - k + 1) : k + i - 1 \in 1..Len(s) /\ i \in Int
        BY <1>1
    <2>2. ASSUME NEW i \in 1..Len(s), ~(i < k)
          PROVE  i - k + 1 \in 1..(Len(s) - k + 1) /\ k + (i - k + 1) - 1 = i
        BY <1>1, <2>2
    <2>3. ASSUME NEW i \in 1..Len(s), ~(i < k)
          PROVE  i - k + 1 \in DOMAIN e /\ e[i - k + 1] = s[i]
        BY <1>3, <1>5, <2>2, <2>3
    <2> QED
        BY <1>1, <1>3, <1>5, <2>1, <2>3
<1>7. Rising(e)
    <2>1. SUFFICES ASSUME NEW i \in DOMAIN e, NEW j \in DOMAIN e, i < j PROVE e[i] < e[j]
        BY DEF Rising
    <2>2. k + i - 1 < k + j - 1
        BY <1>1, <1>6, <2>1
    <2> QED
        BY <1>6, <2>2 DEF Rising
<1>8. Of(e) \subseteq Of(s)
    BY <1>6 DEF Of
<1>9. ASSUME NEW a \in Of(s) \ Of(e), NEW b \in Of(e) PROVE a < b
    <2>1. PICK i \in DOMAIN s : s[i] = a
        BY DEF Of
    <2>2. PICK j \in DOMAIN e : e[j] = b
        BY DEF Of
    <2>3. i < k
        BY <1>6, <2>1 DEF Of
    <2>4. i < k + j - 1
        BY <1>1, <1>5, <2>2, <2>3
    <2> QED
        BY <1>6, <2>1, <2>2, <2>4 DEF Rising
<1> QED
    BY <1>3, <1>7, <1>8, <1>9 DEF e

\* The pump leaves the queue, or its tail, or nothing of it shown twice.
LEMMA PumpLeaves ==
    ASSUME NEW queue \in Seq(Nat), Rising(queue), NEW timer, PumpToast(queue, timer) \/ Hide(queue)
    PROVE  toasts' \in Seq(Nat) /\ Rising(toasts') /\ Of(toasts') \subseteq Of(queue)
<1>1. toasts' = queue \/ (queue # <<>> /\ toasts' = Tail(queue))
    BY DEF PumpToast, Hide, Paint
<1>2. CASE toasts' = queue
    BY <1>2
<1>3. CASE queue # <<>> /\ toasts' = Tail(queue)
    <2>1. /\ Tail(queue) \in Seq(Nat) /\ Of(queue) = Of(Tail(queue)) \cup {Head(queue)}
        BY <1>3, LineShorter
    <2>2. \A i \in DOMAIN Tail(queue) : i \in Nat /\ i + 1 \in DOMAIN queue /\ Tail(queue)[i] = queue[i + 1]
        BY <1>3, ShorterAt
    <2>3. Rising(Tail(queue))
        <3>1. SUFFICES ASSUME NEW i \in DOMAIN Tail(queue), NEW j \in DOMAIN Tail(queue), i < j
                       PROVE  Tail(queue)[i] < Tail(queue)[j]
            BY DEF Rising
        <3>2. i + 1 < j + 1
            BY <2>2, <3>1
        <3> QED
            BY <2>2, <3>2 DEF Rising
    <2> QED
        BY <1>3, <2>1, <2>3
<1> QED
    BY <1>1, <1>2, <1>3

\* A message comes: what a burst drops is older than all that wait.
LEMMA BurstDrops ==
    ASSUME ToastInv, ShowsToast, ToastMax \in Nat
    PROVE  ToastInv' /\ \A a \in skipped' \ skipped : \A i \in DOMAIN toasts' : a < toasts'[i]
<1> DEFINE all == Append(toasts, made')
           queue == IF Len(all) > ToastMax THEN Kept(all) ELSE all
<1>1. /\ made' = made + 1 /\ PumpToast(queue, pumpTimer)
      /\ skipped' = skipped \cup (Of(all) \ Of(queue))
    BY DEF ShowsToast, Of
<1>2. made \in Nat /\ toasts \in Seq(Nat) /\ Rising(toasts) /\ \A x \in Of(toasts) : x \in Nat /\ x <= made
    BY ElementOfSeq, LenProperties DEF ToastInv, Of
<1>3. made' \in Nat /\ made <= made' /\ \A x \in Of(toasts) : x < made'
    BY <1>1, <1>2
<1>4. all \in Seq(Nat) /\ Rising(all) /\ Of(all) = Of(toasts) \cup {made'}
    BY <1>2, <1>3, RisesOn, LineLonger
<1>5. \A x \in Of(all) : x <= made'
    BY <1>2, <1>3, <1>4
<1> HIDE DEF all
<1>6. /\ queue \in Seq(Nat) /\ Rising(queue) /\ Of(queue) \subseteq Of(all)
      /\ \A a \in Of(all) \ Of(queue), b \in Of(queue) : a < b
    <2>1. CASE Len(all) > ToastMax
        <3>1. Len(all) - ToastMax + 1 \in 1..(Len(all) + 1)
            <4>1. Len(all) \in Nat
                BY <1>4, LenProperties
            <4> QED
                BY <2>1, <4>1
        <3>2. queue = SubSeq(all, Len(all) - ToastMax + 1, Len(all))
            BY <2>1 DEF Kept
        <3> HIDE DEF queue
        <3> QED
            BY <1>4, <3>1, <3>2, EndRises
    <2>2. CASE ~(Len(all) > ToastMax)
        BY <1>4, <2>2
    <2> QED
        BY <2>1, <2>2
<1> HIDE DEF queue
<1>7. toasts' \in Seq(Nat) /\ Rising(toasts') /\ Of(toasts') \subseteq Of(queue)
    BY <1>1, <1>6, PumpLeaves
<1>8. ToastInv'
    <2>1. \A x \in Of(toasts') : x <= made'
        BY <1>5, <1>6, <1>7
    <2> QED
        BY <1>3, <1>7, <2>1 DEF ToastInv, Of
<1>9. ASSUME NEW a \in skipped' \ skipped, NEW i \in DOMAIN toasts' PROVE a < toasts'[i]
    <2>1. a \in Of(all) \ Of(queue) /\ toasts'[i] \in Of(queue)
        BY <1>1, <1>7, <1>9 DEF Of
    <2> QED
        BY <1>6, <2>1
<1> QED
    BY <1>8, <1>9

\* A burst drops the oldest of the messages, and nothing else but a dismissal, which leaves
\* none, drops any: toast.js:7-18.
THEOREM BurstsDropOldest == ToastInit /\ [][ToastNext]_toastVars => BurstKeepsNewest
<1> DEFINE Fresh == \A a \in skipped' \ skipped : \A i \in DOMAIN toasts' : a < toasts'[i]
<1>1. ToastInit => ToastInv
    <2>1. Of(<<>>) = {} /\ DOMAIN <<>> = {} /\ <<>> \in Seq(Nat)
        BY EmptySeq, LineEmpty
    <2>2. Rising(<<>>)
        BY <2>1 DEF Rising
    <2> QED
        BY <2>1, <2>2 DEF ToastInit, ToastInv
<1>2. ToastInv /\ [ToastNext]_toastVars => ToastInv' /\ (Fresh \/ UNCHANGED toastVars)
    <2>1. CASE ToastInv /\ ShowsToast
        <3>1. ToastMax \in Nat
            BY ShellAssumption DEF ShellAssumption
        <3> QED
            BY <2>1, <3>1, BurstDrops
    <2>2. CASE ToastInv /\ (ShowsAgain \/ MinimumEnds \/ UNCHANGED toastVars)
        BY <2>2 DEF ToastInv, ShowsAgain, MinimumEnds, toastVars, Rising, Of
    <2>3. CASE ToastInv /\ (PumpFires \/ HideFires)
        <3>1. UNCHANGED <<made, skipped>> /\ (PumpToast(toasts, FALSE) \/ Hide(toasts))
            BY <2>3 DEF PumpFires, HideFires
        <3>2. made \in Nat /\ toasts \in Seq(Nat) /\ Rising(toasts) /\ \A x \in Of(toasts) : x <= made
            BY <2>3 DEF ToastInv
        <3>3. toasts' \in Seq(Nat) /\ Rising(toasts') /\ Of(toasts') \subseteq Of(toasts)
            BY <3>1, <3>2, PumpLeaves
        <3> QED
            BY <3>1, <3>2, <3>3 DEF ToastInv, Of
    <2>4. CASE ToastInv /\ DismissesToast
        <3>1. toasts' = <<>> /\ made' = made /\ made \in Nat
            BY <2>4 DEF DismissesToast, Hide, ToastInv
        <3>2. Of(<<>>) = {} /\ DOMAIN <<>> = {} /\ <<>> \in Seq(Nat)
            BY EmptySeq, LineEmpty
        <3>3. Rising(<<>>)
            BY <3>2 DEF Rising
        <3> QED
            BY <3>1, <3>2, <3>3 DEF ToastInv
    <2> QED
        BY <2>1, <2>2, <2>3, <2>4 DEF ToastNext, ToastWork
<1> QED
    BY <1>1, <1>2, PTL DEF BurstKeepsNewest
-----------------------------------------------------------------------------
(* The kill switch (Shell).                                                *)

\* A worker that waits is the only new one when it is the switch's, which only a site that
\* serves the switch can have handed out, and which never becomes the worker of a page.
SwitchInv ==
    /\ site \in 1..Kill /\ installing \in 0..Kill /\ waiting \in 0..Kill /\ active \in 0..Kill
    /\ Kill \in {installing, waiting} => site = Kill
    /\ waiting = Kill => installing = 0
    /\ active # Kill

\* The switch is what the site serves, and no other worker is there or on its way.
Switched == site = Kill /\ installing \in {0, Kill} /\ waiting \in {0, Kill} /\ Evicted

\* The switch that leaves the queue of workers takes every worker and cache with it; and
\* neither tab, reload or failed swap brings one of them back: sw.js:32-43.
SwitchIsFinal == [][(waiting = Kill /\ waiting' # Kill) \/ Switched => Switched']_shellVars

\* The builds are numbered, the switch last.
LEMMA KillIsLast == MaxVersion \in Nat /\ Kill \in Nat /\ Kill = MaxVersion + 1 /\ Kill > 1
BY ShellAssumption DEF ShellAssumption, Kill

\* A step of the browser or of a page that leaves the workers and caches alone.
LEMMA WorkersRest ==
    ASSUME SwitchInv, UNCHANGED <<site, installing, waiting, active, shells>>
    PROVE  SwitchInv' /\ (waiting' = waiting) /\ (Switched => Switched')
BY DEF SwitchInv, Switched, Evicted

\* Each step keeps the switch last, and final.
LEMMA SwitchStep ==
    ASSUME SwitchInv, ShellWorkerNext
    PROVE  SwitchInv' /\ ((waiting = Kill /\ waiting' # Kill) \/ Switched => Switched')
<1>1. CASE Deploys
    <2>1. /\ site <= MaxVersion /\ site' = site + 1 /\ UNCHANGED <<installing, waiting, active, shells>>
        BY <1>1 DEF Deploys, WorkersUnchanged
    <2>2. site # Kill /\ site' \in 1..Kill
        BY <2>1, KillIsLast DEF SwitchInv
    <2> QED
        BY <2>1, <2>2 DEF SwitchInv, Switched
<1>2. CASE UpdateFound
    <2>1. /\ installing = 0 /\ site \notin {waiting, active} /\ installing' = site
          /\ shells' = shells \cup ({site} \ {Kill}) /\ UNCHANGED <<site, waiting, active>>
        BY <1>2 DEF UpdateFound
    <2>2. waiting # Kill
        BY <2>1 DEF SwitchInv
    <2>3. SwitchInv'
        BY <2>1, <2>2 DEF SwitchInv
    <2>4. Switched => Switched'
        BY <2>1 DEF Switched, Evicted
    <2> QED
        BY <2>1, <2>2, <2>3, <2>4
<1>3. CASE Installed
    <2>1. /\ installing # 0 /\ installing' = 0 /\ waiting' = installing
          /\ UNCHANGED <<site, active, shells>>
        BY <1>3 DEF Installed
    <2>2. waiting # Kill
        BY <2>1 DEF SwitchInv
    <2>3. SwitchInv'
        BY <2>1, KillIsLast DEF SwitchInv
    <2>4. Switched => Switched'
        BY <2>1 DEF Switched, Evicted
    <2> QED
        BY <2>2, <2>3, <2>4
<1>4. CASE Activates
    <2>1. /\ waiting # 0 /\ waiting' = 0 /\ shells' = shells \cap ({waiting} \ {Kill})
          /\ active' = (IF waiting = Kill THEN 0 ELSE waiting) /\ UNCHANGED <<site, installing>>
        BY <1>4 DEF Activates
    <2>2. SwitchInv'
        BY <2>1, KillIsLast DEF SwitchInv
    <2>3. ASSUME waiting = Kill  PROVE Switched'
        BY <2>1, <2>3 DEF SwitchInv, Switched, Evicted
    <2>4. Switched => waiting = Kill
        BY <2>1 DEF Switched
    <2> QED
        BY <2>2, <2>3, <2>4
<1>5. CASE NetFlips \/ \E p \in Page : ControllerChanged(p) \/ ClicksReload(p) \/ Dismisses(p)
                                        \/ GivesUpOnSwap(p) \/ Navigates(p)
    <2>1. UNCHANGED <<site, installing, waiting, active, shells>>
        BY <1>5 DEF NetFlips, ControllerChanged, ClicksReload, Dismisses, GivesUpOnSwap, Navigates,
                    WorkersUnchanged
    <2> QED
        BY <2>1, WorkersRest
<1> QED
    BY <1>1, <1>2, <1>3, <1>4, <1>5 DEF ShellWorkerNext

\* An update reloads a page whose user asked, and no other; and once the switch is active,
\* every worker and every cache is gone for good: sw.js:32-43, install.js:294-297.
THEOREM SwitchStays ==
    ShellWorkerInit /\ [][ShellWorkerNext]_shellVars => []NoSurpriseReload /\ SwitchIsFinal
<1> DEFINE Final == (waiting = Kill /\ waiting' # Kill) \/ Switched => Switched'
<1>1. ShellWorkerInit => SwitchInv /\ NoSurpriseReload
    BY KillIsLast DEF ShellWorkerInit, SwitchInv, NoSurpriseReload
<1>2. SwitchInv /\ [ShellWorkerNext]_shellVars => SwitchInv' /\ (Final \/ UNCHANGED shellVars)
    <2>1. CASE SwitchInv /\ ShellWorkerNext
        BY <2>1, SwitchStep
    <2>2. CASE SwitchInv /\ UNCHANGED shellVars
        BY <2>2 DEF SwitchInv, shellVars
    <2> QED
        BY <2>1, <2>2
<1>3. NoSurpriseReload /\ [ShellWorkerNext]_shellVars => NoSurpriseReload'
    <2> SUFFICES ASSUME NoSurpriseReload, [ShellWorkerNext]_shellVars  PROVE ~surprised'
        BY DEF NoSurpriseReload
    <2>1. CASE \E p \in Page : ControllerChanged(p)
        BY <2>1 DEF ControllerChanged, Swaps, NoSurpriseReload
    <2>2. CASE ~ \E p \in Page : ControllerChanged(p)
        <3>1. UNCHANGED surprised
            BY <2>2 DEF ShellWorkerNext, Deploys, NetFlips, UpdateFound, Activates, Installed,
                        ClicksReload, Dismisses, GivesUpOnSwap, Navigates, PagesUnchanged, shellVars
        <3> QED
            BY <3>1 DEF NoSurpriseReload
    <2> QED
        BY <2>1, <2>2
<1> QED
    BY <1>1, <1>2, <1>3, PTL DEF SwitchIsFinal
-----------------------------------------------------------------------------
(* The editor *)

\* An idle timer that runs was armed on what is still on screen.
EditorInv == IdleCommitsOwn /\ idleFor \in {NoText, ta}

\* What the idle timer makes a clip of is what it was armed on; what a peer sends takes
\* nothing away that was not sent: editor.js:257-266.
THEOREM TypingIsKept ==
    EditorInit /\ [][EditorNext]_editorVars => []IdleCommitsOwn /\ PeerNeverOverwrites
<1> DEFINE Kindly == Unsent /\ ta' # ta => lastBy' = "user"
<1>1. EditorInit => EditorInv
    BY DEF EditorInit, EditorInv, IdleCommitsOwn
<1>2. EditorInv /\ [EditorNext]_editorVars => EditorInv' /\ (Kindly \/ UNCHANGED editorVars)
    <2>1. SUFFICES ASSUME EditorInv, [EditorNext]_editorVars
                   PROVE  EditorInv' /\ (Kindly \/ UNCHANGED editorVars)
        OBVIOUS
    <2>2. CASE UNCHANGED editorVars
        BY <2>1, <2>2 DEF EditorInv, IdleCommitsOwn, editorVars
    <2>3. CASE TypesBlank \/ TypesBack \/ (\E bulk \in {"small", "large", "huge"} : Types(bulk))
        <3>1. ta' = idleFor' /\ lastBy' = "user" /\ idleCommits' = idleCommits
            BY <2>3 DEF Types, TypesBlank, TypesBack, Input
        <3> QED
            BY <2>1, <3>1 DEF EditorInv, IdleCommitsOwn
    <2>4. CASE Clears \/ Accepts
        BY <2>1, <2>4 DEF EditorInv, IdleCommitsOwn, Clears, Accepts, Filled
    <2>5. CASE IdleFires
        <3>1. idleFor = ta /\ ta' = ta /\ idleFor' = NoText
            BY <2>1, <2>5 DEF EditorInv, IdleFires, Commit
        <3>2. idleCommits' \in {idleCommits, idleCommits \cup {<<ta, idleFor>>}}
            BY <2>5 DEF IdleFires, Commit
        <3>3. IdleCommitsOwn'
            BY <2>1, <3>1, <3>2 DEF EditorInv, IdleCommitsOwn
        <3> QED
            BY <3>1, <3>3 DEF EditorInv
    <2>6. CASE Blur
        BY <2>1, <2>6 DEF EditorInv, IdleCommitsOwn, Blur, Commit
    <2>7. CASE StreamFires
        BY <2>1, <2>7 DEF EditorInv, IdleCommitsOwn, StreamFires
    <2>8. CASE PeerTypes
        BY <2>1, <2>8 DEF EditorInv, IdleCommitsOwn, PeerTypes, IdleStopped, Dirty, Unsent
    <2>9. ASSUME NEW onClipboard \in BOOLEAN, NEW bulk \in {"small", "large"}, ClipComes(onClipboard, bulk)
          PROVE  EditorInv' /\ Kindly
        BY <2>1, <2>9 DEF EditorInv, IdleCommitsOwn, ClipComes, Filled, Dirty, Unsent
    <2> QED
        BY <2>1, <2>2, <2>3, <2>4, <2>5, <2>6, <2>7, <2>8, <2>9 DEF EditorNext, EditorWork
<1>3. EditorInv => IdleCommitsOwn
    BY DEF EditorInv
<1> QED
    BY <1>1, <1>2, <1>3, PTL DEF PeerNeverOverwrites
-----------------------------------------------------------------------------
(* The outbox of the event-stream channel *)

\* How often a frame was handled, and how many of some posts hold it.
Times(g, n) == Cardinality({i \in DOMAIN g : g[i] = n})
Waits(posts, n) == Cardinality({p \in posts : n \in Of(p.frames)})
\* The tries of a frame that were handled or still may be: of posts given up, and of the
\* batch b if it has not arrived.
Tries(g, posts, up, b, n) ==
    Times(g, n) + Waits(posts, n) + (IF up /\ n \in Of(b) THEN 1 ELSE 0)
\* The posts that may still be handled; the frames that are in one, or will be.
Posts(posts) == {p.frames : p \in posts}
Flying == Posts(late) \cup (IF posted THEN {batch} ELSE {})
InPosts(posts) == UNION {Of(s) : s \in Posts(posts)}

Channels ==
    /\ sid \in BOOLEAN /\ done \in BOOLEAN /\ retried \in BOOLEAN /\ retryDue \in BOOLEAN
    /\ posted \in BOOLEAN /\ gone \in BOOLEAN /\ answer \in {"none", "ok", "gone"} /\ sent \in Nat
    /\ batch \in Seq(1..sent) /\ outbox \in Seq(1..sent) /\ got \in Seq(1..sent)
    /\ Rising(batch) /\ Rising(outbox)
    /\ \A a \in Of(batch) : \A b \in Of(outbox) : a < b
    /\ Len(batch) <= BatchMax
\* The posts given up, each of the one line of frames.
GivenUp(posts, top) ==
    /\ IsFiniteSet(posts)
    /\ posts \subseteq [frames : Seq(1..top), again : BOOLEAN]
    /\ \A p \in posts : Rising(p.frames)
\* What flight() knows of the batch.
Flights ==
    /\ posted => batch # <<>>
    /\ answer # "none" => batch # <<>>
    /\ retryDue => retried /\ batch = <<>>
    /\ answer = "ok" /\ ~gone => Of(batch) \subseteq Of(got)
    /\ answer = "gone" => gone
\* Nothing was tried more than twice, what has a try left once at most, and what waits in
\* the outbox never, those of the batch that goes again excepted.
TriedTwice ==
    /\ \A n \in 1..sent : Tries(got, late, posted, batch, n) <= 2
    /\ batch # <<>> /\ ~retried => \A n \in Of(batch) : Tries(got, late, posted, batch, n) <= 1
    /\ ~done => \A i \in DOMAIN outbox :
                    Tries(got, late, posted, batch, outbox[i])
                    <= IF retryDue /\ i <= BatchMax THEN 1 ELSE 0
\* A frame that may come and has neither come nor been given up comes after all that
\* came, and after all of every post that it is not in.
After(m, g, d, posts) ==
    \/ m \in Of(g) \cup d
    \/ /\ \A n \in Of(g) : n < m
       /\ \A s \in posts : m \in Of(s) \/ \A n \in Of(s) : n < m
InTime ==
    ~gone =>
    /\ \A m \in Of(batch) \cup Of(outbox) \cup InPosts(late) : After(m, got, dropped, Flying)
    /\ ~done => InPosts(late) \subseteq Of(batch) \cup Of(outbox) \cup Of(got) \cup dropped
\* What was handled is in order, but for frames given up.
FirstsRise(g, d) ==
    \A i \in DOMAIN g :
        (\A j \in DOMAIN g : j < i => g[j] # g[i])
        => g[i] \in d \/ \A j \in DOMAIN g : j < i => g[j] < g[i]
SseInv == Channels /\ GivenUp(late, sent) /\ Flights /\ TriedTwice /\ InTime /\ FirstsRise(got, dropped)

\* Of some naturals one is the least.
LEMMA EarliestOf == ASSUME NEW S \in SUBSET Nat, S # {} PROVE \E i \in S : \A j \in S : i <= j
<1> DEFINE R == {ss \in Nat \X Nat : ss[1] < ss[2]}
<1>1. IsWellFoundedOn(R, Nat)
    BY NatLessThanWellFounded DEF OpToRel
<1>2. \A x, y \in Nat : x < y => <<x, y>> \in R
    OBVIOUS
<1> HIDE DEF R
<1>3. PICK x \in S : \A y \in S : ~(<<y, x>> \in R)
    BY <1>1, WFMin
<1>4. \A y \in S : ~(y < x)
    BY <1>2, <1>3
<1> QED
    BY <1>4

\* Of two lines joined: what stands where.
LEMMA JoinedAt ==
    ASSUME NEW g \in Seq(Nat), NEW s \in Seq(Nat)
    PROVE  /\ g \o s \in Seq(Nat)
           /\ DOMAIN g = 1..Len(g) /\ DOMAIN s = 1..Len(s) /\ Len(g) \in Nat /\ Len(s) \in Nat
           /\ DOMAIN (g \o s) = 1..(Len(g) + Len(s))
           /\ \A i \in DOMAIN g : (g \o s)[i] = g[i]
           /\ \A i \in DOMAIN (g \o s) : i \notin DOMAIN g =>
                  i - Len(g) \in DOMAIN s /\ (g \o s)[i] = s[i - Len(g)]
<1>1. /\ g \o s \in Seq(Nat) /\ Len(g \o s) = Len(g) + Len(s)
      /\ Len(g) \in Nat /\ Len(s) \in Nat
      /\ DOMAIN g = 1..Len(g) /\ DOMAIN s = 1..Len(s)
      /\ \A i \in 1..(Len(g) + Len(s)) : (g \o s)[i] = IF i <= Len(g) THEN g[i] ELSE s[i - Len(g)]
    BY ConcatProperties, LenProperties
<1>2. DOMAIN (g \o s) = 1..(Len(g) + Len(s))
    BY <1>1, LenProperties
<1> QED
    BY <1>1, <1>2

\* Handling a post that climbs is one time more for each frame of it.
LEMMA TimesMore ==
    ASSUME NEW g \in Seq(Nat), NEW s \in Seq(Nat), Rising(s), NEW n \in Nat
    PROVE  /\ Times(g, n) \in Nat /\ Times(g \o s, n) \in Nat
           /\ Times(g \o s, n) <= Times(g, n) + (IF n \in Of(s) THEN 1 ELSE 0)
<1> DEFINE D == {i \in DOMAIN g : g[i] = n}
           E == {i \in DOMAIN (g \o s) : (g \o s)[i] = n}
<1>1. IsFiniteSet(D) /\ IsFiniteSet(E)
    <2>1. IsFiniteSet(DOMAIN g) /\ IsFiniteSet(DOMAIN (g \o s))
        <3>1. IsFiniteSet(1..Len(g)) /\ IsFiniteSet(1..(Len(g) + Len(s)))
            BY JoinedAt, FS_Interval
        <3> QED
            BY <3>1, JoinedAt
    <2>2. D \subseteq DOMAIN g /\ E \subseteq DOMAIN (g \o s)
        OBVIOUS
    <2> HIDE DEF D, E
    <2> QED
        BY <2>1, <2>2, FS_Subset
<1>2. Times(g, n) = Cardinality(D) /\ Times(g \o s, n) = Cardinality(E)
    BY DEF Times
<1>3. Cardinality(D) \in Nat /\ Cardinality(E) \in Nat
    BY <1>1, FS_CardinalityType
<1>4. \A i \in E : i \in D \/ (i - Len(g) \in DOMAIN s /\ s[i - Len(g)] = n)
    BY JoinedAt
<1>5. CASE n \notin Of(s)
    <2>1. E \subseteq D
        BY <1>4, <1>5 DEF Of
    <2> HIDE DEF D, E
    <2>2. Cardinality(E) <= Cardinality(D)
        BY <1>1, <2>1, FS_Subset
    <2> QED
        BY <1>2, <1>3, <1>5, <2>2
<1>6. CASE n \in Of(s)
    <2>1. PICK j \in DOMAIN s : s[j] = n
        BY <1>6 DEF Of
    <2>2. /\ \A i \in DOMAIN s : s[i] \in Nat
          /\ DOMAIN s = 1..Len(s) /\ Len(s) \in Nat /\ Len(g) \in Nat
          /\ DOMAIN (g \o s) = 1..(Len(g) + Len(s))
        BY JoinedAt, ElementOfSeq
    <2>3. \A i \in DOMAIN s : s[i] = n => i = j
        <3>1. \A i \in DOMAIN s : i < j => s[i] < s[j]
            BY <2>1 DEF Rising
        <3>2. \A i \in DOMAIN s : j < i => s[j] < s[i]
            BY <2>1 DEF Rising
        <3> QED
            BY <2>1, <2>2, <3>1, <3>2
    <2>4. E \subseteq D \cup {Len(g) + j}
        <3>1. \A i \in E : i \in D \/ i - Len(g) = j
            BY <1>4, <2>3
        <3>2. \A i \in E : i \in Nat
            BY <2>2
        <3> QED
            BY <2>1, <2>2, <3>1, <3>2
    <2> HIDE DEF D, E
    <2>5. /\ IsFiniteSet(D \cup {Len(g) + j})
          /\ Cardinality(D \cup {Len(g) + j}) <= Cardinality(D) + 1
          /\ Cardinality(D \cup {Len(g) + j}) \in Nat
        <3>1. /\ IsFiniteSet(D \cup {Len(g) + j})
              /\ \/ Cardinality(D \cup {Len(g) + j}) = Cardinality(D) + 1
                 \/ Cardinality(D \cup {Len(g) + j}) = Cardinality(D)
            BY <1>1, FS_AddElement
        <3> QED
            BY <1>3, <3>1
    <2>6. Cardinality(E) <= Cardinality(D \cup {Len(g) + j})
        BY <2>4, <2>5, FS_Subset
    <2> QED
        BY <1>2, <1>3, <1>6, <2>5, <2>6
<1> QED
    BY <1>5, <1>6

\* One post less, and one more.
LEMMA WaitsChange ==
    ASSUME NEW posts, IsFiniteSet(posts), NEW p, NEW n
    PROVE  /\ Waits(posts, n) \in Nat
           /\ IsFiniteSet(posts \ {p}) /\ IsFiniteSet(posts \cup {p})
           /\ p \in posts => Waits(posts \ {p}, n)
                             = Waits(posts, n) - (IF n \in Of(p.frames) THEN 1 ELSE 0)
           /\ Waits(posts \cup {p}, n) <= Waits(posts, n) + (IF n \in Of(p.frames) THEN 1 ELSE 0)
<1> DEFINE D(ps) == {q \in ps : n \in Of(q.frames)}
<1>1. IsFiniteSet(posts \ {p}) /\ IsFiniteSet(posts \cup {p})
    BY FS_AddElement, FS_RemoveElement
<1>2. /\ IsFiniteSet(D(posts)) /\ IsFiniteSet(D(posts \ {p})) /\ IsFiniteSet(D(posts \cup {p}))
      /\ Cardinality(D(posts)) \in Nat
    BY <1>1, FS_Subset, FS_CardinalityType
<1>3. /\ Waits(posts, n) = Cardinality(D(posts))
      /\ Waits(posts \ {p}, n) = Cardinality(D(posts \ {p}))
      /\ Waits(posts \cup {p}, n) = Cardinality(D(posts \cup {p}))
    BY DEF Waits
<1>4. CASE n \in Of(p.frames)
    <2>1. D(posts \cup {p}) = D(posts) \cup {p} /\ D(posts \ {p}) = D(posts) \ {p}
        BY <1>4
    <2>2. p \in posts => p \in D(posts)
        BY <1>4
    <2> HIDE DEF D
    <2>3. Cardinality(D(posts) \cup {p}) <= Cardinality(D(posts)) + 1
        BY <1>2, FS_AddElement
    <2>4. p \in D(posts) => Cardinality(D(posts) \ {p}) = Cardinality(D(posts)) - 1
        BY <1>2, FS_RemoveElement
    <2> QED
        BY <1>1, <1>2, <1>3, <1>4, <2>1, <2>2, <2>3, <2>4
<1>5. CASE n \notin Of(p.frames)
    <2>1. D(posts \cup {p}) = D(posts) /\ D(posts \ {p}) = D(posts)
        BY <1>5
    <2> HIDE DEF D
    <2> QED
        BY <1>1, <1>2, <1>3, <1>5, <2>1
<1> QED
    BY <1>4, <1>5

\* What is handled in time stays in turn.
LEMMA TurnGoesOn ==
    ASSUME NEW g \in Seq(Nat), NEW s \in Seq(Nat), NEW d, Rising(s), FirstsRise(g, d),
           \A m \in Of(s) : m \in Of(g) \cup d \/ \A n \in Of(g) : n < m
    PROVE  FirstsRise(g \o s, d)
<1> DEFINE h == g \o s
<1>1. SUFFICES ASSUME NEW i \in DOMAIN h, \A j \in DOMAIN h : j < i => h[j] # h[i]
               PROVE  h[i] \in d \/ \A j \in DOMAIN h : j < i => h[j] < h[i]
    BY DEF FirstsRise
<1>2. /\ DOMAIN g = 1..Len(g) /\ DOMAIN s = 1..Len(s) /\ Len(g) \in Nat /\ Len(s) \in Nat
      /\ DOMAIN h = 1..(Len(g) + Len(s))
      /\ \A k \in DOMAIN g : h[k] = g[k]
      /\ \A k \in DOMAIN h : k \notin DOMAIN g => k - Len(g) \in DOMAIN s /\ h[k] = s[k - Len(g)]
    BY JoinedAt
<1> HIDE DEF h
<1>3. CASE i \in DOMAIN g
    <2>1. \A j \in DOMAIN h : j < i => j \in DOMAIN g /\ h[j] = g[j]
        BY <1>2, <1>3
    <2>2. \A j \in DOMAIN g : j < i => j \in DOMAIN h /\ h[j] = g[j]
        BY <1>2, <1>3
    <2>3. g[i] \in d \/ \A j \in DOMAIN g : j < i => g[j] < g[i]
        BY <1>1, <1>2, <1>3, <2>2 DEF FirstsRise
    <2> QED
        BY <1>2, <1>3, <2>1, <2>3
<1>4. CASE i \notin DOMAIN g
    <2>1. i - Len(g) \in DOMAIN s /\ h[i] = s[i - Len(g)]
        BY <1>1, <1>2, <1>4
    <2>2. h[i] \in Of(s)
        BY <2>1 DEF Of
    <2>3. \A j \in DOMAIN g : j \in DOMAIN h /\ j < i /\ h[j] = g[j]
        BY <1>1, <1>2, <1>4
    <2>4. h[i] \notin Of(g)
        BY <1>1, <2>3 DEF Of
    <2>5. h[i] \in d \/ \A n \in Of(g) : n < h[i]
        BY <2>2, <2>4
    <2>6. ASSUME \A n \in Of(g) : n < h[i], NEW j \in DOMAIN h, j < i PROVE h[j] < h[i]
        <3>1. CASE j \in DOMAIN g
            BY <1>2, <2>6, <3>1 DEF Of
        <3>2. CASE j \notin DOMAIN g
            <4>1. j - Len(g) \in DOMAIN s /\ h[j] = s[j - Len(g)]
                BY <1>2, <2>6, <3>2
            <4>2. j - Len(g) < i - Len(g)
                BY <1>2, <2>6
            <4> QED
                BY <2>1, <4>1, <4>2 DEF Rising
        <3> QED
            BY <3>1, <3>2
    <2> QED
        BY <2>5, <2>6
<1> QED
    BY <1>3, <1>4

\* What holds between two batches, `queue' being what the next is taken from and `again'
\* whether its first part was tried once.
Ready(queue, posts, again, d, top) ==
    /\ queue \in Seq(1..top) /\ Rising(queue)
    /\ GivenUp(posts, top)
    /\ \A n \in 1..top : Times(got, n) + Waits(posts, n) <= 2
    /\ ~done => \A i \in DOMAIN queue : Times(got, queue[i]) + Waits(posts, queue[i])
                                        <= IF again /\ i <= BatchMax THEN 1 ELSE 0
    /\ ~gone => \A m \in Of(queue) \cup InPosts(posts) : After(m, got, d, Posts(posts))
    /\ ~gone /\ ~done => InPosts(posts) \subseteq Of(queue) \cup Of(got) \cup d
    /\ FirstsRise(got, d)

\* How much of a queue of n frames flush() takes.
LEMMA HowMuch ==
    ASSUME BatchMax \in Nat \ {0}, NEW n \in Nat,
           NEW k, k = IF n < BatchMax THEN n ELSE BatchMax
    PROVE  /\ k \in 0..n /\ k <= BatchMax /\ (k < BatchMax => k = n)
           /\ k \in Nat /\ k \in Int /\ k + 1 \in Int /\ 1 \in Int /\ n \in Int
OBVIOUS

\* flush() takes the front of the queue.
LEMMA FlushTakes ==
    ASSUME BatchMax \in Nat \ {0}, NEW S, NEW queue \in Seq(S), Rising(queue),
           Flush(queue), ~done
    PROVE  /\ batch' \in Seq(S) /\ outbox' \in Seq(S) /\ Len(batch') <= BatchMax
           /\ Rising(batch') /\ Rising(outbox')
           /\ \A a \in Of(batch') : \A b \in Of(outbox') : a < b
           /\ Of(queue) = Of(batch') \cup Of(outbox')
           /\ \A i \in DOMAIN batch' : i \in DOMAIN queue /\ batch'[i] = queue[i]
           /\ \A i \in DOMAIN outbox' : /\ i + BatchMax \in DOMAIN queue
                                        /\ outbox'[i] = queue[i + BatchMax]
<1> DEFINE k == Taken(queue)
           b == SubSeq(queue, 1, k)
           n == Len(queue)
           o == SubSeq(queue, k + 1, n)
<1>1. batch' = b /\ outbox' = o
    BY DEF Flush
<1> HIDE DEF b, o
<1>2. /\ n \in Nat /\ DOMAIN queue = 1..n
      /\ \A i \in 1..n : queue[i] \in S
    BY LenProperties, ElementOfSeq
<1> HIDE DEF n
<1>3. /\ k \in 0..n /\ k <= BatchMax /\ (k < BatchMax => k = n)
      /\ k \in Nat /\ k \in Int /\ k + 1 \in Int /\ 1 \in Int /\ n \in Int
    <2>1. k = IF n < BatchMax THEN n ELSE BatchMax
        BY DEF Taken, n
    <2> HIDE DEF k
    <2> QED
        BY <1>2, <2>1, HowMuch
<1> HIDE DEF k
<1>4. /\ b \in Seq(S) /\ Len(b) = k
      /\ \A i \in 1..k : b[i] = queue[i]
    <2>1. 1 \in Nat \ {0} /\ 1 - 1 <= k /\ k <= Len(queue)
        <3>1. n = Len(queue)
            BY DEF n
        <3> QED
            BY <1>3, <3>1
    <2>2. b = SubSeq(queue, 1, k)
        BY DEF b
    <2>3. /\ b \in Seq(S) /\ Len(b) = (k + 1) - 1 /\ DOMAIN b = 1..((k + 1) - 1)
          /\ \A i \in DOMAIN b : b[i] = queue[(1 + i) - 1]
        BY <1>3, <2>1, <2>2, Stretch
    <2> QED
        BY <1>3, <2>3
<1>5. /\ o \in Seq(S) /\ Len(o) = n - k
      /\ \A i \in 1..(n - k) : o[i] = queue[i + k]
    <2> DEFINE a == k + 1
    <2>1. a \in Nat \ {0} /\ a - 1 <= n /\ n <= Len(queue) /\ (n + 1) - a = n - k /\ n \in Nat
        <3>1. n = Len(queue)
            BY DEF n
        <3>2. n \in Nat
            BY <1>2
        <3> QED
            BY <1>3, <3>1, <3>2
    <2>2. o = SubSeq(queue, a, n)
        BY DEF o
    <2>3. \A i \in 1..(n - k) : (a + i) - 1 = i + k
        BY <1>2, <1>3
    <2> HIDE DEF a
    <2>4. /\ o \in Seq(S) /\ Len(o) = (n + 1) - a /\ DOMAIN o = 1..((n + 1) - a)
          /\ \A i \in DOMAIN o : o[i] = queue[(a + i) - 1]
        BY <2>1, <2>2, Stretch
    <2> QED
        BY <2>1, <2>3, <2>4
<1>6. DOMAIN b = 1..k /\ DOMAIN o = 1..(n - k)
    BY <1>4, <1>5, LenProperties
<1>7. /\ \A i \in DOMAIN b : i \in DOMAIN queue /\ i <= k /\ b[i] = queue[i]
      /\ \A i \in DOMAIN o : i + k \in DOMAIN queue /\ k < i + k /\ o[i] = queue[i + k]
    BY <1>2, <1>3, <1>4, <1>5, <1>6
<1>8. Rising(b) /\ Rising(o)
    <2>1. \A i, j \in DOMAIN b : i < j => b[i] < b[j]
        BY <1>7 DEF Rising
    <2>2. \A i, j \in DOMAIN o : i < j => i + k < j + k
        BY <1>3, <1>6
    <2>3. \A i, j \in DOMAIN o : i < j => o[i] < o[j]
        BY <1>7, <2>2 DEF Rising
    <2> QED
        BY <2>1, <2>3 DEF Rising
<1>9. \A i \in DOMAIN b : \A j \in DOMAIN o : b[i] < o[j]
    <2>1. \A i \in DOMAIN b : \A j \in DOMAIN o : i < j + k
        BY <1>3, <1>6
    <2> QED
        BY <1>7, <2>1 DEF Rising
<1>10. Of(queue) = Of(b) \cup Of(o)
    <2>1. \A i \in DOMAIN queue : i \in DOMAIN b \/ (i - k \in DOMAIN o /\ (i - k) + k = i)
        BY <1>2, <1>3, <1>6
    <2>2. \A i \in DOMAIN queue : queue[i] \in Of(b) \cup Of(o)
        BY <1>7, <2>1 DEF Of
    <2> QED
        BY <1>7, <2>2 DEF Of
<1>11. \A i \in DOMAIN o : i + BatchMax \in DOMAIN queue /\ o[i] = queue[i + BatchMax]
    <2>1. \A i \in DOMAIN o : k = BatchMax
        BY <1>2, <1>3, <1>6
    <2> QED
        BY <1>7, <2>1
<1>12. \A x \in Of(b) : \A y \in Of(o) : x < y
    BY <1>9 DEF Of
<1> QED
    BY <1>1, <1>3, <1>4, <1>5, <1>7, <1>8, <1>10, <1>11, <1>12

\* The counts are numbers.
LEMMA CountsAreNats ==
    ASSUME NEW g \in Seq(Nat), NEW posts, IsFiniteSet(posts), NEW n \in Nat
    PROVE  Times(g, n) \in Nat /\ Waits(posts, n) \in Nat
<1>1. Times(g, n) \in Nat
    <2>1. <<>> \in Seq(Nat) /\ Rising(<<>>)
        BY EmptySeq DEF Rising
    <2> QED
        BY <2>1, TimesMore
<1> QED
    BY <1>1, WaitsChange

\* A batch taken from a queue that is ready leaves everything as it should be.
LEMMA FlushKeeps ==
    ASSUME BatchMax \in Nat \ {0}, NEW queue, NEW again \in BOOLEAN,
           SseInv, sent' \in Nat, sid' \in BOOLEAN, retried' \in BOOLEAN,
           Ready(queue, late', again, dropped', sent'), again => retried', retryDue' = FALSE,
           Flush(queue), UNCHANGED <<done, gone, got>>, sent <= sent'
    PROVE  SseInv'
<1>1. /\ queue \in Seq(1..sent') /\ Rising(queue) /\ GivenUp(late', sent') /\ FirstsRise(got, dropped')
      /\ got \in Seq(1..sent) /\ done \in BOOLEAN /\ gone \in BOOLEAN /\ sent \in Nat
      /\ sent' \in Nat
    BY DEF SseInv, Channels, Ready
<1>2. /\ got \in Seq(1..sent') /\ got \in Seq(Nat)
      /\ \A n \in 1..sent' : Times(got, n) \in Nat /\ Waits(late', n) \in Nat
    <2>1. 1..sent \subseteq 1..sent' /\ 1..sent \subseteq Nat /\ 1..sent' \subseteq Nat
        BY <1>1
    <2>2. got \in Seq(1..sent') /\ got \in Seq(Nat)
        BY <1>1, <2>1, SeqMonotonic
    <2> QED
        BY <1>1, <2>1, <2>2, CountsAreNats DEF GivenUp
<1>3. posted' = (batch' # <<>>) /\ answer' = "none" /\ done' = done /\ gone' = gone /\ got' = got
    BY DEF Flush
<1>4. CASE done
    <2>1. batch' = <<>> /\ outbox' = queue
        BY <1>4 DEF Flush
    <2>2. Of(<<>>) = {} /\ <<>> \in Seq(1..sent') /\ Len(<<>>) = 0 /\ Rising(<<>>)
        BY EmptySeq, LineEmpty DEF Rising
    <2>3. Channels'
        <3>1. Rising(batch)' /\ Rising(outbox)' /\ Of(batch)' = {}
            BY <1>1, <2>1, <2>2 DEF Rising, Of
        <3>2. Len(batch)' <= BatchMax
            BY <2>1, <2>2
        <3> QED
            BY <1>1, <1>2, <1>3, <2>1, <2>2, <3>1, <3>2 DEF Channels
    <2>4. Flights'
        BY <1>3, <2>1 DEF Flights
    <2>5. TriedTwice'
        <3>1. ASSUME NEW n \in 1..sent' PROVE Tries(got, late', posted', batch', n) <= 2
            <4>1. Times(got, n) \in Nat /\ Waits(late', n) \in Nat /\ Times(got, n) + Waits(late', n) <= 2
                BY <1>2 DEF Ready
            <4>2. Tries(got, late', posted', batch', n) = Times(got, n) + Waits(late', n) + 0
                BY <1>3, <2>1 DEF Tries
            <4> QED
                BY <4>1, <4>2
        <3> QED
            BY <1>3, <1>4, <2>1, <3>1 DEF TriedTwice
    <2>6. InTime'
        <3>1. Flying' = Posts(late') /\ InPosts(late)' = InPosts(late')
            BY <1>3, <2>1 DEF Flying, Posts, InPosts
        <3> QED
            BY <1>3, <1>4, <2>1, <2>2, <3>1 DEF InTime, Ready, After
    <2> QED
        BY <1>1, <1>3, <2>3, <2>4, <2>5, <2>6 DEF SseInv, GivenUp, FirstsRise
<1>5. CASE ~done
    <2>1. /\ batch' \in Seq(1..sent') /\ outbox' \in Seq(1..sent') /\ Len(batch') <= BatchMax
          /\ Rising(batch') /\ Rising(outbox')
          /\ \A a \in Of(batch') : \A b \in Of(outbox') : a < b
          /\ Of(queue) = Of(batch') \cup Of(outbox')
          /\ \A i \in DOMAIN batch' : i \in DOMAIN queue /\ batch'[i] = queue[i]
          /\ \A i \in DOMAIN outbox' : /\ i + BatchMax \in DOMAIN queue
                                       /\ outbox'[i] = queue[i + BatchMax]
        BY <1>1, <1>5, FlushTakes
    <2>2. Channels'
        BY <1>1, <1>2, <1>3, <2>1 DEF Channels, Rising, Of
    <2>3. Flights'
        BY <1>3 DEF Flights
    <2>4. \A n : Tries(got, late', posted', batch', n)
                 = Times(got, n) + Waits(late', n) + (IF n \in Of(batch') THEN 1 ELSE 0)
        <3>1. Of(batch') # {} => batch' # <<>>
            BY LineEmpty
        <3> QED
            BY <1>3, <3>1 DEF Tries
    <2>5. \A i \in DOMAIN queue : queue[i] \in 1..sent' /\ Times(got, queue[i]) + Waits(late', queue[i])
                                        <= IF again /\ i <= BatchMax THEN 1 ELSE 0
        BY <1>1, <1>5, LenProperties, ElementOfSeq DEF Ready
    <2>6. \A n \in Of(batch') : n \in 1..sent' /\ Times(got, n) + Waits(late', n) <= IF again THEN 1 ELSE 0
        <3>1. ASSUME NEW i \in DOMAIN batch'
              PROVE  /\ batch'[i] \in 1..sent'
                     /\ Times(got, batch'[i]) + Waits(late', batch'[i]) <= IF again THEN 1 ELSE 0
            <4>1. i \in DOMAIN queue /\ batch'[i] = queue[i]
                BY <2>1
            <4>2. /\ queue[i] \in 1..sent'
                  /\ Times(got, queue[i]) + Waits(late', queue[i]) <= IF again /\ i <= BatchMax THEN 1 ELSE 0
                BY <4>1, <2>5
            <4>3. Times(got, queue[i]) \in Nat /\ Waits(late', queue[i]) \in Nat
                BY <1>2, <4>2
            <4> QED
                BY <4>1, <4>2, <4>3
        <3> QED
            BY <3>1 DEF Of
    <2>7. \A i \in DOMAIN outbox' : outbox'[i] \in 1..sent' /\ outbox'[i] \notin Of(batch')
                                    /\ Times(got, outbox'[i]) + Waits(late', outbox'[i]) <= 0
        <3>1. SUFFICES ASSUME NEW i \in DOMAIN outbox'
                       PROVE  /\ outbox'[i] \in 1..sent' /\ outbox'[i] \notin Of(batch')
                              /\ Times(got, outbox'[i]) + Waits(late', outbox'[i]) <= 0
            OBVIOUS
        <3>2. /\ i + BatchMax \in DOMAIN queue /\ outbox'[i] = queue[i + BatchMax]
              /\ i \in Nat /\ i # 0
            BY <2>1, LenProperties
        <3>3. ~(i + BatchMax <= BatchMax)
            BY <3>2
        <3>4. /\ outbox'[i] \in 1..sent'
              /\ Times(got, outbox'[i]) + Waits(late', outbox'[i]) <= 0
            BY <2>5, <3>2, <3>3
        <3>5. outbox'[i] \in Of(outbox')
            BY DEF Of
        <3>6. outbox'[i] \notin Of(batch')
            BY <2>1, <3>4, <3>5
        <3> QED
            BY <3>4, <3>6
    <2>8. TriedTwice'
        <3>1. \A n \in 1..sent' : Times(got, n) + Waits(late', n) <= 2
            BY DEF Ready
        <3>2. ASSUME NEW n \in 1..sent' PROVE Tries(got, late', posted', batch', n) <= 2
            <4>1. Times(got, n) \in Nat /\ Waits(late', n) \in Nat /\ Times(got, n) + Waits(late', n) <= 2
                BY <1>2, <3>1
            <4>2. n \in Of(batch') => Times(got, n) + Waits(late', n) <= 1
                BY <2>6, <4>1
            <4> QED
                BY <2>4, <4>1, <4>2
        <3>3. ~retried' => \A n \in Of(batch') : Tries(got, late', posted', batch', n) <= 1
            BY <1>2, <2>4, <2>6
        <3>4. \A i \in DOMAIN outbox' : Tries(got, late', posted', batch', outbox'[i]) <= 0
            BY <1>2, <2>4, <2>7
        <3>5. \A i \in DOMAIN outbox' : Tries(got, late', posted', batch', outbox'[i])
                                        <= IF retryDue' /\ i <= BatchMax THEN 1 ELSE 0
            BY <3>4
        <3> QED
            BY <1>3, <3>2, <3>3, <3>5 DEF TriedTwice, Of
    <2>9. InTime'
        <3>1. /\ InPosts(late)' = InPosts(late')
              /\ Flying' = Posts(late') \cup (IF batch' # <<>> THEN {batch'} ELSE {})
            BY <1>3 DEF Flying, Posts, InPosts, Of
        <3>2. SUFFICES ASSUME ~gone
                       PROVE  /\ \A m \in Of(queue) \cup InPosts(late') :
                                     After(m, got, dropped, Flying)'
                              /\ InPosts(late') \subseteq Of(queue) \cup Of(got) \cup dropped'
            <4>1. Of(batch)' = Of(batch') /\ Of(outbox)' = Of(outbox')
                BY DEF Of
            <4>2. Of(got)' = Of(got)
                BY <1>3 DEF Of
            <4>3. InTime' = (~gone' =>
                    /\ \A m \in Of(batch') \cup Of(outbox') \cup InPosts(late') :
                           After(m, got, dropped, Flying)'
                    /\ ~done' => InPosts(late') \subseteq Of(batch') \cup Of(outbox') \cup Of(got') \cup dropped')
                BY <3>1, <4>1 DEF InTime
            <4>4. Of(got') = Of(got) /\ (gone' <=> gone)
                BY <1>3
            <4> QED
                BY <2>1, <4>3, <4>4
        <3>3. /\ \A m \in Of(queue) \cup InPosts(late') : After(m, got, dropped', Posts(late'))
              /\ InPosts(late') \subseteq Of(queue) \cup Of(got) \cup dropped'
            BY <1>5, <3>2 DEF Ready
        <3>4. ASSUME NEW m \in Of(queue) \cup InPosts(late') PROVE After(m, got, dropped, Flying)'
            <4>0. Of(got)' = Of(got)
                BY <1>3 DEF Of
            <4>1. CASE m \in Of(got) \cup dropped'
                BY <4>0, <4>1 DEF After
            <4>2. CASE m \notin Of(got) \cup dropped'
                <5>1. m \in Of(queue)
                    BY <3>3, <3>4, <4>2
                <5>2. m \in Of(batch') \/ \A n \in Of(batch') : n < m
                    BY <2>1, <5>1
                <5> QED
                    BY <3>1, <3>3, <3>4, <4>0, <4>2, <5>2 DEF After
            <4> QED
                BY <4>1, <4>2
        <3> QED
            BY <3>3, <3>4
    <2> QED
        BY <1>1, <1>3, <2>2, <2>3, <2>8, <2>9 DEF SseInv, GivenUp, FirstsRise
<1> QED
    BY <1>4, <1>5

\* The counts of this state are numbers, and what may be handled is of the line.
LEMMA SseFacts ==
    ASSUME SseInv
    PROVE  /\ batch \in Seq(Nat) /\ outbox \in Seq(Nat) /\ got \in Seq(Nat)
           /\ Of(batch) \subseteq 1..sent /\ Of(outbox) \subseteq 1..sent /\ Of(got) \subseteq 1..sent
           /\ \A n \in 1..sent : /\ Times(got, n) \in Nat /\ Waits(late, n) \in Nat
                                 /\ Tries(got, late, posted, batch, n) \in Nat
                                 /\ Times(got, n) + Waits(late, n) <= Tries(got, late, posted, batch, n)
           /\ \A s \in Flying : s \in Seq(Nat) /\ Rising(s) /\ Of(s) \subseteq 1..sent
                                /\ Of(s) \subseteq Of(batch) \cup InPosts(late)
<1>1. /\ batch \in Seq(1..sent) /\ outbox \in Seq(1..sent) /\ got \in Seq(1..sent) /\ sent \in Nat
      /\ Rising(batch) /\ GivenUp(late, sent) /\ 1..sent \subseteq Nat /\ posted \in BOOLEAN
    BY DEF SseInv, Channels
<1>2. \A s : s \in Seq(1..sent) => s \in Seq(Nat) /\ Of(s) \subseteq 1..sent
    BY <1>1, SeqMonotonic, LenProperties, ElementOfSeq DEF Of
<1>3. ASSUME NEW n \in 1..sent
      PROVE  /\ Times(got, n) \in Nat /\ Waits(late, n) \in Nat
             /\ Tries(got, late, posted, batch, n) \in Nat
             /\ Times(got, n) + Waits(late, n) <= Tries(got, late, posted, batch, n)
    <2>1. Times(got, n) \in Nat /\ Waits(late, n) \in Nat
        BY <1>1, <1>2, CountsAreNats DEF GivenUp
    <2> QED
        BY <2>1 DEF Tries
<1>4. ASSUME NEW s \in Flying
      PROVE  /\ s \in Seq(Nat) /\ Rising(s) /\ Of(s) \subseteq 1..sent
             /\ Of(s) \subseteq Of(batch) \cup InPosts(late)
    <2>1. CASE s \in Posts(late)
        <3>1. PICK p \in late : s = p.frames
            BY <2>1 DEF Posts
        <3>2. s \in Seq(1..sent) /\ Rising(s)
            BY <1>1, <3>1 DEF GivenUp
        <3>3. Of(s) \subseteq InPosts(late)
            BY <2>1 DEF InPosts
        <3> QED
            BY <1>2, <3>2, <3>3
    <2>2. CASE s = batch
        BY <1>1, <1>2, <2>2
    <2> QED
        BY <2>1, <2>2 DEF Flying
<1> QED
    BY <1>1, <1>2, <1>3, <1>4

\* A post is handled: one less on its way, and everything in time.
LEMMA HandlingKeeps ==
    ASSUME SseInv, NEW s \in Flying, ~gone, got' = got \o s,
           late' \in SUBSET late, posted' => posted, posted' \in BOOLEAN,
           answer' \in {"none", "ok", "gone"},
           UNCHANGED <<sid, done, outbox, batch, retried, retryDue, gone, sent, dropped>>,
           \A n \in 1..sent : Tries(got', late', posted', batch, n) <= Tries(got, late, posted, batch, n)
    PROVE  Channels' /\ GivenUp(late, sent)' /\ TriedTwice' /\ InTime' /\ FirstsRise(got, dropped)'
<1>1. /\ Channels /\ GivenUp(late, sent) /\ TriedTwice /\ InTime /\ FirstsRise(got, dropped)
    BY DEF SseInv
<1>2. /\ s \in Seq(Nat) /\ Rising(s) /\ Of(s) \subseteq 1..sent
      /\ Of(s) \subseteq Of(batch) \cup InPosts(late)
      /\ got \in Seq(Nat) /\ Of(got) \subseteq 1..sent
      /\ Of(batch) \subseteq 1..sent /\ Of(outbox) \subseteq 1..sent
    BY SseFacts
<1>3. Of(got \o s) = Of(got) \cup Of(s)
    BY <1>2, LinesJoined
<1>4. got' \in Seq(1..sent)
    <2>1. s \in Seq(1..sent)
        <3>1. /\ Len(s) \in Nat /\ DOMAIN s = 1..Len(s) /\ s \in [1..Len(s) -> Nat]
            BY <1>2, LenProperties
        <3>2. \A i \in 1..Len(s) : s[i] \in 1..sent
            BY <1>2, <3>1 DEF Of
        <3>3. s \in [1..Len(s) -> 1..sent]
            BY <3>1, <3>2
        <3> QED
            BY <3>1, <3>3, SeqDef
    <2> QED
        BY <1>1, <2>1, ConcatProperties DEF Channels
<1>5. Channels'
    BY <1>1, <1>4 DEF Channels, Rising, Of
<1>6. GivenUp(late, sent)'
    <2>1. IsFiniteSet(late')
        BY <1>1, FS_Subset DEF GivenUp
    <2> QED
        BY <1>1, <2>1 DEF GivenUp, Rising
<1>7. TriedTwice'
    <2>1. \A n \in 1..sent : /\ Tries(got, late, posted, batch, n) \in Nat
                             /\ Tries(got', late', posted', batch, n) <= Tries(got, late, posted, batch, n)
        BY SseFacts
    <2>2. ASSUME NEW n \in 1..sent, NEW k \in Nat, Tries(got, late, posted, batch, n) <= k
          PROVE  Tries(got', late', posted', batch, n) <= k
        <3>1. Tries(got', late', posted', batch, n) \in Nat
            <4>1. got' \in Seq(Nat) /\ IsFiniteSet(late')
                BY <1>2, <1>6, ConcatProperties DEF GivenUp
            <4>2. n \in Nat
                BY <1>1 DEF Channels
            <4>3. Times(got', n) \in Nat /\ Waits(late', n) \in Nat
                BY <4>1, <4>2, CountsAreNats
            <4> QED
                BY <4>3 DEF Tries
        <3> QED
            BY <2>1, <2>2, <3>1
    <2>3. \A i \in DOMAIN outbox : outbox[i] \in 1..sent
        BY <1>2 DEF Of
    <2>4. \A n \in 1..sent : Tries(got', late', posted', batch, n) <= 2
        BY <1>1, <2>2 DEF TriedTwice
    <2>5. batch # <<>> /\ ~retried => \A n \in Of(batch) : Tries(got', late', posted', batch, n) <= 1
        BY <1>1, <1>2, <2>2 DEF TriedTwice
    <2>6. ASSUME ~done, NEW i \in DOMAIN outbox
          PROVE  Tries(got', late', posted', batch, outbox[i]) <= IF retryDue /\ i <= BatchMax THEN 1 ELSE 0
        BY <1>1, <2>2, <2>3, <2>6 DEF TriedTwice
    <2> QED
        BY <2>4, <2>5, <2>6 DEF TriedTwice, Of
<1>8. InTime'
    <2>1. Flying' \subseteq Flying /\ InPosts(late') \subseteq InPosts(late)
        BY DEF Flying, InPosts, Posts
    <2>2. ASSUME NEW m \in Of(batch) \cup Of(outbox) \cup InPosts(late)
          PROVE  After(m, got, dropped, Flying)'
        <3>1. After(m, got, dropped, Flying)
            BY <1>1 DEF InTime
        <3>2. Of(got)' = Of(got \o s)
            BY DEF Of
        <3> QED
            BY <1>3, <2>1, <3>1, <3>2 DEF After
    <2>3. ~done => InPosts(late) \subseteq Of(batch) \cup Of(outbox) \cup Of(got') \cup dropped
        BY <1>1, <1>3 DEF InTime
    <2>4. /\ Of(batch)' = Of(batch) /\ Of(outbox)' = Of(outbox) /\ Of(got)' = Of(got')
          /\ InPosts(late)' = InPosts(late')
        BY DEF Of, InPosts, Posts
    <2>5. InTime' = (~gone' =>
              /\ \A m \in Of(batch) \cup Of(outbox) \cup InPosts(late') : After(m, got, dropped, Flying)'
              /\ ~done' => InPosts(late') \subseteq Of(batch) \cup Of(outbox) \cup Of(got') \cup dropped')
        BY <2>4 DEF InTime
    <2> QED
        BY <2>1, <2>2, <2>3, <2>5
<1>9. FirstsRise(got, dropped)'
    <2>1. \A m \in Of(s) : m \in Of(got) \cup dropped \/ \A n \in Of(got) : n < m
        <3>1. ASSUME NEW m \in Of(s) PROVE After(m, got, dropped, Flying)
            BY <1>1, <1>2 DEF InTime
        <3> QED
            BY <3>1 DEF After
    <2>2. FirstsRise(got \o s, dropped)
        BY <1>1, <1>2, <2>1, TurnGoesOn
    <2> QED
        BY <2>2 DEF FirstsRise
<1> QED
    BY <1>5, <1>6, <1>7, <1>8, <1>9

\* A POST is given up: what may still come of it is what was on its way.
LEMMA AbandonKeeps ==
    ASSUME SseInv, batch # <<>>, Abandoned
    PROVE  /\ GivenUp(late', sent)
           /\ \A n \in 1..sent : /\ Times(got, n) \in Nat /\ Waits(late', n) \in Nat
                                 /\ Times(got, n) + Waits(late', n) <= Tries(got, late, posted, batch, n)
           /\ Posts(late') \subseteq Flying /\ InPosts(late') \subseteq InPosts(late) \cup Of(batch)
<1> DEFINE p == [frames |-> batch, again |-> retried]
<1>1. /\ batch \in Seq(1..sent) /\ Rising(batch) /\ retried \in BOOLEAN /\ sent \in Nat
      /\ GivenUp(late, sent)
    BY DEF SseInv, Channels
<1>2. p.frames = batch /\ p \in [frames : Seq(1..sent), again : BOOLEAN]
    BY <1>1
<1> HIDE DEF p
<1>3. late' = late \/ (posted /\ late' = late \cup {p})
    BY DEF Abandoned, p
<1>4. CASE late' = late
    BY <1>1, <1>4, SseFacts DEF Flying
<1>5. CASE posted /\ late' = late \cup {p}
    <2>1. IsFiniteSet(late) /\ IsFiniteSet(late')
        BY <1>1, <1>5, FS_AddElement DEF GivenUp
    <2>2. GivenUp(late', sent)
        BY <1>1, <1>2, <1>5, <2>1 DEF GivenUp
    <2>3. ASSUME NEW n \in 1..sent
          PROVE  /\ Times(got, n) \in Nat /\ Waits(late', n) \in Nat
                 /\ Times(got, n) + Waits(late', n) <= Tries(got, late, posted, batch, n)
        <3>1. Times(got, n) \in Nat /\ Waits(late, n) \in Nat /\ Waits(late', n) \in Nat
            BY <2>1, SseFacts, WaitsChange
        <3>2. Waits(late', n) <= Waits(late, n) + (IF n \in Of(batch) THEN 1 ELSE 0)
            BY <1>2, <1>5, <2>1, WaitsChange
        <3>3. Tries(got, late, posted, batch, n)
              = Times(got, n) + Waits(late, n) + (IF n \in Of(batch) THEN 1 ELSE 0)
            BY <1>5 DEF Tries
        <3> QED
            BY <3>1, <3>2, <3>3
    <2>4. Posts(late') = Posts(late) \cup {batch}
        BY <1>2, <1>5 DEF Posts
    <2>5. InPosts(late') = InPosts(late) \cup Of(batch)
        BY <2>4 DEF InPosts
    <2> QED
        BY <1>5, <2>2, <2>3, <2>4, <2>5 DEF Flying
<1> QED
    BY <1>3, <1>4, <1>5

\* Between two batches the outbox is ready, once nothing is on its way but what was given up.
LEMMA ReadyAfter ==
    ASSUME SseInv, NEW posts, NEW again \in BOOLEAN, NEW d,
           GivenUp(posts, sent), dropped \subseteq d, again = retryDue,
           \A n \in 1..sent : /\ Times(got, n) \in Nat /\ Waits(posts, n) \in Nat
                              /\ Times(got, n) + Waits(posts, n) <= Tries(got, late, posted, batch, n),
           Posts(posts) \subseteq Flying, InPosts(posts) \subseteq InPosts(late) \cup Of(batch),
           ~gone => Of(batch) \subseteq Of(got) \cup d
    PROVE  Ready(outbox, posts, again, d, sent)
<1>1. /\ outbox \in Seq(1..sent) /\ Rising(outbox) /\ TriedTwice /\ InTime /\ FirstsRise(got, dropped)
    BY DEF SseInv, Channels
<1>2. \A n \in 1..sent : Tries(got, late, posted, batch, n) \in Nat
    BY SseFacts
<1>3. \A n \in 1..sent : Times(got, n) + Waits(posts, n) <= 2
    <2>1. \A n \in 1..sent : Tries(got, late, posted, batch, n) <= 2
        BY <1>1 DEF TriedTwice
    <2> QED
        BY <1>2, <2>1
<1>4. ASSUME ~done, NEW i \in DOMAIN outbox
      PROVE  Times(got, outbox[i]) + Waits(posts, outbox[i]) <= IF again /\ i <= BatchMax THEN 1 ELSE 0
    <2>1. Tries(got, late, posted, batch, outbox[i]) <= IF again /\ i <= BatchMax THEN 1 ELSE 0
        BY <1>1, <1>4 DEF TriedTwice
    <2>2. outbox[i] \in 1..sent
        BY <1>1, <1>4, LenProperties, ElementOfSeq
    <2> QED
        BY <1>2, <2>1, <2>2
<1>5. ASSUME ~gone, NEW m \in Of(outbox) \cup InPosts(posts)
      PROVE  After(m, got, d, Posts(posts))
    <2>1. After(m, got, dropped, Flying)
        BY <1>1, <1>5 DEF InTime
    <2> QED
        BY <2>1 DEF After
<1>6. ~gone /\ ~done => InPosts(posts) \subseteq Of(outbox) \cup Of(got) \cup d
    <2>1. ~gone /\ ~done => InPosts(late) \subseteq Of(batch) \cup Of(outbox) \cup Of(got) \cup dropped
        BY <1>1 DEF InTime
    <2> QED
        BY <2>1
<1>7. FirstsRise(got, d)
    BY <1>1 DEF FirstsRise
<1> QED
    BY <1>1, <1>3, <1>4, <1>5, <1>6, <1>7 DEF Ready

\* The batch was answered, or given up for good, or goes again.
LEMMA FlushesKeep ==
    ASSUME BatchMax \in Nat \ {0}, SseInv, PostOk \/ PostDropped \/ RetryFires
    PROVE  SseInv'
<1>1. /\ Channels /\ Flights /\ GivenUp(late, sent) /\ sent \in Nat /\ sent <= sent
      /\ sid \in BOOLEAN /\ retried \in BOOLEAN /\ retryDue \in BOOLEAN /\ gone \in BOOLEAN
    BY DEF SseInv, Channels
<1>2. /\ \A n \in 1..sent : /\ Times(got, n) \in Nat /\ Waits(late, n) \in Nat
                            /\ Times(got, n) + Waits(late, n) <= Tries(got, late, posted, batch, n)
      /\ Posts(late) \subseteq Flying
    BY SseFacts DEF Flying
<1>3. CASE PostOk
    <2>1. /\ ~retryDue /\ (~gone => Of(batch) \subseteq Of(got)) /\ answer = "ok"
        BY <1>1, <1>3 DEF Flights, PostOk
    <2>2. Ready(outbox, late, FALSE, dropped, sent)
        BY <1>1, <1>2, <2>1, ReadyAfter
    <2>3. /\ Flush(outbox) /\ retried' = FALSE
          /\ UNCHANGED <<sid, done, retryDue, late, gone, sent, got, dropped>>
        BY <1>3 DEF PostOk
    <2> QED
        BY <1>1, <2>1, <2>2, <2>3, FlushKeeps
<1>4. CASE PostDropped
    <2>1. /\ batch # <<>> /\ Abandoned /\ retried /\ Flush(outbox) /\ retried' = FALSE
          /\ dropped' = dropped \cup Of(batch)
          /\ UNCHANGED <<sid, done, retryDue, gone, sent, got>>
        BY <1>4 DEF PostDropped, ToSet, Of
    <2>2. ~retryDue
        BY <1>1, <2>1 DEF Flights
    <2>3. Ready(outbox, late', FALSE, dropped', sent)
        BY <1>1, <2>1, <2>2, AbandonKeeps, ReadyAfter
    <2> QED
        BY <1>1, <2>1, <2>2, <2>3, FlushKeeps
<1>5. CASE RetryFires
    <2>1. /\ retryDue /\ retryDue' = FALSE /\ Flush(outbox)
          /\ UNCHANGED <<sid, done, retried, late, gone, sent, got, dropped>>
        BY <1>5 DEF RetryFires
    <2>2. retried /\ batch = <<>> /\ Of(batch) = {}
        BY <1>1, <2>1, LineEmpty DEF Flights
    <2>3. Ready(outbox, late, TRUE, dropped, sent)
        BY <1>1, <1>2, <2>1, <2>2, ReadyAfter
    <2> QED
        BY <1>1, <2>1, <2>2, <2>3, FlushKeeps
<1> QED
    BY <1>3, <1>4, <1>5

\* A frame is sent: at once, or behind what waits.
LEMMA SendKeeps == ASSUME BatchMax \in Nat \ {0}, SseInv, Send PROVE SseInv'
<1> DEFINE m == sent + 1
           queue == Append(outbox, m)
<1>1. /\ Channels /\ Flights /\ GivenUp(late, sent) /\ TriedTwice /\ InTime /\ FirstsRise(got, dropped)
      /\ sent \in Nat /\ outbox \in Seq(1..sent) /\ Rising(outbox) /\ batch \in Seq(1..sent)
      /\ got \in Seq(1..sent)
    BY DEF SseInv, Channels
<1>2. /\ sid /\ ~done /\ sent' = m
      /\ UNCHANGED <<sid, done, retried, retryDue, late, gone, got, dropped>>
    BY DEF Send
<1>3. /\ m \in Nat /\ m \in 1..m /\ sent <= m /\ 1..sent \subseteq 1..m /\ m \notin 1..sent
      /\ \A n \in 1..sent : n < m
      /\ \A n \in 1..m : n \in 1..sent \/ n = m
    BY <1>1
<1>4. /\ Of(batch) \subseteq 1..sent /\ Of(outbox) \subseteq 1..sent /\ Of(got) \subseteq 1..sent
      /\ \A s \in Flying : Of(s) \subseteq 1..sent
      /\ InPosts(late) \subseteq 1..sent
    BY SseFacts DEF InPosts, Flying
<1>5. /\ outbox \in Seq(1..m) /\ batch \in Seq(1..m) /\ got \in Seq(1..m) /\ got \in Seq(Nat)
    BY <1>1, <1>3, SeqMonotonic, SseFacts
<1> HIDE DEF m
<1>6. /\ queue \in Seq(1..m) /\ Of(queue) = Of(outbox) \cup {m}
      /\ Len(outbox) \in Nat /\ DOMAIN outbox = 1..Len(outbox) /\ DOMAIN queue = 1..(Len(outbox) + 1)
      /\ \A i \in DOMAIN outbox : queue[i] = outbox[i] /\ outbox[i] \in 1..sent
      /\ queue[Len(outbox) + 1] = m
    <2>1. /\ queue \in Seq(1..m) /\ Len(queue) = Len(outbox) + 1
          /\ \A i \in 1..Len(outbox) : queue[i] = outbox[i]
          /\ queue[Len(outbox) + 1] = m
        BY <1>3, <1>5, AppendProperties
    <2>2. DOMAIN queue = 1..Len(queue) /\ DOMAIN outbox = 1..Len(outbox) /\ Len(outbox) \in Nat
        BY <1>5, <2>1, LenProperties
    <2>3. Of(queue) = Of(outbox) \cup {m}
        <3>1. outbox \in Seq(Nat)
            BY SseFacts
        <3> QED
            BY <1>3, <3>1, LineLonger
    <2> QED
        BY <1>1, <2>1, <2>2, <2>3, ElementOfSeq
<1>7. Rising(queue)
    <2>1. \A i \in DOMAIN queue : i \in DOMAIN outbox \/ (i = Len(outbox) + 1 /\ queue[i] = m)
        BY <1>6
    <2>2. \A i, j \in DOMAIN queue : i < j => i \in DOMAIN outbox
        BY <1>6
    <2> QED
        BY <1>1, <1>3, <1>6, <2>1, <2>2 DEF Rising
<1>8. GivenUp(late, m)
    <2>1. \A s \in Seq(1..sent) : s \in Seq(1..m)
        BY <1>3, SeqMonotonic
    <2> QED
        BY <1>1, <2>1 DEF GivenUp
<1>9. /\ Times(got, m) = 0 /\ Waits(late, m) = 0 /\ m \notin Of(batch)
      /\ Tries(got, late, posted, batch, m) = 0
    <2>1. m \notin Of(got) /\ m \notin Of(batch) /\ m \notin InPosts(late)
        BY <1>3, <1>4
    <2>2. {i \in DOMAIN got : got[i] = m} = {}
        BY <2>1 DEF Of
    <2>3. {p \in late : m \in Of(p.frames)} = {}
        BY <2>1 DEF InPosts, Posts
    <2>4. Times(got, m) = 0 /\ Waits(late, m) = 0
        BY <2>2, <2>3, FS_EmptySet DEF Times, Waits
    <2> QED
        BY <2>1, <2>4 DEF Tries
<1>10. \A n \in 1..sent : /\ Times(got, n) \in Nat /\ Waits(late, n) \in Nat
                          /\ Tries(got, late, posted, batch, n) \in Nat
                          /\ Times(got, n) + Waits(late, n) <= Tries(got, late, posted, batch, n)
                          /\ Tries(got, late, posted, batch, n) <= 2
    BY <1>1, SseFacts DEF TriedTwice
<1> HIDE DEF queue
<1>11. CASE Idle /\ Flush(Append(outbox, sent'))
    <2>1. Flush(queue) /\ batch = <<>> /\ retryDue = FALSE
        BY <1>1, <1>2, <1>11 DEF queue, Idle, Channels
    <2>2. Of(batch) = {}
        BY <2>1, LineEmpty
    <2>3. Posts(late) \subseteq Flying
        BY DEF Flying
    <2>4. Ready(outbox, late, FALSE, dropped, sent)
        BY <1>1, <1>10, <2>1, <2>2, <2>3, ReadyAfter
    <2>5. Ready(queue, late, FALSE, dropped, m)
        <3>1. \A n \in 1..m : Times(got, n) + Waits(late, n) <= 2
            BY <1>3, <1>9, <1>10
        <3>2. \A i \in DOMAIN queue : Times(got, queue[i]) + Waits(late, queue[i]) <= 0
            <4>1. \A i \in DOMAIN outbox : Times(got, outbox[i]) + Waits(late, outbox[i]) <= 0
                BY <1>2, <2>4 DEF Ready
            <4>2. \A i \in DOMAIN queue : i \in DOMAIN outbox \/ queue[i] = m
                BY <1>6
            <4> QED
                BY <1>6, <1>9, <4>1, <4>2
        <3>3. ASSUME ~gone, NEW n \in Of(queue) \cup InPosts(late) PROVE After(n, got, dropped, Posts(late))
            <4>1. CASE n = m
                <5>1. \A s \in Posts(late) : Of(s) \subseteq 1..sent
                    BY <1>4, <2>3
                <5> QED
                    BY <1>3, <1>4, <4>1, <5>1 DEF After
            <4>2. CASE n # m
                BY <1>6, <2>4, <3>3, <4>2 DEF Ready
            <4> QED
                BY <4>1, <4>2
        <3>4. ~gone => InPosts(late) \subseteq Of(queue) \cup Of(got) \cup dropped
            BY <1>2, <1>6, <2>4 DEF Ready
        <3> QED
            BY <1>1, <1>6, <1>7, <1>8, <3>1, <3>2, <3>3, <3>4 DEF Ready
    <2>6. sid' \in BOOLEAN /\ retried' \in BOOLEAN
        BY <1>1, <1>2 DEF Channels
    <2> QED
        BY <1>2, <1>3, <2>1, <2>5, <2>6, FlushKeeps
<1>12. CASE ~Idle /\ outbox' = Append(outbox, sent') /\ UNCHANGED <<batch, posted, answer>>
    <2>1. outbox' = queue
        BY <1>2, <1>12 DEF queue
    <2>2. Channels'
        <3>1. \A a \in Of(batch) : \A b \in Of(queue) : a < b
            BY <1>1, <1>3, <1>4, <1>6 DEF Channels
        <3> QED
            BY <1>1, <1>2, <1>3, <1>5, <1>6, <1>7, <1>12, <2>1, <3>1 DEF Channels, Rising, Of
    <2>3. GivenUp(late, sent)' /\ FirstsRise(got, dropped)'
        BY <1>1, <1>2, <1>8 DEF GivenUp, FirstsRise, Rising
    <2>4. Flights'
        BY <1>1, <1>2, <1>12 DEF Flights, Of
    <2>5. TriedTwice'
        <3>1. \A n \in 1..m : Tries(got, late, posted, batch, n) <= 2
            BY <1>3, <1>9, <1>10
        <3>2. ASSUME NEW i \in DOMAIN queue
              PROVE  Tries(got, late, posted, batch, queue[i]) <= IF retryDue /\ i <= BatchMax THEN 1 ELSE 0
            <4>1. CASE i \in DOMAIN outbox
                BY <1>1, <1>2, <1>6, <4>1 DEF TriedTwice
            <4>2. CASE i \notin DOMAIN outbox
                <5>1. queue[i] = m
                    BY <1>6, <4>2
                <5> QED
                    BY <1>9, <5>1
            <4> QED
                BY <4>1, <4>2
        <3> QED
            BY <1>1, <1>2, <1>12, <2>1, <3>1, <3>2 DEF TriedTwice, Of
    <2>6. InTime'
        <3>1. /\ Of(batch)' = Of(batch) /\ Of(outbox)' = Of(queue) /\ Of(got)' = Of(got)
              /\ InPosts(late)' = InPosts(late) /\ Flying' = Flying
            BY <1>2, <1>12, <2>1 DEF Of, InPosts, Posts, Flying
        <3>2. ASSUME ~gone, NEW n \in Of(batch) \cup Of(queue) \cup InPosts(late)
              PROVE  After(n, got, dropped, Flying)
            <4>1. CASE n = m
                BY <1>3, <1>4, <4>1 DEF After
            <4>2. CASE n # m
                BY <1>1, <1>6, <3>2, <4>2 DEF InTime
            <4> QED
                BY <4>1, <4>2
        <3>3. ~gone => \A n \in Of(batch) \cup Of(queue) \cup InPosts(late) : After(n, got, dropped, Flying)'
            BY <1>2, <3>1, <3>2 DEF After
        <3>4. ~gone => InPosts(late) \subseteq Of(batch) \cup Of(queue) \cup Of(got) \cup dropped
            BY <1>1, <1>2, <1>6 DEF InTime
        <3> QED
            BY <1>2, <3>1, <3>3, <3>4 DEF InTime
    <2> QED
        BY <2>2, <2>3, <2>4, <2>5, <2>6 DEF SseInv
<1> QED
    BY <1>11, <1>12 DEF Send

\* A POST reaches the relay, in time or late.
LEMMA LandsKeep == ASSUME SseInv, Land \/ LateLands PROVE SseInv'
<1>1. /\ Channels /\ Flights /\ GivenUp(late, sent) /\ TriedTwice /\ InTime /\ FirstsRise(got, dropped)
      /\ gone \in BOOLEAN /\ posted \in BOOLEAN /\ answer \in {"none", "ok", "gone"} /\ IsFiniteSet(late)
      /\ sent \in Nat
    BY DEF SseInv, Channels, GivenUp
<1>2. /\ got \in Seq(Nat) /\ batch \in Seq(Nat)
      /\ \A s \in Flying : s \in Seq(Nat) /\ Rising(s)
      /\ \A n \in 1..sent : n \in Nat /\ Times(got, n) \in Nat /\ Waits(late, n) \in Nat
    BY <1>1, SseFacts
<1>3. CASE Land
    <2>1. /\ batch # <<>> /\ posted /\ posted' = FALSE /\ Handled(batch)
          /\ answer' = (IF gone THEN "gone" ELSE "ok")
          /\ UNCHANGED <<sid, done, outbox, batch, retried, retryDue, late, gone, sent, dropped>>
        BY <1>3 DEF Land
    <2>2. batch \in Flying
        BY <2>1 DEF Flying
    <2>3. CASE ~gone
        <3>1. got' = got \o batch
            BY <2>1, <2>3 DEF Handled
        <3>2. \A n \in 1..sent : Tries(got', late', posted', batch, n) <= Tries(got, late, posted, batch, n)
            <4>1. SUFFICES ASSUME NEW n \in 1..sent
                           PROVE  Tries(got', late', posted', batch, n) <= Tries(got, late, posted, batch, n)
                OBVIOUS
            <4>2. /\ Times(got', n) \in Nat /\ Times(got, n) \in Nat /\ Waits(late, n) \in Nat
                  /\ Times(got', n) <= Times(got, n) + (IF n \in Of(batch) THEN 1 ELSE 0)
                BY <1>2, <2>2, <3>1, TimesMore
            <4>3. /\ Tries(got', late', posted', batch, n) = Times(got', n) + Waits(late, n) + 0
                  /\ Tries(got, late, posted, batch, n)
                     = Times(got, n) + Waits(late, n) + (IF n \in Of(batch) THEN 1 ELSE 0)
                BY <2>1 DEF Tries
            <4> QED
                BY <4>2, <4>3
        <3>3. Channels' /\ GivenUp(late, sent)' /\ TriedTwice' /\ InTime' /\ FirstsRise(got, dropped)'
            BY <2>1, <2>2, <2>3, <3>1, <3>2, HandlingKeeps
        <3>4. Flights'
            <4>1. Of(batch) \subseteq Of(got')
                BY <1>2, <3>1, LinesJoined
            <4> QED
                BY <1>1, <2>1, <2>3, <4>1 DEF Flights, Of
        <3> QED
            BY <3>3, <3>4 DEF SseInv
    <2>4. CASE gone
        <3>1. got' = got
            BY <2>1, <2>4 DEF Handled
        <3>2. Channels' /\ GivenUp(late, sent)' /\ FirstsRise(got, dropped)' /\ Flights' /\ InTime'
            <4>1. Channels'
                <5>1. posted' \in BOOLEAN /\ answer' \in {"none", "ok", "gone"}
                    BY <2>1
                <5> QED
                    BY <1>1, <2>1, <3>1, <5>1 DEF Channels, Rising, Of
            <4>2. GivenUp(late, sent)'
                BY <1>1, <2>1 DEF GivenUp, Rising
            <4>3. FirstsRise(got, dropped)'
                BY <1>1, <2>1, <3>1 DEF FirstsRise
            <4>4. Flights'
                BY <1>1, <2>1, <2>4 DEF Flights
            <4>5. InTime'
                BY <2>1, <2>4 DEF InTime
            <4> QED
                BY <4>1, <4>2, <4>3, <4>4, <4>5
        <3>3. ASSUME NEW n \in 1..sent, NEW k \in Nat, Tries(got, late, posted, batch, n) <= k
              PROVE  Tries(got, late, FALSE, batch, n) <= k
            <4>1. /\ Times(got, n) \in Nat /\ Waits(late, n) \in Nat
                  /\ Tries(got, late, posted, batch, n) \in Nat
                  /\ Times(got, n) + Waits(late, n) <= Tries(got, late, posted, batch, n)
                BY SseFacts
            <4>2. Tries(got, late, FALSE, batch, n) = Times(got, n) + Waits(late, n)
                BY <4>1 DEF Tries
            <4>3. Times(got, n) + Waits(late, n) <= k
                BY <3>3, <4>1
            <4> QED
                BY <4>2, <4>3
        <3>4. TriedTwice'
            <4>1. Of(batch) \subseteq 1..sent /\ \A i \in DOMAIN outbox : outbox[i] \in 1..sent
                BY SseFacts DEF Of
            <4>2. \A n \in 1..sent : Tries(got, late, FALSE, batch, n) <= 2
                BY <1>1, <3>3 DEF TriedTwice
            <4>3. ~retried => \A n \in Of(batch) : Tries(got, late, FALSE, batch, n) <= 1
                BY <1>1, <2>1, <3>3, <4>1 DEF TriedTwice
            <4>4. ~done => \A i \in DOMAIN outbox : Tries(got, late, FALSE, batch, outbox[i])
                                                  <= IF retryDue /\ i <= BatchMax THEN 1 ELSE 0
                BY <1>1, <3>3, <4>1 DEF TriedTwice
            <4> QED
                BY <2>1, <3>1, <4>2, <4>3, <4>4 DEF TriedTwice, Of
        <3> QED
            BY <3>2, <3>4 DEF SseInv
    <2> QED
        BY <1>1, <2>3, <2>4
<1>4. CASE LateLands
    <2>1. PICK p \in late : /\ late' = late \ {p} /\ Handled(p.frames)
                            /\ UNCHANGED <<sid, done, outbox, batch, retried, retryDue, posted, answer,
                                           gone, sent, dropped>>
        BY <1>4 DEF LateLands
    <2>2. p.frames \in Flying
        BY <2>1 DEF Flying, Posts
    <2>3. ASSUME NEW n \in 1..sent
          PROVE  /\ Waits(late', n) \in Nat
                 /\ Waits(late', n) = Waits(late, n) - (IF n \in Of(p.frames) THEN 1 ELSE 0)
        <3>1. IsFiniteSet(late')
            BY <1>1, <2>1, WaitsChange
        <3> QED
            BY <1>1, <2>1, <3>1, WaitsChange
    <2>4. CASE ~gone
        <3>1. got' = got \o p.frames
            BY <2>1, <2>4 DEF Handled
        <3>2. \A n \in 1..sent : Tries(got', late', posted', batch, n) <= Tries(got, late, posted, batch, n)
            <4>1. SUFFICES ASSUME NEW n \in 1..sent
                           PROVE  Tries(got', late', posted', batch, n) <= Tries(got, late, posted, batch, n)
                OBVIOUS
            <4>2. /\ Times(got', n) \in Nat /\ Times(got, n) \in Nat /\ Waits(late, n) \in Nat
                  /\ Times(got', n) <= Times(got, n) + (IF n \in Of(p.frames) THEN 1 ELSE 0)
                BY <1>2, <2>2, <3>1, TimesMore
            <4>3. Times(got', n) + Waits(late', n) <= Times(got, n) + Waits(late, n)
                BY <2>3, <4>2
            <4> QED
                BY <2>1, <2>3, <4>2, <4>3 DEF Tries
        <3>3. Channels' /\ GivenUp(late, sent)' /\ TriedTwice' /\ InTime' /\ FirstsRise(got, dropped)'
            BY <1>1, <2>1, <2>2, <2>4, <3>1, <3>2, HandlingKeeps
        <3>4. Flights'
            <4>1. Of(got) \subseteq Of(got')
                BY <1>2, <2>2, <3>1, LinesJoined
            <4> QED
                BY <1>1, <2>1, <4>1 DEF Flights, Of
        <3> QED
            BY <3>3, <3>4 DEF SseInv
    <2>5. CASE gone
        <3>1. got' = got
            BY <2>1, <2>5 DEF Handled
        <3>2. Channels' /\ FirstsRise(got, dropped)' /\ Flights' /\ InTime'
            BY <1>1, <2>1, <2>5, <3>1 DEF Channels, FirstsRise, Flights, InTime, Rising, Of
        <3>3. GivenUp(late, sent)'
            <4>1. IsFiniteSet(late')
                BY <1>1, <2>1, WaitsChange
            <4> QED
                BY <1>1, <2>1, <4>1 DEF GivenUp, Rising
        <3>4. ASSUME NEW n \in 1..sent, NEW k \in Nat, Tries(got, late, posted, batch, n) <= k
              PROVE  Tries(got, late', posted, batch, n) <= k
            <4>1. Waits(late', n) <= Waits(late, n)
                <5>1. /\ Waits(late, n) \in Nat /\ Waits(late', n) \in Nat
                      /\ \/ Waits(late', n) = Waits(late, n) - 1
                         \/ Waits(late', n) = Waits(late, n) - 0
                    BY <1>2, <2>3
                <5> QED
                    BY <5>1
            <4>2. Times(got, n) + Waits(late', n) <= Times(got, n) + Waits(late, n)
                BY <1>2, <2>3, <4>1
            <4> QED
                BY <1>2, <2>3, <3>4, <4>2 DEF Tries
        <3>5. TriedTwice'
            <4>1. Of(batch) \subseteq 1..sent /\ \A i \in DOMAIN outbox : outbox[i] \in 1..sent
                BY SseFacts DEF Of
            <4>2. \A n \in 1..sent : Tries(got, late', posted, batch, n) <= 2
                BY <1>1, <3>4 DEF TriedTwice
            <4>3. batch # <<>> /\ ~retried => \A n \in Of(batch) : Tries(got, late', posted, batch, n) <= 1
                BY <1>1, <3>4, <4>1 DEF TriedTwice
            <4>4. ~done => \A i \in DOMAIN outbox : Tries(got, late', posted, batch, outbox[i])
                                                  <= IF retryDue /\ i <= BatchMax THEN 1 ELSE 0
                BY <1>1, <3>4, <4>1 DEF TriedTwice
            <4> QED
                BY <2>1, <3>1, <4>2, <4>3, <4>4 DEF TriedTwice, Of
        <3> QED
            BY <3>2, <3>3, <3>5 DEF SseInv
    <2> QED
        BY <1>1, <2>4, <2>5
<1> QED
    BY <1>3, <1>4

\* A POST that came to nothing goes back to the front: the outbox is the line again, and
\* what was tried once is in the next batch.
LEMMA RetryKeeps == ASSUME BatchMax \in Nat \ {0}, SseInv, PostRetried PROVE SseInv'
<1> DEFINE queue == batch \o outbox
<1>1. /\ batch # <<>> /\ Abandoned /\ ~retried /\ retried' = TRUE /\ retryDue' = TRUE
      /\ outbox' = queue /\ batch' = <<>> /\ posted' = FALSE /\ answer' = "none"
      /\ UNCHANGED <<sid, done, gone, sent, got, dropped>>
    BY DEF PostRetried
<1>2. /\ Channels /\ Flights /\ TriedTwice /\ InTime /\ FirstsRise(got, dropped)
      /\ batch \in Seq(1..sent) /\ outbox \in Seq(1..sent) /\ got \in Seq(1..sent) /\ sent \in Nat
      /\ Rising(batch) /\ Rising(outbox) /\ (\A a \in Of(batch) : \A b \in Of(outbox) : a < b)
      /\ Len(batch) <= BatchMax
    BY DEF SseInv, Channels
<1>3. retryDue = FALSE
    BY <1>1, <1>2 DEF Flights, Channels
<1>4. /\ GivenUp(late', sent)
      /\ \A n \in 1..sent : /\ Times(got, n) \in Nat /\ Waits(late', n) \in Nat
                            /\ Times(got, n) + Waits(late', n) <= Tries(got, late, posted, batch, n)
      /\ Posts(late') \subseteq Flying /\ InPosts(late') \subseteq InPosts(late) \cup Of(batch)
    BY <1>1, AbandonKeeps
<1>5. /\ queue \in Seq(1..sent) /\ Of(queue) = Of(batch) \cup Of(outbox)
    BY <1>2, LinesJoined
<1>6. /\ Len(batch) \in Nat /\ DOMAIN batch = 1..Len(batch)
      /\ \A i \in DOMAIN batch : i \in DOMAIN queue /\ queue[i] = batch[i]
      /\ \A i \in DOMAIN queue : i \notin DOMAIN batch =>
             i - Len(batch) \in DOMAIN outbox /\ queue[i] = outbox[i - Len(batch)]
      /\ \A i \in DOMAIN queue : i \in Nat /\ i # 0
    <2>1. batch \in Seq(Nat) /\ outbox \in Seq(Nat)
        BY SseFacts
    <2> QED
        BY <2>1, JoinedAt
<1> HIDE DEF queue
<1>7. Rising(queue)
    <2>1. SUFFICES ASSUME NEW i \in DOMAIN queue, NEW j \in DOMAIN queue, i < j PROVE queue[i] < queue[j]
        BY DEF Rising
    <2>2. CASE j \in DOMAIN batch
        <3>1. i \in DOMAIN batch
            BY <1>6, <2>1, <2>2
        <3> QED
            BY <1>2, <1>6, <2>1, <2>2, <3>1 DEF Rising
    <2>3. CASE i \in DOMAIN batch /\ j \notin DOMAIN batch
        <3>1. queue[i] \in Of(batch) /\ queue[j] \in Of(outbox)
            BY <1>6, <2>3 DEF Of
        <3> QED
            BY <1>2, <3>1
    <2>4. CASE i \notin DOMAIN batch /\ j \notin DOMAIN batch
        <3>1. i - Len(batch) < j - Len(batch)
            BY <1>6, <2>1
        <3> QED
            BY <1>2, <1>6, <2>4, <3>1 DEF Rising
    <2> QED
        BY <1>6, <2>1, <2>2, <2>3, <2>4
<1>8. Of(<<>>) = {} /\ <<>> \in Seq(1..sent) /\ Len(<<>>) = 0 /\ Rising(<<>>)
    BY EmptySeq, LineEmpty DEF Rising
<1>9. Channels'
    <2>1. Rising(batch)' /\ Rising(outbox)' /\ Of(batch)' = {} /\ Len(batch)' = 0
        BY <1>1, <1>7, <1>8 DEF Rising, Of
    <2> QED
        <3>1. /\ batch' \in Seq(1..sent') /\ outbox' \in Seq(1..sent') /\ got' \in Seq(1..sent')
              /\ sent' \in Nat
            BY <1>1, <1>2, <1>5, <1>8
        <3>2. /\ sid' \in BOOLEAN /\ done' \in BOOLEAN /\ retried' \in BOOLEAN /\ retryDue' \in BOOLEAN
              /\ posted' \in BOOLEAN /\ gone' \in BOOLEAN /\ answer' \in {"none", "ok", "gone"}
            BY <1>1, <1>2 DEF Channels
        <3>3. Len(batch)' <= BatchMax /\ (\A a \in Of(batch)' : \A b \in Of(outbox)' : a < b)
            BY <2>1
        <3> QED
            BY <2>1, <3>1, <3>2, <3>3 DEF Channels
<1>10. Flights'
    BY <1>1 DEF Flights
<1>11. TriedTwice'
    <2>1. ASSUME NEW n \in 1..sent, NEW k \in Nat, Tries(got, late, posted, batch, n) <= k
          PROVE  Tries(got, late', posted', batch', n) <= k
        <3>1. /\ Times(got, n) \in Nat /\ Waits(late', n) \in Nat
              /\ Tries(got, late, posted, batch, n) \in Nat
              /\ Times(got, n) + Waits(late', n) <= Tries(got, late, posted, batch, n)
            BY <1>4, SseFacts
        <3>2. Tries(got, late', posted', batch', n) = Times(got, n) + Waits(late', n)
            BY <1>1, <3>1 DEF Tries
        <3>3. Times(got, n) + Waits(late', n) <= k
            BY <2>1, <3>1
        <3> QED
            BY <3>2, <3>3
    <2>2. \A n \in 1..sent : Tries(got, late', posted', batch', n) <= 2
        BY <1>2, <2>1 DEF TriedTwice
    <2>3. ASSUME ~done, NEW i \in DOMAIN queue
          PROVE  Tries(got, late', posted', batch', queue[i]) <= IF TRUE /\ i <= BatchMax THEN 1 ELSE 0
        <3>1. CASE i \in DOMAIN batch
            <4>1. queue[i] \in Of(batch) /\ i <= BatchMax
                BY <1>2, <1>6, <3>1 DEF Of
            <4>2. queue[i] \in 1..sent
                BY <4>1, SseFacts
            <4>3. Tries(got, late, posted, batch, queue[i]) <= 1
                BY <1>1, <1>2, <4>1 DEF TriedTwice
            <4> QED
                BY <2>1, <4>1, <4>2, <4>3
        <3>2. CASE i \notin DOMAIN batch
            <4>1. i - Len(batch) \in DOMAIN outbox /\ queue[i] = outbox[i - Len(batch)]
                BY <1>6, <3>2
            <4>2. queue[i] \in 1..sent
                BY <4>1, SseFacts DEF Of
            <4>3. Tries(got, late, posted, batch, queue[i]) <= 0
                BY <1>2, <1>3, <2>3, <4>1 DEF TriedTwice
            <4>4. Tries(got, late', posted', batch', queue[i]) <= 0
                BY <2>1, <4>2, <4>3
            <4>5. Tries(got, late', posted', batch', queue[i]) \in Nat
                <5>1. Times(got, queue[i]) \in Nat /\ Waits(late', queue[i]) \in Nat
                    BY <1>4, <4>2
                <5> QED
                    BY <5>1 DEF Tries
            <4> QED
                BY <4>4, <4>5
        <3> QED
            BY <3>1, <3>2
    <2> QED
        BY <1>1, <2>2, <2>3 DEF TriedTwice
<1>12. InTime'
    <2>1. /\ Of(batch)' = {} /\ Of(outbox)' = Of(batch) \cup Of(outbox) /\ Of(got)' = Of(got)
          /\ InPosts(late)' = InPosts(late') /\ Flying' = Posts(late')
        BY <1>1, <1>5, <1>8 DEF Of, InPosts, Posts, Flying
    <2>2. ASSUME ~gone, NEW n \in Of(batch) \cup Of(outbox) \cup InPosts(late')
          PROVE  After(n, got, dropped, Flying)'
        <3>1. After(n, got, dropped, Flying)
            BY <1>2, <1>4, <2>2 DEF InTime
        <3> QED
            BY <1>1, <1>4, <2>1, <3>1 DEF After
    <2>3. ~gone /\ ~done => InPosts(late') \subseteq Of(batch) \cup Of(outbox) \cup Of(got) \cup dropped
        BY <1>2, <1>4 DEF InTime
    <2> QED
        BY <1>1, <2>1, <2>2, <2>3 DEF InTime
<1>13. FirstsRise(got, dropped)' /\ GivenUp(late, sent)'
    BY <1>1, <1>2, <1>4 DEF FirstsRise, GivenUp, Rising
<1> QED
    BY <1>9, <1>10, <1>11, <1>12, <1>13 DEF SseInv

\* What neither takes from the outbox nor lands anything leaves the channel well formed.
LEMMA ChannelsHold ==
    ASSUME Channels, UNCHANGED <<outbox, batch, net, sent, got>>, gone' \in BOOLEAN,
           done' \in BOOLEAN, sid' \in BOOLEAN, retried' \in BOOLEAN, retryDue' \in BOOLEAN
    PROVE  Channels'
<1>1. UNCHANGED <<outbox, batch, posted, answer, sent, got>>
    BY DEF net
<1>2. Rising(batch)' /\ Rising(outbox)'
    BY <1>1 DEF Channels, Rising
<1>3. Of(batch)' = Of(batch) /\ Of(outbox)' = Of(outbox)
    BY <1>1 DEF Of
<1>4. /\ posted' \in BOOLEAN /\ gone' \in BOOLEAN /\ answer' \in {"none", "ok", "gone"} /\ sent' \in Nat
      /\ batch' \in Seq(1..sent') /\ outbox' \in Seq(1..sent') /\ got' \in Seq(1..sent')
      /\ Len(batch)' <= BatchMax
    BY <1>1 DEF Channels
<1>5. \A a \in Of(batch)' : \A b \in Of(outbox)' : a < b
    BY <1>3 DEF Channels
<1> QED
    BY <1>2, <1>4, <1>5 DEF Channels

\* What opens and closes: nothing is handled, and what is dropped from the line is of no
\* consequence once the channel is done.
LEMMA EndsKeep ==
    ASSUME BatchMax \in Nat \ {0}, SseInv,
           StreamWelcomed \/ PostGone \/ Close \/ StreamDrops \/ RelayForgets
    PROVE  SseInv'
<1>1. /\ Channels /\ Flights /\ GivenUp(late, sent) /\ TriedTwice /\ InTime /\ FirstsRise(got, dropped)
    BY DEF SseInv
<1>2. UNCHANGED <<late, sent, got, dropped>>
    BY DEF StreamWelcomed, PostGone, Close, StreamDrops, RelayForgets, net
<1>3. GivenUp(late, sent)' /\ FirstsRise(got, dropped)'
    BY <1>1, <1>2 DEF GivenUp, FirstsRise, Rising
<1>4. Of(<<>>) = {} /\ <<>> \in Seq(1..sent) /\ Len(<<>>) = 0 /\ Rising(<<>>)
    BY EmptySeq, LineEmpty DEF Rising
<1>5. CASE StreamWelcomed
    <2>1. /\ sid' = TRUE /\ UNCHANGED <<done, outbox, batch, retried, retryDue, net, gone>>
        BY <1>5 DEF StreamWelcomed
    <2>2. Channels'
        <3>1. /\ done' \in BOOLEAN /\ sid' \in BOOLEAN /\ retried' \in BOOLEAN /\ retryDue' \in BOOLEAN
              /\ gone' \in BOOLEAN
            BY <1>1, <2>1 DEF Channels
        <3> QED
            BY <1>1, <1>2, <2>1, <3>1, ChannelsHold
    <2>4. Flights' /\ TriedTwice'
        BY <1>1, <1>2, <2>1 DEF Flights, TriedTwice, net, Of
    <2>3. InTime'
        BY <1>1, <1>2, <2>1 DEF InTime, After, Flying, InPosts, Posts, net, Of
    <2> QED
        BY <1>3, <2>2, <2>3, <2>4 DEF SseInv
<1>6. CASE RelayForgets
    <2>1. /\ gone' = TRUE /\ UNCHANGED <<sid, done, outbox, batch, retried, retryDue, net>>
        BY <1>6 DEF RelayForgets
    <2>2. Channels'
        <3>1. /\ done' \in BOOLEAN /\ sid' \in BOOLEAN /\ retried' \in BOOLEAN /\ retryDue' \in BOOLEAN
              /\ gone' \in BOOLEAN
            BY <1>1, <2>1 DEF Channels
        <3> QED
            BY <1>1, <1>2, <2>1, <3>1, ChannelsHold
    <2>4. Flights' /\ TriedTwice'
        BY <1>1, <1>2, <2>1 DEF Flights, TriedTwice, net, Of
    <2>3. InTime'
        BY <2>1 DEF InTime
    <2> QED
        BY <1>3, <2>2, <2>3, <2>4 DEF SseInv
<1>7. CASE PostGone
    <2>1. /\ answer = "gone" /\ done' = TRUE /\ retried' = FALSE
          /\ batch' = <<>> /\ posted' = FALSE /\ answer' = "none"
          /\ UNCHANGED <<sid, outbox, retryDue, late, gone, sent, got, dropped>>
        BY <1>7 DEF PostGone
    <2>2. gone /\ batch # <<>> /\ ~retryDue
        BY <1>1, <2>1 DEF Flights
    <2>3. Channels'
        <3>1. Rising(batch)' /\ Rising(outbox)' /\ Of(batch)' = {} /\ Len(batch)' = 0
            BY <1>1, <1>4, <2>1 DEF Rising, Of, Channels
        <3> QED
            <4>1. /\ batch' \in Seq(1..sent') /\ outbox' \in Seq(1..sent') /\ got' \in Seq(1..sent')
                  /\ sent' \in Nat
                BY <1>1, <1>4, <2>1 DEF Channels
            <4>2. /\ sid' \in BOOLEAN /\ done' \in BOOLEAN /\ retried' \in BOOLEAN
                  /\ retryDue' \in BOOLEAN /\ posted' \in BOOLEAN /\ gone' \in BOOLEAN
                  /\ answer' \in {"none", "ok", "gone"}
                BY <1>1, <2>1 DEF Channels
            <4>3. Len(batch)' <= BatchMax /\ (\A a \in Of(batch)' : \A b \in Of(outbox)' : a < b)
                BY <3>1
            <4> QED
                BY <3>1, <4>1, <4>2, <4>3 DEF Channels
    <2>4. Flights' /\ InTime'
        BY <1>1, <2>1, <2>2 DEF Flights, InTime
    <2>5. TriedTwice'
        <3>1. ASSUME NEW n \in 1..sent PROVE Tries(got, late, FALSE, <<>>, n) <= 2
            <4>1. /\ Times(got, n) \in Nat /\ Waits(late, n) \in Nat
                  /\ Tries(got, late, posted, batch, n) \in Nat
                  /\ Times(got, n) + Waits(late, n) <= Tries(got, late, posted, batch, n)
                BY SseFacts
            <4>2. Tries(got, late, FALSE, <<>>, n) = Times(got, n) + Waits(late, n)
                BY <4>1 DEF Tries
            <4>3. Tries(got, late, posted, batch, n) <= 2
                BY <1>1 DEF TriedTwice
            <4>4. Times(got, n) + Waits(late, n) <= 2
                BY <4>1, <4>3
            <4> QED
                BY <4>2, <4>4
        <3> QED
            BY <2>1, <3>1 DEF TriedTwice
    <2> QED
        BY <1>3, <2>3, <2>4, <2>5 DEF SseInv
<1>8. CASE Close
    <2>1. /\ done' = TRUE /\ outbox' = <<>> /\ retryDue' = FALSE
          /\ UNCHANGED <<sid, batch, retried, net, gone>>
        BY <1>8 DEF Close
    <2>2. Channels'
        <3>1. Rising(batch)' /\ Rising(outbox)' /\ Of(outbox)' = {} /\ Of(batch)' = Of(batch)
            BY <1>1, <1>4, <2>1 DEF Rising, Of, Channels
        <3>2. UNCHANGED <<posted, answer, sent, got>>
            BY <1>2, <2>1 DEF net
        <3>3. /\ posted' \in BOOLEAN /\ gone' \in BOOLEAN /\ answer' \in {"none", "ok", "gone"}
              /\ sid' \in BOOLEAN /\ done' \in BOOLEAN /\ retried' \in BOOLEAN /\ retryDue' \in BOOLEAN
            BY <1>1, <2>1, <3>2 DEF Channels
        <3>4. /\ sent' \in Nat /\ Len(batch)' <= BatchMax
              /\ batch' \in Seq(1..sent') /\ outbox' \in Seq(1..sent') /\ got' \in Seq(1..sent')
            BY <1>1, <1>4, <2>1, <3>2 DEF Channels
        <3> QED
            BY <3>1, <3>3, <3>4 DEF Channels
    <2>3. Flights' /\ TriedTwice'
        BY <1>1, <1>2, <2>1 DEF Flights, TriedTwice, net, Of
    <2>4. InTime'
        <3>1. /\ Of(batch)' = Of(batch) /\ Of(outbox)' = {} /\ InPosts(late)' = InPosts(late)
            BY <1>2, <1>4, <2>1 DEF Of, InPosts, Posts
        <3>2. ASSUME ~gone, NEW n \in Of(batch) \cup InPosts(late) PROVE After(n, got, dropped, Flying)'
            <4>1. After(n, got, dropped, Flying)
                BY <1>1, <3>2 DEF InTime
            <4> QED
                BY <1>2, <2>1, <4>1 DEF After, Of, Flying, Posts, net
        <3> QED
            BY <2>1, <3>1, <3>2 DEF InTime
    <2> QED
        BY <1>3, <2>2, <2>3, <2>4 DEF SseInv
<1>9. CASE StreamDrops
    <2>1. /\ done' = TRUE /\ retryDue' = FALSE
          /\ UNCHANGED <<sid, outbox, batch, retried, net, gone>>
        BY <1>9 DEF StreamDrops
    <2>2. Channels'
        <3>1. /\ done' \in BOOLEAN /\ sid' \in BOOLEAN /\ retried' \in BOOLEAN /\ retryDue' \in BOOLEAN
              /\ gone' \in BOOLEAN
            BY <1>1, <2>1 DEF Channels
        <3> QED
            BY <1>1, <1>2, <2>1, <3>1, ChannelsHold
    <2>4. Flights' /\ TriedTwice'
        BY <1>1, <1>2, <2>1 DEF Flights, TriedTwice, net, Of
    <2>3. InTime'
        BY <1>1, <1>2, <2>1 DEF InTime, After, Flying, InPosts, Posts, net, Of
    <2> QED
        BY <1>3, <2>2, <2>3, <2>4 DEF SseInv
<1> QED
    BY <1>5, <1>6, <1>7, <1>8, <1>9

\* SseInv is inductive.
LEMMA SseKeeps == ASSUME BatchMax \in Nat \ {0}, SseInv, [SseNext]_sseVars PROVE SseInv'
<1>1. CASE UNCHANGED sseVars
    <2>1. /\ Channels' /\ Flights' /\ GivenUp(late, sent)' /\ FirstsRise(got, dropped)'
        <3>1. Channels'
            <4>1. Channels
                BY DEF SseInv
            <4>2. /\ done' \in BOOLEAN /\ sid' \in BOOLEAN /\ retried' \in BOOLEAN /\ retryDue' \in BOOLEAN
                  /\ gone' \in BOOLEAN
                BY <1>1, <4>1 DEF sseVars, Channels
            <4> QED
                BY <1>1, <4>1, <4>2, ChannelsHold DEF sseVars
        <3>2. Flights' /\ FirstsRise(got, dropped)'
            BY <1>1 DEF SseInv, sseVars, net, Flights, FirstsRise, Of
        <3>3. GivenUp(late, sent)'
            BY <1>1 DEF SseInv, sseVars, net, GivenUp, Rising
        <3> QED
            BY <3>1, <3>2, <3>3
    <2>3. TriedTwice'
        BY <1>1 DEF SseInv, sseVars, net, TriedTwice, Of
    <2>2. InTime'
        BY <1>1 DEF SseInv, sseVars, net, InTime, After, Flying, InPosts, Posts, Of
    <2> QED
        BY <2>1, <2>2, <2>3 DEF SseInv
<1> QED
    BY <1>1, SendKeeps, LandsKeep, FlushesKeep, RetryKeeps, EndsKeep DEF SseNext, SseWork

\* It holds at the start.
LEMMA SseStarts == ASSUME BatchMax \in Nat \ {0}, SseInit PROVE SseInv
<1>1. /\ Of(<<>>) = {} /\ <<>> \in Seq(1..0) /\ Len(<<>>) = 0 /\ DOMAIN <<>> = {}
    BY EmptySeq, LineEmpty
<1>2. IsFiniteSet({})
    BY FS_EmptySet
<1>3. Channels /\ Flights /\ GivenUp(late, sent) /\ FirstsRise(got, dropped)
    <2>1. Channels
        <3>1. Rising(<<>>)
            BY <1>1 DEF Rising
        <3>2. BatchMax \in Nat
            OBVIOUS
        <3> QED
            <4>1. /\ sid \in BOOLEAN /\ done \in BOOLEAN /\ retried \in BOOLEAN /\ retryDue \in BOOLEAN
                  /\ posted \in BOOLEAN /\ gone \in BOOLEAN /\ answer \in {"none", "ok", "gone"}
                BY DEF SseInit
            <4>2. sent \in Nat /\ sent = 0
                BY DEF SseInit
            <4>3. batch \in Seq(1..sent) /\ outbox \in Seq(1..sent) /\ got \in Seq(1..sent)
                BY <1>1, <4>2 DEF SseInit
            <4>4. Rising(batch) /\ Rising(outbox) /\ Of(batch) = {} /\ Len(batch) = 0
                BY <1>1, <3>1 DEF SseInit
            <4>5. Len(batch) <= BatchMax
                BY <3>2, <4>4
            <4> QED
                BY <4>1, <4>2, <4>3, <4>4, <4>5 DEF Channels
    <2>2. Flights
        BY DEF SseInit, Flights
    <2>3. GivenUp(late, sent)
        BY <1>2 DEF SseInit, GivenUp
    <2>4. FirstsRise(got, dropped)
        BY <1>1 DEF SseInit, FirstsRise
    <2> QED
        BY <2>1, <2>2, <2>3, <2>4
<1>4. TriedTwice
    BY <1>1 DEF SseInit, TriedTwice
<1>5. InTime
    BY <1>1 DEF SseInit, InTime, InPosts, Posts
<1> QED
    BY <1>3, <1>4, <1>5 DEF SseInv

\* The first place of a frame that was handled.
LEMMA FirstIs ==
    ASSUME SseInv, NEW n \in Of(got)
    PROVE  /\ First(n) \in DOMAIN got /\ got[First(n)] = n
           /\ \A j \in DOMAIN got : j < First(n) => got[j] # n
<1> DEFINE S == {i \in DOMAIN got : got[i] = n}
<1>1. DOMAIN got = 1..Len(got) /\ Len(got) \in Nat
    BY SseFacts, LenProperties
<1>2. S \in SUBSET Nat /\ S # {}
    BY <1>1 DEF Of
<1> HIDE DEF S
<1>3. PICK i \in S : \A j \in S : i <= j
    BY <1>2, EarliestOf
<1>4. i \in DOMAIN got /\ got[i] = n /\ \A j \in 1..(i - 1) : got[j] # n
    <2>1. \A j \in 1..(i - 1) : j \in DOMAIN got /\ ~(i <= j)
        BY <1>1, <1>2, <1>3 DEF S
    <2> QED
        BY <1>3, <2>1 DEF S
<1>5. \E k \in DOMAIN got : got[k] = n /\ \A j \in 1..(k - 1) : got[j] # n
    BY <1>4
<1>6. First(n) \in DOMAIN got /\ got[First(n)] = n /\ \A j \in 1..(First(n) - 1) : got[j] # n
    BY <1>5 DEF First
<1> HIDE DEF First
<1> QED
    BY <1>1, <1>6

\* No frame is handled more than twice, and one is overtaken only if it was given up: the retry
\* of sse.js:148-157, with whatever POSTs the network still delivers late.
THEOREM OutboxInTurn ==
    SseInit /\ [][SseNext]_sseVars => [](AtMostTwice /\ OvertakenOnlyIfDropped)
<1> USE SseAssumption
<1>1. BatchMax \in Nat \ {0}
    BY DEF SseAssumption
<1>2. SseInit => SseInv
    BY <1>1, SseStarts
<1>3. SseInv /\ [SseNext]_sseVars => SseInv'
    BY <1>1, SseKeeps
<1>4. SseInv => AtMostTwice
    <2>1. ASSUME SseInv, NEW n \in 1..sent PROVE Cardinality({i \in DOMAIN got : got[i] = n}) <= 2
        <3>1. /\ Times(got, n) \in Nat /\ Waits(late, n) \in Nat
              /\ Tries(got, late, posted, batch, n) \in Nat
              /\ Times(got, n) + Waits(late, n) <= Tries(got, late, posted, batch, n)
            BY <2>1, SseFacts
        <3>2. Tries(got, late, posted, batch, n) <= 2
            BY <2>1 DEF SseInv, TriedTwice
        <3>3. Times(got, n) <= 2
            BY <3>1, <3>2
        <3> QED
            BY <3>3 DEF Times
    <2> QED
        BY <2>1 DEF AtMostTwice
<1>5. SseInv => OvertakenOnlyIfDropped
    <2>1. SUFFICES ASSUME SseInv, NEW m \in Of(got), NEW n \in Of(got), m < n, First(n) < First(m)
                   PROVE  m \in dropped
        BY DEF OvertakenOnlyIfDropped, ToSet, Of
    <2>2. /\ First(n) \in DOMAIN got /\ got[First(n)] = n
          /\ First(m) \in DOMAIN got /\ got[First(m)] = m
          /\ \A j \in DOMAIN got : j < First(m) => got[j] # m
        BY <2>1, FirstIs
    <2>3. m \in dropped \/ n < m
        <3>1. FirstsRise(got, dropped)
            BY <2>1 DEF SseInv
        <3> QED
            BY <2>1, <2>2, <3>1 DEF FirstsRise
    <2>4. m \in Nat /\ n \in Nat
        <3>1. Of(got) \subseteq 1..sent /\ sent \in Nat
            BY <2>1, SseFacts DEF SseInv, Channels
        <3> QED
            BY <3>1
    <2> QED
        BY <2>1, <2>3, <2>4
<1> QED
    BY <1>2, <1>3, <1>4, <1>5, PTL
=============================================================================
