--------------------------- MODULE SessionProofs ----------------------------
(***************************************************************************)
(* What module Session promises, proved for every number of sessions, of   *)
(* frames, of drops and of changes of the rung: that sessions keep apart,  *)
(* that nothing is left behind, and that clips keep their order.           *)
(*                                                                         *)
(* The key a device holds is that of the newest session it opened, or      *)
(* none; all that waits, for its seal, its opening or its turn, is older   *)
(* than that session or has its key.  This is kept because no session is   *)
(* opened beside another: a prompt that stands before a room has no key    *)
(* behind it, which in turn rests on a lock saying goodbye only in a       *)
(* session that can no longer collide.                                     *)
(***************************************************************************)
EXTENDS Session, SequenceTheorems, WellFoundedInduction, TLAPS

\* What a connection is for.
Intents == {"create", "join"}
\* What a prompt may be.
Ops == {"none", "boot", "collision", "notice", "rejoin", "rotate", "repin", "retry", "lock"}
\* A prompt that stands before a room.
Outside == prompt.op \in {"boot", "collision", "notice"}

\* The place of the device: its session, if it has a key, is the newest it opened.
PlaceTypes ==
    /\ gen \in 0..MaxGen /\ key \in {None, gen} /\ room = key
    /\ disk \in 0..MaxGen /\ target \in 0..MaxGen
    /\ locked \in BOOLEAN /\ verified \in BOOLEAN
    /\ conn \in {"closed", "opening", "open"} /\ intent \in Intents
    /\ gate \in Intents \cup {"no"}
    /\ key # None <=> conn # "closed"
    /\ key = None => ~locked /\ ~verified
    /\ key # None => disk = key
    /\ verified => locked /\ proof = gen
\* A derivation still wanted is the only one of its session, which has no key yet.
Derivings ==
    /\ deriving \subseteq [gen : 1..MaxGen, locked : BOOLEAN, intent : Intents]
    /\ \A d \in deriving : d.gen <= gen /\ (d.gen = gen => key = None /\ disk = gen)
    /\ \A d, e \in deriving : d.gen = e.gen => d = e
\* A prompt that stands before a room has no session behind it, and a lock that says
\* goodbye has none before it that could collide.
AskedTypes ==
    /\ prompt \in [op : Ops, intent : Intents] /\ locking \in {"no", "seal", "flush"}
    /\ Outside => key = None /\ locking = "no" /\ \A d \in deriving : d.gen # gen
    /\ locking # "no" => /\ locked => intent = "join"
                         /\ \A d \in deriving : d.gen = gen => ~d.locked
\* What is counted.
Counts == count \in [{"made", "heard", "drops", "flips", "seq"} -> Nat]
\* What waits in turn: its number, its session and, once it is sealed, its key.
Jobs == [n : Nat, gen : Nat, key : Nat]
\* What waits for its own seal, or its opening, has the key of the session it is of.
Rightful(job) == job.key = job.gen /\ job.gen # None /\ job.gen <= gen /\ (job.gen = gen => key = gen)
\* What waits for nothing but itself.
Alone ==
    /\ loose \subseteq [kind : {"stream", "verify", "evict"}, gen : Nat, key : Nat]
    /\ decrypting \subseteq [n : Nat, kind : {"clip", "stream", "verify", "evict"}, gen : Nat, key : Nat]
    /\ \A job \in loose \cup decrypting : Rightful(job)
    /\ applying \subseteq [n : Nat, gen : Nat, seq : Nat]
\* What waits in turn is of older sessions first, and only the first of it has a key.
ChainOf(tail, g, k, made) ==
    /\ tail \in Seq(Jobs)
    /\ \A i \in DOMAIN tail : /\ tail[i].gen # None /\ tail[i].gen <= g
                              /\ tail[i].gen = g => k = g
                              /\ tail[i].n <= made
                              /\ tail[i].key = (IF i = 1 THEN tail[i].gen ELSE None)
    /\ \A i, j \in DOMAIN tail : i < j => tail[i].gen <= tail[j].gen /\ tail[i].n < tail[j].n
\* A chain of this device.
Chain(tail) == ChainOf(tail, gen, key, count.made)
\* Both of them.
Chains == Chain(clipTail) /\ Chain(sideTail)
\* What waits in the slot waits for a connection, and is newer than what goes before it.
Slot ==
    /\ queued \in [n : Nat, gen : Nat] /\ queued.gen <= gen /\ queued.n <= count.made
    /\ queued.n # 0 /\ queued.gen = gen => /\ conn # "open"
                                           /\ queued.n > sent.clip
                                           /\ \A i \in DOMAIN clipTail : clipTail[i].n < queued.n
\* What was sent is older than what waits.
SentBefore ==
    /\ sent \in [{"clip", "side"} -> Nat] /\ \A what \in {"clip", "side"} : sent[what] <= count.made
    /\ \A i \in DOMAIN clipTail : sent.clip < clipTail[i].n
    /\ \A i \in DOMAIN sideTail : sent.side < sideTail[i].n
\* What an observer saw.
Seen ==
    /\ wire = [home |-> TRUE, shared |-> TRUE] /\ felt = TRUE
    /\ proof \in 0..MaxGen /\ shares \in BOOLEAN
    /\ shown \in Nat /\ shown <= count.seq
\* The inductive invariant.
SessionInv ==
    /\ PlaceTypes /\ Derivings /\ AskedTypes /\ Counts /\ Alone /\ Chains /\ Slot /\ SentBefore /\ Seen

-----------------------------------------------------------------------------
(* Chains *)

\* Of some naturals one is the least.
LEMMA Least == ASSUME NEW S \in SUBSET Nat, S # {} PROVE \E i \in S : \A j \in S : i <= j
<1> DEFINE R == {ss \in Nat \X Nat : ss[1] < ss[2]}
<1>1. IsWellFoundedOn(R, Nat)
    BY NatLessThanWellFounded DEF OpToRel
<1>2. \A x, y \in Nat : x < y => <<x, y>> \in R
    OBVIOUS
<1> HIDE DEF R
<1>3. PICK x \in S : \A y \in S : ~(<<y, x>> \in R)
    BY <1>1, WFMin
<1>4. \A y \in S : ~(y < x)
    BY <1>2, <1>3
<1> QED
    BY <1>4

\* The jobs that follow the one being sealed have no key.
Waiting(tail) ==
    /\ tail \in Seq(Jobs)
    /\ \A i \in DOMAIN tail : /\ tail[i].gen # None /\ tail[i].gen <= gen
                              /\ tail[i].gen = gen => key = gen
                              /\ tail[i].n <= count.made
                              /\ tail[i].key = None
    /\ \A i, j \in DOMAIN tail : i < j => tail[i].gen <= tail[j].gen /\ tail[i].n < tail[j].n

\* The rest of a chain waits, behind what was sealed.
LEMMA RestWaits ==
    ASSUME NEW tail, Chain(tail), tail # <<>>
    PROVE  /\ Waiting(Tail(tail)) /\ Head(tail) \in Jobs /\ Head(tail) = tail[1]
           /\ Head(tail).key = Head(tail).gen /\ Head(tail).gen # None
           /\ Head(tail).gen = gen => key = gen
           /\ Head(tail).n <= count.made
           /\ \A i \in DOMAIN Tail(tail) : Head(tail).n < Tail(tail)[i].n
                                           /\ \E k \in DOMAIN tail : Tail(tail)[i] = tail[k]
<1>1. /\ tail \in Seq(Jobs) /\ Len(tail) \in Nat /\ Len(tail) # 0 /\ DOMAIN tail = 1..Len(tail)
    BY EmptySeq, LenProperties DEF Chain, ChainOf
<1>2. /\ Tail(tail) \in Seq(Jobs) /\ Len(Tail(tail)) = Len(tail) - 1 /\ Head(tail) = tail[1]
      /\ \A i \in 1..Len(Tail(tail)) : Tail(tail)[i] = tail[i + 1]
    BY <1>1, HeadTailProperties
<1>3. DOMAIN Tail(tail) = 1..(Len(tail) - 1)
    BY <1>2, LenProperties
<1>4. \A i \in DOMAIN Tail(tail) : i + 1 \in DOMAIN tail /\ i + 1 # 1 /\ Tail(tail)[i] = tail[i + 1]
    BY <1>1, <1>2, <1>3
<1>5. 1 \in DOMAIN tail /\ tail[1] \in Jobs
    BY <1>1, LenProperties
<1>6. \A i \in DOMAIN Tail(tail) : 1 < i + 1
    BY <1>1, <1>3
<1>7. \A i, j \in DOMAIN Tail(tail) : i < j => i + 1 < j + 1
    BY <1>1, <1>3
<1>8. Waiting(Tail(tail))
    BY <1>2, <1>4, <1>7 DEF Waiting, Chain, ChainOf
<1> QED
    BY <1>2, <1>4, <1>5, <1>6, <1>8 DEF Chain, ChainOf

\* What is left of it after those of older sessions.
LEMMA LiveWaits ==
    ASSUME NEW tail, Waiting(tail), gen \in Nat
    PROVE  /\ Waiting(Live(tail))
           /\ \A i \in DOMAIN Live(tail) : \E k \in DOMAIN tail : Live(tail)[i] = tail[k]
           /\ Live(tail) # <<>> => /\ key = gen /\ gen # None /\ Live(tail)[1].gen = gen
                                   /\ tail # <<>> /\ Len(tail) \in DOMAIN tail /\ tail[Len(tail)].n \in Nat
<1>1. /\ tail \in Seq(Jobs) /\ Len(tail) \in Nat /\ DOMAIN tail = 1..Len(tail)
      /\ \A i \in DOMAIN tail : tail[i] \in Jobs /\ tail[i].gen \in Nat /\ tail[i].n \in Nat
    <2>1. tail \in Seq(Jobs)
        BY DEF Waiting
    <2>2. Len(tail) \in Nat /\ DOMAIN tail = 1..Len(tail) /\ \A i \in 1..Len(tail) : tail[i] \in Jobs
        BY <2>1, LenProperties, ElementOfSeq
    <2> QED
        BY <2>1, <2>2 DEF Jobs
<1>2. CASE Those(tail) = {}
    <2>1. Live(tail) = <<>>
        BY <1>2 DEF Live
    <2>2. <<>> \in Seq(Jobs) /\ DOMAIN <<>> = {}
        BY EmptySeq
    <2> QED
        BY <2>1, <2>2 DEF Waiting
<1>3. CASE Those(tail) # {}
    <2> DEFINE f == From(tail)
    <2>1. f \in Those(tail) /\ \A j \in Those(tail) : f <= j
        <3>1. Those(tail) \in SUBSET Nat
            BY <1>1 DEF Those
        <3> QED
            BY <1>3, <3>1, Least DEF From
    <2>2. f \in 1..Len(tail) /\ tail[f].gen = gen
        BY <1>1, <2>1 DEF Those, Mine
    <2> HIDE DEF f
    <2>3. Live(tail) = SubSeq(tail, f, Len(tail))
        BY <1>3 DEF Live, f
    <2> DEFINE l == SubSeq(tail, f, Len(tail))
    <2>4. \A i \in f..Len(tail) : tail[i] \in Jobs
        BY <1>1, <2>2
    <2>5. /\ l \in Seq(Jobs) /\ Len(l) = (IF f <= Len(tail) THEN Len(tail) - f + 1 ELSE 0)
          /\ \A i \in 1..(Len(tail) - f + 1) : l[i] = tail[f + i - 1]
        BY <1>1, <2>2, <2>4, SubSeqProperties
    <2> HIDE DEF l
    <2>6. Len(l) = Len(tail) - f + 1 /\ Len(l) \in Nat /\ Len(l) # 0 /\ DOMAIN l = 1..(Len(tail) - f + 1)
        BY <1>1, <2>2, <2>5, LenProperties
    <2>7. \A i \in DOMAIN l : f + i - 1 \in DOMAIN tail /\ l[i] = tail[f + i - 1]
        BY <1>1, <2>2, <2>5, <2>6
    <2>8. \A i, j \in DOMAIN l : i < j => f + i - 1 < f + j - 1
        BY <1>1, <2>2, <2>6
    <2>9. Waiting(l)
        BY <2>5, <2>7, <2>8 DEF Waiting
    <2>10. l # <<>> /\ 1 \in DOMAIN l /\ f + 1 - 1 = f
        BY <1>1, <2>2, <2>6, EmptySeq
    <2>11. l[1].gen = gen /\ key = gen /\ gen # None
        <3>1. l[1] = tail[f] /\ f \in DOMAIN tail
            BY <1>1, <2>2, <2>7, <2>10
        <3> QED
            BY <2>2, <3>1 DEF Waiting
    <2>12. tail # <<>> /\ Len(tail) \in DOMAIN tail
        BY <1>1, <2>2, EmptySeq
    <2>13. Live(tail) = l
        BY <2>3 DEF l
    <2> QED
        BY <1>1, <2>7, <2>9, <2>11, <2>12, <2>13
<1> QED
    BY <1>2, <1>3

-----------------------------------------------------------------------------
(* Opening and leaving *)

\* A newer session has nothing waiting in it.
LEMMA NewGen ==
    ASSUME SessionInv, gen' \in Nat, gen' > gen, loose' \subseteq loose, decrypting' \subseteq decrypting,
           UNCHANGED <<clipTail, sideTail, applying, sent, count>>, queued' \in {queued, NoClip}
    PROVE  Counts' /\ Alone' /\ Chains' /\ Slot' /\ SentBefore'
<1>1. gen \in Nat /\ key \in {None, gen}
    BY BoundsAreNat DEF SessionInv, PlaceTypes, None
<1>2. Counts'
    BY DEF SessionInv, Counts
<1>3. Alone'
    <2>1. \A job \in loose' \cup decrypting' : Rightful(job) /\ job.gen \in Nat
        BY DEF SessionInv, Alone
    <2>2. \A job \in loose' \cup decrypting' : job.gen # gen' /\ job.gen <= gen'
        BY <1>1, <2>1 DEF Rightful
    <2> QED
        BY <2>1, <2>2 DEF SessionInv, Alone, Rightful
<1>4. \A tail : Chain(tail) => \A i \in DOMAIN tail : tail[i].gen <= gen' /\ tail[i].gen # gen'
    <2> SUFFICES ASSUME NEW tail, Chain(tail), NEW i \in DOMAIN tail
                 PROVE  tail[i].gen <= gen' /\ tail[i].gen # gen'
        OBVIOUS
    <2>1. tail \in Seq(Jobs) /\ tail[i].gen <= gen
        BY DEF Chain, ChainOf
    <2>2. tail[i] \in Jobs
        BY <2>1, LenProperties, ElementOfSeq
    <2> QED
        BY <1>1, <2>1, <2>2 DEF Jobs
<1>5. Chains'
    BY <1>4 DEF SessionInv, Chains, Chain, ChainOf
<1>6. Slot'
    <2>1. \/ queued' \in [n : Nat, gen : Nat] /\ queued'.gen <= gen' /\ queued'.gen # gen'
          \/ queued' = NoClip
        BY <1>1 DEF SessionInv, Slot
    <2>2. queued'.n <= count'.made
        BY DEF SessionInv, Slot, NoClip, Counts
    <2>3. queued' \in [n : Nat, gen : Nat] /\ queued'.gen <= gen'
        BY <1>1, <2>1 DEF NoClip
    <2>4. ~(queued'.n # 0 /\ queued'.gen = gen')
        BY <2>1 DEF NoClip
    <2> QED
        BY <2>2, <2>3, <2>4 DEF Slot
<1>7. SentBefore'
    BY DEF SessionInv, SentBefore
<1> QED
    BY <1>2, <1>3, <1>5, <1>6, <1>7

\* A session that is opened has no key yet, and is asked for by no prompt.
LEMMA MoveKeeps ==
    ASSUME SessionInv, NEW l \in BOOLEAN, NEW i \in Intents, MoveTo(l, i),
           UNCHANGED <<proof, clipTail, sideTail, applying, sent, count>>,
           loose' \subseteq loose, decrypting' \subseteq decrypting,
           prompt' \in {prompt, Quiet}, ~Outside', locking' \in {locking, "no"}, l => locking' = "no"
    PROVE  PlaceTypes' /\ Derivings' /\ AskedTypes' /\ Counts' /\ Alone' /\ Chains' /\ Slot' /\ SentBefore'
<1>1. gen \in Nat /\ gen + 2 \in 1..MaxGen /\ gen' = gen + 2 /\ gen' > gen
    BY BoundsAreNat DEF SessionInv, PlaceTypes, MoveTo, OpenAt
<1>2. Counts' /\ Alone' /\ Chains' /\ Slot' /\ SentBefore'
    BY <1>1, NewGen DEF MoveTo, Drops
<1>3. PlaceTypes'
    <2>1. /\ key' = None /\ locked' = FALSE /\ verified' = FALSE /\ room' = None /\ conn' = "closed"
          /\ intent' = intent /\ disk' = gen' /\ target' = gen' /\ gate' = "no"
        BY <1>1 DEF MoveTo, Drops, OpenAt
    <2>2. gen' \in 0..MaxGen /\ intent' \in Intents
        BY <1>1, <2>1 DEF SessionInv, PlaceTypes
    <2> QED
        BY <2>1, <2>2 DEF PlaceTypes
<1>4. Derivings'
    <2>1. deriving' = deriving \cup {[gen |-> gen', locked |-> l, intent |-> i]} /\ key' = None /\ disk' = gen'
        BY <1>1 DEF MoveTo, Drops, OpenAt
    <2>2. [gen |-> gen', locked |-> l, intent |-> i] \in [gen : 1..MaxGen, locked : BOOLEAN, intent : Intents]
        BY <1>1
    <2>3. \A d \in deriving : d.gen < gen' /\ d \in [gen : 1..MaxGen, locked : BOOLEAN, intent : Intents]
        BY <1>1 DEF SessionInv, Derivings
    <2>4. \A d, e \in deriving : d.gen = e.gen => d = e
        BY DEF SessionInv, Derivings
    <2>5. \A d \in deriving' : d \in deriving \/ d = [gen |-> gen', locked |-> l, intent |-> i]
        BY <2>1
    <2>6. \A d \in deriving' : d.gen <= gen' /\ (d.gen = gen' => d = [gen |-> gen', locked |-> l, intent |-> i])
        BY <1>1, <2>3, <2>5
    <2>7. \A d, e \in deriving' : d.gen = e.gen => d = e
        BY <1>1, <2>3, <2>4, <2>5, <2>6
    <2>8. deriving' \subseteq [gen : 1..MaxGen, locked : BOOLEAN, intent : Intents]
        BY <2>2, <2>3, <2>5
    <2> QED
        BY <2>1, <2>6, <2>7, <2>8 DEF Derivings
<1>5. AskedTypes'
    <2>1. prompt' \in [op : Ops, intent : Intents] /\ locking' \in {"no", "seal", "flush"}
        BY DEF SessionInv, AskedTypes, Quiet, Ops, Intents
    <2>2. locked' = FALSE
        BY DEF MoveTo, Drops
    <2>3. locking' # "no" => \A d \in deriving' : d.gen = gen' => ~d.locked
        <3> SUFFICES ASSUME locking' # "no", NEW d \in deriving', d.gen = gen' PROVE ~d.locked
            OBVIOUS
        <3>1. d \in deriving => d.gen <= gen
            BY DEF SessionInv, Derivings
        <3>2. d = [gen |-> gen + 2, locked |-> l, intent |-> i]
            BY <1>1, <3>1 DEF MoveTo, OpenAt
        <3> QED
            BY <3>2
    <2> QED
        BY <2>1, <2>2, <2>3 DEF AskedTypes
<1> QED
    BY <1>2, <1>3, <1>4, <1>5

\* A room that is left leaves no key behind.
LEMMA LeavingKeeps ==
    ASSUME SessionInv, LeaveRoom, UNCHANGED <<clipTail, sideTail, loose, applying, sent, count>>,
           proof' \in 0..MaxGen,
           decrypting' \subseteq decrypting,
           disk' \in {disk, None}, gate' \in {gate, "no"}
    PROVE  /\ PlaceTypes' /\ Derivings' /\ Counts' /\ Alone' /\ Chains' /\ Slot' /\ SentBefore'
           /\ key' = None /\ locked' = FALSE /\ \A d \in deriving' : d.gen # gen'
<1>1. gen \in Nat /\ gen + 1 \in 1..MaxGen /\ gen' = gen + 1 /\ gen' > gen
    BY BoundsAreNat DEF SessionInv, PlaceTypes, LeaveRoom
<1>2. Counts' /\ Alone' /\ Chains' /\ Slot' /\ SentBefore'
    BY <1>1, NewGen DEF LeaveRoom, Drops
<1>3. PlaceTypes'
    <2>1. /\ key' = None /\ locked' = FALSE /\ verified' = FALSE /\ room' = None /\ conn' = "closed"
          /\ intent' = intent /\ target' = None
        BY DEF LeaveRoom, Drops
    <2>2. gen' \in 0..MaxGen /\ intent' \in Intents /\ 0 \in 0..MaxGen
        BY <1>1, <2>1, BoundsAreNat DEF SessionInv, PlaceTypes
    <2>3. disk' \in 0..MaxGen
        BY <2>2 DEF SessionInv, PlaceTypes, None
    <2>4. gate' \in Intents \cup {"no"}
        BY DEF SessionInv, PlaceTypes
    <2> QED
        BY <2>1, <2>2, <2>3, <2>4 DEF PlaceTypes, None
<1>4. deriving' = deriving /\ key' = None /\ locked' = FALSE
    BY DEF LeaveRoom, Drops
<1>5. \A d \in deriving : d.gen <= gen' /\ d.gen # gen'
    BY <1>1 DEF SessionInv, Derivings
<1>6. Derivings'
    BY <1>4, <1>5 DEF SessionInv, Derivings
<1> QED
    BY <1>2, <1>3, <1>4, <1>5, <1>6
\* What keeps the effects unseen keeps what was seen.
LEMMA SeenKeeps == ASSUME SessionInv, UNCHANGED <<shares, seen, count>> PROVE Seen'
<1> QED
    BY DEF SessionInv, Seen, seen

\* Opening another session, and leaving one.
LEMMA MovesKeep == ASSUME SessionInv, Moves PROVE SessionInv'
<1>1. CASE Rotate \/ Rejoin \/ Unlock
    <2>1. PICK i \in Intents : MoveTo(FALSE, i)
        BY <1>1 DEF Rotate, Rejoin, Unlock, Intents
    <2>2. prompt' = Quiet /\ UNCHANGED <<locking, shares, clipTail, sideTail, loose, decrypting, applying, seen, count>>
        BY <1>1 DEF Rotate, Rejoin, Unlock, asked, busy
    <2>3. UNCHANGED <<proof, sent>>
        BY <2>2 DEF seen
    <2>4. ~Outside'
        BY <2>2 DEF Outside, Quiet
    <2>5. PlaceTypes' /\ Derivings' /\ AskedTypes' /\ Counts' /\ Alone' /\ Chains' /\ Slot' /\ SentBefore'
        BY <2>1, <2>2, <2>3, <2>4, MoveKeeps
    <2> QED
        BY <2>2, <2>5, SeenKeeps DEF SessionInv
<1>2. CASE LockMoves
    <2>1. /\ MoveTo(TRUE, "create") /\ locking = "flush" /\ locking' = "no" /\ prompt' = prompt
          /\ UNCHANGED <<shares, clipTail, sideTail, loose, decrypting, applying, seen, count>>
        BY <1>2 DEF LockMoves, busy
    <2>2. UNCHANGED <<proof, sent>>
        BY <2>1 DEF seen
    <2>3. ~Outside'
        BY <2>1 DEF SessionInv, AskedTypes, Outside
    <2>4. PlaceTypes' /\ Derivings' /\ AskedTypes' /\ Counts' /\ Alone' /\ Chains' /\ Slot' /\ SentBefore'
        BY <2>1, <2>2, <2>3, MoveKeeps DEF Intents
    <2> QED
        BY <2>1, <2>4, SeenKeeps DEF SessionInv
<1>3. CASE Collide /\ ~locked
    <2>1. /\ MoveTo(FALSE, "create") /\ UNCHANGED <<prompt, locking>> /\ conn = "open"
          /\ UNCHANGED <<shares, clipTail, sideTail, loose, decrypting, applying, seen, count>>
        BY <1>3 DEF Collide, busy
    <2>2. UNCHANGED <<proof, sent>>
        BY <2>1 DEF seen
    <2>3. ~Outside'
        BY <2>1 DEF SessionInv, AskedTypes, PlaceTypes, Outside
    <2>4. PlaceTypes' /\ Derivings' /\ AskedTypes' /\ Counts' /\ Alone' /\ Chains' /\ Slot' /\ SentBefore'
        BY <2>1, <2>2, <2>3, MoveKeeps DEF Intents
    <2> QED
        BY <2>1, <2>4, SeenKeeps DEF SessionInv
<1>4. CASE Collide /\ locked
    <2>1. /\ LeaveRoom /\ gate' = gate /\ disk' = disk /\ prompt' = [op |-> "collision", intent |-> "create"]
          /\ intent = "create" /\ locking' = locking
          /\ UNCHANGED <<shares, clipTail, sideTail, loose, decrypting, applying, seen, count>>
        BY <1>4 DEF Collide, busy, Shows
    <2>2. UNCHANGED <<proof, sent>> /\ proof \in 0..MaxGen
        BY <2>1 DEF seen, SessionInv, Seen
    <2>3. locking = "no"
        BY <1>4, <2>1 DEF SessionInv, AskedTypes
    <2>4. /\ PlaceTypes' /\ Derivings' /\ Counts' /\ Alone' /\ Chains' /\ Slot' /\ SentBefore'
          /\ key' = None /\ locked' = FALSE /\ \A d \in deriving' : d.gen # gen'
        BY <2>1, <2>2, LeavingKeeps
    <2>5. prompt' \in [op : Ops, intent : Intents]
        BY <2>1 DEF Ops, Intents
    <2>6. AskedTypes'
        BY <2>1, <2>3, <2>4, <2>5 DEF AskedTypes
    <2> QED
        BY <2>1, <2>4, <2>6, SeenKeeps DEF SessionInv
<1>5. CASE Leave
    <2>1. /\ LeaveRoom /\ gate' = "no" /\ disk' = None /\ prompt' = Quiet /\ locking' = locking
          /\ UNCHANGED <<shares, clipTail, sideTail, loose, decrypting, applying, seen, count>>
        BY <1>5 DEF Leave, EndSession, busy, asked
    <2>2. UNCHANGED <<proof, sent>> /\ proof \in 0..MaxGen
        BY <2>1 DEF seen, SessionInv, Seen
    <2>3. /\ PlaceTypes' /\ Derivings' /\ Counts' /\ Alone' /\ Chains' /\ Slot' /\ SentBefore'
          /\ key' = None /\ locked' = FALSE /\ \A d \in deriving' : d.gen # gen'
        BY <2>1, <2>2, LeavingKeeps
    <2>4. prompt' \in [op : Ops, intent : Intents] /\ ~Outside' /\ locking' \in {"no", "seal", "flush"}
        BY <2>1 DEF Ops, Intents, Quiet, Outside, SessionInv, AskedTypes
    <2>5. AskedTypes'
        BY <2>3, <2>4 DEF AskedTypes
    <2> QED
        BY <2>1, <2>3, <2>5, SeenKeeps DEF SessionInv
<1> QED
    BY <1>1, <1>2, <1>3, <1>4, <1>5 DEF Moves

\* A prompt that comes, goes or is replaced by none beside a session.
LEMMA PromptKeeps ==
    ASSUME SessionInv, prompt' \in [op : Ops, intent : Intents], ~Outside',
           UNCHANGED <<gen, deriving, key, locked, verified, room, conn, intent, disk, target>>,
           gate' \in Intents \cup {"no"}, UNCHANGED <<locking, shares, pipes, seen, count>>
    PROVE  SessionInv'
<1>1. PlaceTypes' /\ Derivings' /\ Seen'
    BY DEF SessionInv, PlaceTypes, Derivings, Seen, seen
<1>2. AskedTypes'
    BY DEF SessionInv, AskedTypes
<1>3. Counts' /\ Alone' /\ Chains' /\ Slot' /\ SentBefore'
    BY DEF SessionInv, Counts, Alone, Rightful, Chains, Chain, ChainOf, Slot, SentBefore, pipes, seen
<1> QED
    BY <1>1, <1>2, <1>3 DEF SessionInv

\* Asking, answering and locking.
LEMMA PromptsKeep == ASSUME SessionInv, Prompts PROVE SessionInv'
<1>1. CASE Ask
    <2>1. /\ prompt' \in [op : Ops, intent : Intents] /\ ~Outside'
        <3>1. gate \in Intents \cup {"no"}
            BY DEF SessionInv, PlaceTypes
        <3>2. PICK op \in {"rejoin", "rotate", "repin", "lock", "retry"}, i \in Intents :
                  prompt' = [op |-> op, intent |-> i]
            BY <1>1, <3>1 DEF Ask, Shows, Intents
        <3> QED
            BY <3>2 DEF Ops, Outside
    <2>2. UNCHANGED <<gen, deriving, key, locked, verified, room, conn, intent, disk, target, gate>>
        BY <1>1 DEF Ask, place
    <2>3. UNCHANGED <<locking, shares, pipes, seen, count>> /\ gate' \in Intents \cup {"no"}
        BY <1>1, <2>2 DEF Ask, SessionInv, PlaceTypes
    <2> QED
        BY <2>1, <2>2, <2>3, PromptKeeps
<1>2. CASE Cancel
    <2>1. prompt' = Quiet /\ prompt' \in [op : Ops, intent : Intents] /\ ~Outside'
        BY <1>2 DEF Cancel, Quiet, Ops, Intents, Outside
    <2>2. gate' \in Intents \cup {"no"}
        <3>1. prompt.intent \in Intents /\ gate \in Intents \cup {"no"}
            BY DEF SessionInv, AskedTypes, PlaceTypes
        <3> QED
            BY <1>2, <3>1 DEF Cancel, Parked
    <2> QED
        BY <1>2, <2>1, <2>2, PromptKeeps DEF Cancel
<1>3. CASE Answer
    <2>1. /\ MoveTo(TRUE, prompt.intent) /\ locking = "no" /\ locking' = "no" /\ prompt' = Quiet
          /\ UNCHANGED <<shares, clipTail, sideTail, loose, decrypting, applying, seen, count>>
        BY <1>3 DEF Answer, busy
    <2>2. UNCHANGED <<proof, sent>> /\ ~Outside' /\ prompt.intent \in Intents
        BY <2>1 DEF seen, Outside, Quiet, SessionInv, AskedTypes
    <2>3. PlaceTypes' /\ Derivings' /\ AskedTypes' /\ Counts' /\ Alone' /\ Chains' /\ Slot' /\ SentBefore'
        BY <2>1, <2>2, MoveKeeps
    <2> QED
        BY <2>1, <2>3, SeenKeeps DEF SessionInv
<1>4. CASE AnswerOutside
    <2>1. PICK l \in BOOLEAN, i \in Intents : OpenAt(gen + 1, l, i)
        BY <1>4 DEF AnswerOutside, Intents, SessionInv, AskedTypes
    <2>2. /\ gen < MaxGen /\ locking = "no" /\ Outside /\ prompt' = Quiet
          /\ UNCHANGED <<key, locked, verified, room, conn, intent, locking, shares, pipes, seen, count>>
        BY <1>4 DEF AnswerOutside, Outside
    <2>3. /\ key = None /\ gen \in Nat /\ gen + 1 \in 1..MaxGen /\ gen' = gen + 1 /\ gen' > gen
        BY <2>1, <2>2, BoundsAreNat DEF SessionInv, AskedTypes, PlaceTypes, OpenAt
    <2>4. /\ UNCHANGED <<clipTail, sideTail, applying, sent, proof, count>> /\ queued' = queued
          /\ loose' = loose /\ decrypting' = decrypting
        BY <2>2 DEF pipes, seen
    <2>5. Counts' /\ Alone' /\ Chains' /\ Slot' /\ SentBefore'
        BY <2>3, <2>4, NewGen
    <2>6. PlaceTypes'
        <3>1. key' = None /\ gen' \in 0..MaxGen /\ target' \in 0..MaxGen /\ disk' \in 0..MaxGen /\ gate' = "no"
            BY <2>1, <2>2, <2>3 DEF OpenAt
        <3>2. UNCHANGED <<key, locked, verified, room, conn, intent>>
            BY <2>2
        <3> QED
            BY <2>3, <3>1, <3>2 DEF SessionInv, PlaceTypes
    <2>7. Derivings'
        <3>1. deriving' = deriving \cup {[gen |-> gen', locked |-> l, intent |-> i]} /\ key' = None /\ disk' = gen'
            BY <2>1, <2>2, <2>3 DEF OpenAt
        <3>2. [gen |-> gen', locked |-> l, intent |-> i] \in [gen : 1..MaxGen, locked : BOOLEAN, intent : Intents]
            BY <2>3
        <3>3. \A d \in deriving : d.gen < gen' /\ d \in [gen : 1..MaxGen, locked : BOOLEAN, intent : Intents]
            BY <2>3 DEF SessionInv, Derivings
        <3>4. \A d, e \in deriving : d.gen = e.gen => d = e
            BY DEF SessionInv, Derivings
        <3>5. \A d \in deriving' : d \in deriving \/ d = [gen |-> gen', locked |-> l, intent |-> i]
            BY <3>1
        <3>6. \A d \in deriving' : d.gen <= gen' /\ (d.gen = gen' => d = [gen |-> gen', locked |-> l, intent |-> i])
            BY <2>3, <3>3, <3>5
        <3>7. \A d, e \in deriving' : d.gen = e.gen => d = e
            BY <2>3, <3>3, <3>4, <3>5, <3>6
        <3>8. deriving' \subseteq [gen : 1..MaxGen, locked : BOOLEAN, intent : Intents]
            BY <3>2, <3>3, <3>5
        <3> QED
            BY <3>1, <3>6, <3>7, <3>8 DEF Derivings
    <2>8. AskedTypes'
        BY <2>2 DEF AskedTypes, Quiet, Ops, Intents, Outside
    <2> QED
        BY <2>2, <2>5, <2>6, <2>7, <2>8, SeenKeeps DEF SessionInv
<1>5. ASSUME NEW others \in BOOLEAN, Lock(others), others, MaySayGoodbye PROVE SessionInv'
    <2>1. /\ locking = "no" /\ prompt' = Quiet /\ locking' = "seal" /\ intent = "join" /\ key # None
          /\ loose' = loose \cup {[kind |-> "evict", gen |-> gen, key |-> key]}
          /\ UNCHANGED <<place, queued>> /\ UNCHANGED <<shares, clipTail, sideTail, decrypting, applying, seen, count>>
        BY <1>5 DEF Lock, MaySayGoodbye
    <2>2. UNCHANGED <<gen, deriving, key, locked, verified, room, conn, intent, disk, gate, target, proof, sent>>
        BY <2>1 DEF place, seen
    <2>3. PlaceTypes' /\ Derivings'
        BY <2>2 DEF SessionInv, PlaceTypes, Derivings
    <2>4. \A d \in deriving : d.gen # gen
        BY <2>1 DEF SessionInv, Derivings
    <2>5. AskedTypes'
        BY <2>1, <2>2, <2>4 DEF AskedTypes, Quiet, Ops, Intents, Outside
    <2>6. Counts' /\ Chains' /\ Slot' /\ SentBefore'
        BY <2>1, <2>2 DEF SessionInv, Counts, Chains, Chain, ChainOf, Slot, SentBefore
    <2>7. Alone'
        <3>1. key = gen /\ gen \in Nat /\ gen # None
            BY <2>1 DEF SessionInv, PlaceTypes
        <3> DEFINE job == [kind |-> "evict", gen |-> gen, key |-> key]
        <3>2. job \in [kind : {"stream", "verify", "evict"}, gen : Nat, key : Nat] /\ Rightful(job)
            BY <3>1 DEF Rightful
        <3> HIDE DEF job
        <3>3. loose' = loose \cup {job}
            BY <2>1 DEF job
        <3>4. \A j \in loose' \cup decrypting' : Rightful(j)
            BY <2>1, <3>2, <3>3 DEF SessionInv, Alone
        <3> QED
            BY <2>1, <2>2, <3>2, <3>3, <3>4 DEF SessionInv, Alone, Rightful
    <2> QED
        BY <2>1, <2>3, <2>5, <2>6, <2>7, SeenKeeps DEF SessionInv
<1>6. ASSUME NEW others \in BOOLEAN, Lock(others), ~(others /\ MaySayGoodbye) PROVE SessionInv'
    <2>1. /\ MoveTo(TRUE, "create") /\ locking = "no" /\ locking' = "no" /\ prompt' = Quiet /\ loose' = loose
          /\ UNCHANGED <<shares, clipTail, sideTail, decrypting, applying, seen, count>>
        BY <1>6 DEF Lock
    <2>2. UNCHANGED <<proof, sent>> /\ ~Outside' /\ decrypting' = decrypting
        BY <2>1 DEF seen, Outside, Quiet
    <2>3. PlaceTypes' /\ Derivings' /\ AskedTypes' /\ Counts' /\ Alone' /\ Chains' /\ Slot' /\ SentBefore'
        BY <2>1, <2>2, MoveKeeps DEF Intents
    <2> QED
        BY <2>1, <2>3, SeenKeeps DEF SessionInv
<1> QED
    BY <1>1, <1>2, <1>3, <1>4, <1>5, <1>6 DEF Prompts
-----------------------------------------------------------------------------
(* Sending *)

\* A chain whose first job takes the key of its session.
LEMMA StartKeeps ==
    ASSUME NEW tail, Waiting(tail), key \in Nat, gen \in Nat,
           tail # <<>> => key = gen /\ tail[1].gen = gen
    PROVE  /\ Chain(Starts(tail)) /\ DOMAIN Starts(tail) = DOMAIN tail
           /\ \A i \in DOMAIN tail : Starts(tail)[i].n = tail[i].n
<1>1. CASE tail = <<>>
    <2>1. Starts(tail) = <<>> /\ <<>> \in Seq(Jobs) /\ DOMAIN <<>> = {}
        BY <1>1, EmptySeq DEF Starts
    <2> QED
        BY <1>1, <2>1 DEF Chain, ChainOf
<1>2. CASE tail # <<>>
    <2>1. tail \in Seq(Jobs) /\ Len(tail) \in Nat /\ Len(tail) # 0 /\ DOMAIN tail = 1..Len(tail)
        BY <1>2, EmptySeq, LenProperties DEF Waiting
    <2>2. /\ Tail(tail) \in Seq(Jobs) /\ Len(Tail(tail)) = Len(tail) - 1 /\ Head(tail) = tail[1]
          /\ \A i \in 1..Len(Tail(tail)) : Tail(tail)[i] = tail[i + 1]
        BY <1>2, <2>1, HeadTailProperties
    <2>3. 1 \in DOMAIN tail /\ tail[1] \in Jobs
        BY <2>1, LenProperties
    <2> DEFINE first == [Head(tail) EXCEPT !.key = key]
    <2>4. first \in Jobs /\ first.key = gen /\ first.gen = gen /\ first.gen = tail[1].gen /\ first.n = tail[1].n
        BY <1>2, <2>2, <2>3 DEF Jobs
    <2>5. Starts(tail) = <<first>> \o Tail(tail)
        BY <1>2 DEF Starts
    <2> HIDE DEF first
    <2>6. <<first>> \in Seq(Jobs) /\ Len(<<first>>) = 1 /\ <<first>>[1] = first
        BY <2>4
    <2> DEFINE s == <<first>> \o Tail(tail)
    <2>7. /\ s \in Seq(Jobs) /\ Len(s) = Len(<<first>>) + Len(Tail(tail))
          /\ \A i \in 1..(Len(<<first>>) + Len(Tail(tail))) :
                s[i] = IF i <= Len(<<first>>) THEN <<first>>[i] ELSE Tail(tail)[i - Len(<<first>>)]
        BY <2>2, <2>6, ConcatProperties
    <2> HIDE DEF s
    <2>8. Len(s) = Len(tail) /\ DOMAIN s = 1..Len(tail)
        BY <2>1, <2>2, <2>6, <2>7, LenProperties
    <2>9. s[1] = first
        BY <2>1, <2>2, <2>6, <2>7, <2>8
    <2>10. \A i \in DOMAIN tail : i # 1 => s[i] = tail[i]
        <3> SUFFICES ASSUME NEW i \in DOMAIN tail, i # 1 PROVE s[i] = tail[i]
            OBVIOUS
        <3>1. i \in 1..Len(tail) /\ i - 1 \in 1..(Len(tail) - 1) /\ ~(i <= 1) /\ i - 1 + 1 = i
            BY <2>1
        <3>2. s[i] = Tail(tail)[i - 1]
            BY <2>1, <2>2, <2>6, <2>7, <3>1
        <3> QED
            BY <2>2, <3>1, <3>2
    <2>11. \A i \in DOMAIN tail : s[i].gen = tail[i].gen /\ s[i].n = tail[i].n
        BY <2>4, <2>9, <2>10
    <2>12. \A i \in DOMAIN tail : s[i].key = (IF i = 1 THEN s[i].gen ELSE None)
        BY <2>4, <2>9, <2>10 DEF Waiting
    <2>13. DOMAIN s = DOMAIN tail
        BY <2>1, <2>8
    <2>14. Chain(s)
        BY <2>7, <2>11, <2>12, <2>13 DEF Waiting, Chain, ChainOf
    <2> QED
        BY <2>5, <2>11, <2>13, <2>14 DEF s
<1> QED
    BY <1>1, <1>2

\* And one that a job of this session joins.
LEMMA JoinKeeps ==
    ASSUME NEW tail, Chain(tail), key = gen, gen \in Nat, gen # None, NEW n \in Nat,
           \A i \in DOMAIN tail : tail[i].n < n, NEW m \in Nat, n <= m, count.made <= m, count.made \in Nat
    PROVE  /\ ChainOf(Joins(tail, Job(n)), gen, key, m)
           /\ \A i \in DOMAIN Joins(tail, Job(n)) :
                 \/ Joins(tail, Job(n))[i].n = n
                 \/ i \in DOMAIN tail /\ Joins(tail, Job(n))[i].n = tail[i].n
<1>1. tail \in Seq(Jobs) /\ Len(tail) \in Nat /\ DOMAIN tail = 1..Len(tail) /\ Job(n) \in Jobs
    BY LenProperties DEF Chain, ChainOf, Job, Jobs, None
<1>2. \A i \in DOMAIN tail : tail[i] \in Jobs /\ tail[i].n \in Nat /\ tail[i].gen \in Nat
    <2>1. \A i \in 1..Len(tail) : tail[i] \in Jobs
        BY <1>1, ElementOfSeq
    <2> QED
        BY <1>1, <2>1 DEF Jobs
<1>3. CASE tail = <<>>
    <2> DEFINE first == [n |-> n, gen |-> gen, key |-> key]
    <2>1. Joins(tail, Job(n)) = <<first>>
        <3>1. Starts(<<Job(n)>>) = <<[Head(<<Job(n)>>) EXCEPT !.key = key]>> \o Tail(<<Job(n)>>)
            BY DEF Starts
        <3>2. Head(<<Job(n)>>) = Job(n) /\ Tail(<<Job(n)>>) = <<>>
            OBVIOUS
        <3>3. [Job(n) EXCEPT !.key = key] = first
            BY DEF Job
        <3>4. <<first>> \o <<>> = <<first>>
            OBVIOUS
        <3> QED
            BY <1>3, <3>1, <3>2, <3>3, <3>4 DEF Joins
    <2>2. first \in Jobs /\ first.key = gen /\ first.gen = gen /\ first.n = n
        BY DEF Jobs
    <2> HIDE DEF first
    <2>3. <<first>> \in Seq(Jobs) /\ DOMAIN <<first>> = {1} /\ <<first>>[1] = first
        BY <2>2
    <2>4. ChainOf(<<first>>, gen, key, m)
        BY <2>2, <2>3 DEF ChainOf
    <2> QED
        BY <2>1, <2>2, <2>3, <2>4
<1>4. CASE tail # <<>>
    <2> DEFINE s == Append(tail, Job(n))
    <2>1. /\ s \in Seq(Jobs) /\ Len(s) = Len(tail) + 1
          /\ \A i \in 1..Len(tail) : s[i] = tail[i]
          /\ s[Len(tail) + 1] = Job(n)
        BY <1>1, AppendProperties
    <2>2. Joins(tail, Job(n)) = s
        BY <1>4 DEF Joins
    <2> HIDE DEF s
    <2>3. DOMAIN s = 1..(Len(tail) + 1) /\ Len(tail) # 0
        BY <1>1, <1>4, <2>1, LenProperties, EmptySeq
    <2>4. \A i \in DOMAIN s : (i \in DOMAIN tail /\ s[i] = tail[i]) \/ (i = Len(tail) + 1 /\ s[i] = Job(n))
        BY <1>1, <2>1, <2>3
    <2>5. Job(n).n = n /\ Job(n).gen = gen /\ Job(n).key = None /\ Len(tail) + 1 # 1
        BY <1>1, <2>3 DEF Job
    <2>6. \A i \in DOMAIN s : /\ s[i].gen # None /\ s[i].gen <= gen /\ (s[i].gen = gen => key = gen)
                              /\ s[i].n <= m /\ s[i].key = (IF i = 1 THEN s[i].gen ELSE None)
        <3> SUFFICES ASSUME NEW i \in DOMAIN s
                     PROVE  /\ s[i].gen # None /\ s[i].gen <= gen /\ (s[i].gen = gen => key = gen)
                            /\ s[i].n <= m /\ s[i].key = (IF i = 1 THEN s[i].gen ELSE None)
            OBVIOUS
        <3>1. CASE i \in DOMAIN tail /\ s[i] = tail[i]
            BY <1>2, <3>1 DEF Chain, ChainOf
        <3>2. CASE i = Len(tail) + 1 /\ s[i] = Job(n)
            BY <2>5, <3>2
        <3> QED
            BY <2>4, <3>1, <3>2
    <2>7. \A i, j \in DOMAIN s : i < j => s[i].gen <= s[j].gen /\ s[i].n < s[j].n
        <3> SUFFICES ASSUME NEW i \in DOMAIN s, NEW j \in DOMAIN s, i < j
                     PROVE  s[i].gen <= s[j].gen /\ s[i].n < s[j].n
            OBVIOUS
        <3>1. i \in DOMAIN tail /\ s[i] = tail[i]
            BY <1>1, <2>3, <2>4
        <3>2. CASE j \in DOMAIN tail /\ s[j] = tail[j]
            BY <3>1, <3>2 DEF Chain, ChainOf
        <3>3. CASE j = Len(tail) + 1 /\ s[j] = Job(n)
            BY <2>5, <3>1, <3>3 DEF Chain, ChainOf
        <3> QED
            BY <2>4, <3>2, <3>3
    <2>8. ChainOf(s, gen, key, m)
        BY <2>1, <2>6, <2>7 DEF ChainOf
    <2> QED
        BY <2>2, <2>4, <2>5, <2>8
<1> QED
    BY <1>3, <1>4

\* What goes on the wire was written and sealed here, and is shared.
LEMMA PutsRight ==
    ASSUME SessionInv, NEW job, NEW kind \in {"clip", "side", "loose"}, job.key = job.gen, job.gen # None,
           job.gen = gen => key = gen, MaySend(job), Puts(job, kind)
    PROVE  /\ wire' = wire
           /\ \/ sent' = sent
              \/ kind # "loose" /\ conn = "open" /\ sent' = [sent EXCEPT ![kind] = job.n]
<1>1. CASE conn = "open"
    <2>1. job.gen = gen /\ job.key = gen /\ room = gen /\ shares = TRUE
        BY DEF MaySend, SessionInv, PlaceTypes, Seen
    <2>2. ({job.gen, job.key} = {room}) = TRUE
        BY <2>1
    <2>3. wire' = [home |-> TRUE, shared |-> TRUE]
        BY <1>1, <2>1, <2>2 DEF Puts
    <2> QED
        BY <1>1, <2>3 DEF Puts, SessionInv, Seen
<1>2. CASE conn # "open"
    BY <1>2 DEF Puts
<1> QED
    BY <1>1, <1>2

\* A device that stays where it is.
LEMMA PlaceKeeps ==
    ASSUME SessionInv, UNCHANGED <<place, asked, proof>> PROVE PlaceTypes' /\ Derivings' /\ AskedTypes'
<1>1. UNCHANGED <<gen, deriving, key, locked, verified, room, conn, intent, disk, gate, target, prompt, locking, proof>>
    BY DEF place, asked
<1>2. PlaceTypes'
    BY <1>1 DEF SessionInv, PlaceTypes
<1>3. Derivings'
    BY <1>1 DEF SessionInv, Derivings
<1>4. AskedTypes'
    BY <1>1 DEF SessionInv, AskedTypes, Outside
<1> QED
    BY <1>2, <1>3, <1>4

\* What is counted.
LEMMA SpendKeeps ==
    ASSUME SessionInv, NEW what \in {"made", "heard", "drops", "flips", "seq"}, Spend(what)
    PROVE  /\ Counts' /\ count.made \in Nat /\ count.made + 1 \in Nat /\ count.made <= count'.made
           /\ what = "made" => count'.made = count.made + 1
           /\ what # "seq" => count'.seq = count.seq
           /\ what = "seq" => count'.seq = count.seq + 1
           /\ count.seq \in Nat
<1>1. count \in [{"made", "heard", "drops", "flips", "seq"} -> Nat]
    BY DEF SessionInv, Counts
<1>2. count' = [count EXCEPT ![what] = count[what] + 1] /\ count[what] \in Nat
    <2>1. count[what] \in Nat
        BY <1>1
    <2>2. count' = [count EXCEPT ![what] = count[what] + 1]
        BY DEF Spend
    <2> QED
        BY <2>1, <2>2
<1>3. count' \in [{"made", "heard", "drops", "flips", "seq"} -> Nat]
    BY <1>1, <1>2
<1>4. /\ count.made \in Nat /\ count.seq \in Nat
      /\ count'["made"] = IF what = "made" THEN count.made + 1 ELSE count.made
      /\ count'["seq"] = IF what = "seq" THEN count.seq + 1 ELSE count.seq
    BY <1>1, <1>2
<1> QED
    BY <1>3, <1>4 DEF Counts

\* A frame that seals itself is of the session that seals it.
LEMMA SealKeeps ==
    ASSUME SessionInv, key # None, NEW kind \in {"stream", "verify", "evict"}, Seals(kind),
           UNCHANGED <<gen, key>>, decrypting' \subseteq decrypting, applying' \subseteq [n : Nat, gen : Nat, seq : Nat]
    PROVE  Alone'
<1>1. key = gen /\ gen \in Nat /\ gen # None
    BY DEF SessionInv, PlaceTypes
<1> DEFINE job == [kind |-> kind, gen |-> gen, key |-> key]
<1>2. job \in [kind : {"stream", "verify", "evict"}, gen : Nat, key : Nat] /\ Rightful(job)
    BY <1>1 DEF Rightful
<1>3. loose' = loose \cup {job}
    BY DEF Seals
<1> HIDE DEF job
<1>4. \A j \in loose' \cup decrypting' : Rightful(j)
    BY <1>2, <1>3 DEF SessionInv, Alone
<1>5. \A j \in loose' \cup decrypting' : Rightful(j)'
    BY <1>4 DEF Rightful
<1>6. loose' \subseteq [kind : {"stream", "verify", "evict"}, gen : Nat, key : Nat]
    BY <1>2, <1>3 DEF SessionInv, Alone
<1> QED
    BY <1>5, <1>6 DEF SessionInv, Alone

\* What is left of what waits alone.
LEMMA AloneKeeps ==
    ASSUME SessionInv, loose' \subseteq loose, UNCHANGED <<gen, key>>, decrypting' \subseteq decrypting,
           applying' \subseteq [n : Nat, gen : Nat, seq : Nat]
    PROVE  Alone'
<1>1. \A j \in loose' \cup decrypting' : Rightful(j)
    BY DEF SessionInv, Alone
<1>2. \A j \in loose' \cup decrypting' : Rightful(j)'
    BY <1>1 DEF Rightful
<1> QED
    BY <1>2 DEF SessionInv, Alone

\* Chains that stand while more is counted.
LEMMA ChainKeeps ==
    ASSUME NEW tail, Chain(tail), NEW m \in Nat, count.made \in Nat, count.made <= m
    PROVE  ChainOf(tail, gen, key, m) /\ \A i \in DOMAIN tail : tail[i] \in Jobs /\ tail[i].n \in Nat /\ tail[i].gen \in Nat
<1>1. tail \in Seq(Jobs) /\ DOMAIN tail = 1..Len(tail)
    BY LenProperties DEF Chain, ChainOf
<1>2. \A i \in DOMAIN tail : tail[i] \in Jobs
    BY <1>1, ElementOfSeq
<1>3. \A i \in DOMAIN tail : tail[i] \in Jobs /\ tail[i].n \in Nat /\ tail[i].gen \in Nat
    BY <1>2 DEF Jobs
<1>4. \A i \in DOMAIN tail : tail[i].n <= m
    BY <1>3 DEF Chain, ChainOf
<1> QED
    BY <1>3, <1>4 DEF Chain, ChainOf

\* Nothing is sent.
LEMMA UnsentKeeps ==
    ASSUME SessionInv, UNCHANGED <<clipTail, sideTail, queued, sent, gen, key, conn>>,
           Counts', count.made <= count'.made
    PROVE  Chains' /\ Slot' /\ SentBefore'
<1>1. count.made \in Nat /\ count'.made \in Nat
    BY DEF SessionInv, Counts
<1>2. ChainOf(clipTail, gen, key, count'.made) /\ ChainOf(sideTail, gen, key, count'.made)
    BY <1>1, ChainKeeps DEF SessionInv, Chains
<1>3. Chains'
    BY <1>2 DEF Chains, Chain
<1>4. queued \in [n : Nat, gen : Nat] /\ queued.n <= count'.made
    BY <1>1 DEF SessionInv, Slot
<1>5. Slot'
    BY <1>4 DEF SessionInv, Slot
<1>6. sent \in [{"clip", "side"} -> Nat] /\ \A what \in {"clip", "side"} : sent[what] <= count'.made
    BY <1>1 DEF SessionInv, SentBefore
<1>7. SentBefore'
    BY <1>6 DEF SessionInv, SentBefore
<1> QED
    BY <1>3, <1>5, <1>7

\* What the user makes and what goes out by itself.
LEMMA SendsKeep == ASSUME SessionInv, Sends PROVE SessionInv'
<1>0. /\ gen \in Nat /\ (key # None => key = gen /\ gen # None) /\ shares \in BOOLEAN
      /\ applying \subseteq [n : Nat, gen : Nat, seq : Nat]
    BY BoundsAreNat DEF SessionInv, PlaceTypes, None, Seen, Alone
<1>1. ASSUME UNCHANGED <<seen, count>> \/ (UNCHANGED seen /\ count'.seq = count.seq), shares' \in BOOLEAN PROVE Seen'
    BY <1>1 DEF SessionInv, Seen, seen
<1>2. CASE Commit
    <2> DEFINE n == count.made + 1
    <2>1. /\ Spend("made") /\ UNCHANGED <<place, asked, shares, sideTail, loose, decrypting, applying, seen>>
          /\ IF Online THEN clipTail' = Joins(clipTail, Job(n)) /\ UNCHANGED queued
                       ELSE queued' = [n |-> n, gen |-> gen] /\ UNCHANGED clipTail
        BY <1>2 DEF Commit
    <2>2. /\ Counts' /\ count.made \in Nat /\ n \in Nat /\ count.made <= count'.made /\ count'.made = n
          /\ count'.seq = count.seq /\ count.made < n
        BY <2>1, SpendKeeps
    <2> HIDE DEF n
    <2>3. UNCHANGED <<gen, key, conn, proof, sent>> /\ UNCHANGED <<place, asked, proof>>
        BY <2>1 DEF place, seen
    <2>4. PlaceTypes' /\ Derivings' /\ AskedTypes'
        BY <2>3, PlaceKeeps
    <2>5. Seen'
        BY <1>0, <1>1, <2>1, <2>2
    <2>6. Alone'
        BY <1>0, <2>1, <2>3, AloneKeeps
    <2>7. /\ ChainOf(clipTail, gen, key, n) /\ ChainOf(sideTail, gen, key, n)
          /\ \A i \in DOMAIN clipTail : clipTail[i].n < n /\ clipTail[i].n \in Nat
          /\ \A i \in DOMAIN sideTail : sideTail[i].n < n
        <3>1. /\ \A i \in DOMAIN clipTail : clipTail[i].n <= count.made /\ clipTail[i].n \in Nat
              /\ \A i \in DOMAIN sideTail : sideTail[i].n <= count.made /\ sideTail[i].n \in Nat
            BY <2>2, ChainKeeps DEF SessionInv, Chains, Chain, ChainOf
        <3> QED
            BY <2>2, <3>1, ChainKeeps DEF SessionInv, Chains
    <2>8. /\ sent \in [{"clip", "side"} -> Nat] /\ \A what \in {"clip", "side"} : sent[what] <= n /\ sent[what] < n
        BY <2>2 DEF SessionInv, SentBefore
    <2>9. CASE Online
        <3>1. clipTail' = Joins(clipTail, Job(n)) /\ queued' = queued /\ conn = "open" /\ key = gen /\ gen # None
            BY <1>0, <2>1, <2>9 DEF Online
        <3>2. /\ ChainOf(clipTail', gen, key, n)
              /\ \A i \in DOMAIN clipTail' : clipTail'[i].n = n \/ (i \in DOMAIN clipTail /\ clipTail'[i].n = clipTail[i].n)
            BY <1>0, <2>2, <2>7, <3>1, JoinKeeps DEF SessionInv, Chains
        <3>3. Chains'
            BY <2>1, <2>2, <2>3, <2>7, <3>2 DEF Chains, Chain
        <3>4. Slot'
            <4>1. queued' \in [n : Nat, gen : Nat] /\ queued'.gen <= gen' /\ queued'.n <= count'.made
                BY <2>2, <2>3, <3>1 DEF SessionInv, Slot
            <4>2. ~(queued'.n # 0 /\ queued'.gen = gen')
                BY <2>3, <3>1 DEF SessionInv, Slot
            <4> QED
                BY <4>1, <4>2 DEF Slot
        <3>5. SentBefore'
            BY <2>1, <2>2, <2>3, <2>8, <3>2 DEF SessionInv, SentBefore
        <3> QED
            BY <2>2, <2>4, <2>5, <2>6, <3>3, <3>4, <3>5 DEF SessionInv
    <2>10. CASE ~Online
        <3>1. /\ queued' = [n |-> n, gen |-> gen] /\ clipTail' = clipTail /\ sideTail' = sideTail
              /\ key # None => conn # "open"
            BY <2>1, <2>10 DEF Online
        <3>2. Chains'
            BY <2>2, <2>3, <2>7, <3>1 DEF Chains, Chain
        <3>3. conn # "open"
            BY <3>1 DEF SessionInv, PlaceTypes
        <3>4. Slot'
            BY <1>0, <2>2, <2>3, <2>7, <2>8, <3>1, <3>3 DEF Slot
        <3>5. SentBefore'
            BY <2>2, <2>3, <2>8, <3>1 DEF SessionInv, SentBefore
        <3> QED
            BY <2>2, <2>4, <2>5, <2>6, <3>2, <3>4, <3>5 DEF SessionInv
    <2> QED
        BY <2>9, <2>10
<1>3. CASE Issue
    <2> DEFINE n == count.made + 1
    <2>1. /\ Spend("made") /\ conn = "open" /\ sideTail' = Joins(sideTail, Job(n))
          /\ UNCHANGED <<place, asked, shares, queued, clipTail, loose, decrypting, applying, seen>>
        BY <1>3 DEF Issue
    <2>2. /\ Counts' /\ count.made \in Nat /\ n \in Nat /\ count.made <= count'.made /\ count'.made = n
          /\ count'.seq = count.seq /\ count.made < n
        BY <2>1, SpendKeeps
    <2> HIDE DEF n
    <2>3. UNCHANGED <<gen, key, conn, proof, sent>> /\ UNCHANGED <<place, asked, proof>>
        BY <2>1 DEF place, seen
    <2>4. PlaceTypes' /\ Derivings' /\ AskedTypes'
        BY <2>3, PlaceKeeps
    <2>5. Seen'
        BY <1>0, <1>1, <2>1, <2>2
    <2>6. Alone'
        BY <1>0, <2>1, <2>3, AloneKeeps
    <2>7. /\ ChainOf(clipTail, gen, key, n)
          /\ \A i \in DOMAIN sideTail : sideTail[i].n < n /\ sideTail[i].n \in Nat
        <3>1. \A i \in DOMAIN sideTail : sideTail[i].n <= count.made /\ sideTail[i].n \in Nat
            BY <2>2, ChainKeeps DEF SessionInv, Chains, Chain, ChainOf
        <3> QED
            BY <2>2, <3>1, ChainKeeps DEF SessionInv, Chains
    <2>8. /\ sent \in [{"clip", "side"} -> Nat] /\ \A what \in {"clip", "side"} : sent[what] <= n /\ sent[what] < n
        BY <2>2 DEF SessionInv, SentBefore
    <2>9. key = gen /\ gen # None
        BY <1>0, <2>1 DEF SessionInv, PlaceTypes
    <2>10. /\ ChainOf(sideTail', gen, key, n)
           /\ \A i \in DOMAIN sideTail' : sideTail'[i].n = n \/ (i \in DOMAIN sideTail /\ sideTail'[i].n = sideTail[i].n)
        BY <1>0, <2>1, <2>2, <2>7, <2>9, JoinKeeps DEF SessionInv, Chains
    <2>11. Chains'
        BY <2>1, <2>2, <2>3, <2>7, <2>10 DEF Chains, Chain
    <2>12. Slot'
        <3>1. queued.n <= count'.made
            BY <2>2 DEF SessionInv, Slot
        <3> QED
            BY <2>1, <2>3, <3>1 DEF SessionInv, Slot
    <2>13. SentBefore'
        BY <2>1, <2>2, <2>3, <2>8, <2>10 DEF SessionInv, SentBefore
    <2> QED
        BY <2>2, <2>4, <2>5, <2>6, <2>11, <2>12, <2>13 DEF SessionInv
<1>4. CASE Type \/ Probe
    <2>1. /\ \E kind \in {"stream", "verify", "evict"} : Seals(kind)
          /\ Spend("made") /\ key # None
          /\ UNCHANGED <<place, asked, shares, queued, clipTail, sideTail, decrypting, applying, seen>>
        BY <1>4 DEF Type, Probe, Online, Eligible
    <2>2. /\ Counts' /\ count.made <= count'.made /\ count'.seq = count.seq
        BY <2>1, SpendKeeps
    <2>3. UNCHANGED <<gen, key, conn, proof, sent>> /\ UNCHANGED <<place, asked, proof>>
        BY <2>1 DEF place, seen
    <2>4. PlaceTypes' /\ Derivings' /\ AskedTypes'
        BY <2>3, PlaceKeeps
    <2>5. Seen'
        BY <1>0, <1>1, <2>1, <2>2
    <2>6. Alone'
        BY <1>0, <2>1, <2>3, SealKeeps
    <2>7. Chains' /\ Slot' /\ SentBefore'
        BY <2>1, <2>2, <2>3, UnsentKeeps
    <2> QED
        BY <2>2, <2>4, <2>5, <2>6, <2>7 DEF SessionInv
<1>5. CASE Flip
    <2>1. /\ shares' = ~shares /\ Spend("flips") /\ (UNCHANGED loose \/ (key # None /\ Seals("verify")))
          /\ UNCHANGED <<place, asked, queued, clipTail, sideTail, decrypting, applying, seen>>
        BY <1>5 DEF Flip
    <2>2. /\ Counts' /\ count.made <= count'.made /\ count'.seq = count.seq
        BY <2>1, SpendKeeps
    <2>3. UNCHANGED <<gen, key, conn, proof, sent>> /\ UNCHANGED <<place, asked, proof>>
        BY <2>1 DEF place, seen
    <2>4. PlaceTypes' /\ Derivings' /\ AskedTypes'
        BY <2>3, PlaceKeeps
    <2>5. Seen'
        <3>1. shares' \in BOOLEAN
            BY <2>1
        <3> QED
            BY <1>1, <2>1, <2>2, <3>1
    <2>6. Alone'
        <3>1. CASE UNCHANGED loose
            BY <1>0, <2>1, <2>3, <3>1, AloneKeeps
        <3>2. CASE key # None /\ Seals("verify")
            BY <1>0, <2>1, <2>3, <3>2, SealKeeps
        <3> QED
            BY <2>1, <3>1, <3>2
    <2>7. Chains' /\ Slot' /\ SentBefore'
        BY <2>1, <2>2, <2>3, UnsentKeeps
    <2> QED
        BY <2>2, <2>4, <2>5, <2>6, <2>7 DEF SessionInv
<1> QED
    BY <1>2, <1>3, <1>4, <1>5 DEF Sends
\* The turn of a chain: the rest of it, from the first job of this session on.
LEMMA TurnKeeps ==
    ASSUME SessionInv, NEW tail, Chain(tail), tail # <<>>
    PROVE  LET rest == Tail(tail) IN
           /\ Chain(Starts(Live(rest)))
           /\ \A i \in DOMAIN Starts(Live(rest)) :
                 \E k \in DOMAIN tail : Starts(Live(rest))[i].n = tail[k].n /\ Head(tail).n < tail[k].n
           /\ Live(rest) # <<>> => /\ key = gen /\ gen # None /\ rest # <<>>
                                   /\ rest[Len(rest)].n \in Nat
                                   /\ Head(tail).n < rest[Len(rest)].n
                                   /\ \E k \in DOMAIN tail : rest[Len(rest)] = tail[k]
<1> DEFINE rest == Tail(tail)
<1>0. key \in Nat /\ gen \in Nat
    BY BoundsAreNat DEF SessionInv, PlaceTypes, None
<1>1. /\ Waiting(rest)
      /\ \A i \in DOMAIN rest : Head(tail).n < rest[i].n /\ \E k \in DOMAIN tail : rest[i] = tail[k]
    BY RestWaits
<1> HIDE DEF rest
<1>2. /\ Waiting(Live(rest))
      /\ \A i \in DOMAIN Live(rest) : \E k \in DOMAIN rest : Live(rest)[i] = rest[k]
      /\ Live(rest) # <<>> => /\ key = gen /\ gen # None /\ Live(rest)[1].gen = gen
                              /\ rest # <<>> /\ Len(rest) \in DOMAIN rest /\ rest[Len(rest)].n \in Nat
    BY <1>0, <1>1, LiveWaits
<1> DEFINE live == Live(rest)
<1> HIDE DEF live
<1>3. /\ Chain(Starts(live)) /\ DOMAIN Starts(live) = DOMAIN live
      /\ \A i \in DOMAIN live : Starts(live)[i].n = live[i].n
    BY <1>0, <1>2, StartKeeps DEF live
<1>4. \A i \in DOMAIN Starts(live) : \E k \in DOMAIN tail : Starts(live)[i].n = tail[k].n /\ Head(tail).n < tail[k].n
    <2> SUFFICES ASSUME NEW i \in DOMAIN Starts(live)
                 PROVE  \E k \in DOMAIN tail : Starts(live)[i].n = tail[k].n /\ Head(tail).n < tail[k].n
        OBVIOUS
    <2>1. i \in DOMAIN live /\ Starts(live)[i].n = live[i].n
        BY <1>3
    <2>2. PICK k \in DOMAIN rest : live[i] = rest[k]
        BY <1>2, <2>1 DEF live
    <2>3. PICK m \in DOMAIN tail : rest[k] = tail[m]
        BY <1>1
    <2> QED
        BY <1>1, <2>1, <2>2, <2>3
<1>5. live # <<>> => /\ key = gen /\ gen # None /\ rest # <<>>
                     /\ rest[Len(rest)].n \in Nat
                     /\ Head(tail).n < rest[Len(rest)].n
                     /\ \E k \in DOMAIN tail : rest[Len(rest)] = tail[k]
    BY <1>1, <1>2 DEF live
<1> QED
    BY <1>3, <1>4, <1>5 DEF rest, live

\* Frames that are sent, or given up, each in its turn.
LEMMA SealedKeep == ASSUME SessionInv, ClipSealed \/ SideSealed PROVE SessionInv'
<1>0. /\ gen \in Nat /\ applying \subseteq [n : Nat, gen : Nat, seq : Nat] /\ count.made \in Nat
      /\ sent \in [{"clip", "side"} -> Nat]
      /\ \A tail : Chain(tail) => \A i \in DOMAIN tail : tail[i].n <= count.made /\ tail[i].n \in Nat
    <2>1. /\ gen \in Nat /\ applying \subseteq [n : Nat, gen : Nat, seq : Nat] /\ count.made \in Nat
          /\ sent \in [{"clip", "side"} -> Nat]
        BY BoundsAreNat DEF SessionInv, PlaceTypes, Alone, Counts, SentBefore
    <2>2. ASSUME NEW tail, Chain(tail) PROVE \A i \in DOMAIN tail : tail[i].n <= count.made /\ tail[i].n \in Nat
        BY <2>1, <2>2, ChainKeeps DEF Chain, ChainOf
    <2> QED
        BY <2>1, <2>2
<1>1. CASE ClipSealed
    <2> DEFINE job == Head(clipTail)
    <2>1. /\ clipTail # <<>>
          /\ IF MaySend(job) THEN Puts(job, "clip") ELSE UNCHANGED <<wire, sent>>
          /\ ClipTurn(Tail(clipTail))
          /\ UNCHANGED <<place, asked, shares, sideTail, loose, decrypting, applying, felt, shown, proof, count>>
        BY <1>1 DEF ClipSealed
    <2>2. UNCHANGED <<gen, key, conn>>
        BY <2>1 DEF place
    <2>3. /\ job.key = job.gen /\ job.gen # None /\ (job.gen = gen => key = gen)
          /\ job.n \in Nat /\ job.n <= count.made /\ sent.clip < job.n
        <3>1. Chain(clipTail) /\ 1 \in DOMAIN clipTail /\ job = clipTail[1]
            <4>1. Chain(clipTail) /\ clipTail \in Seq(Jobs)
                BY DEF SessionInv, Chains, Chain, ChainOf
            <4> QED
                BY <2>1, <4>1, EmptySeq, LenProperties, HeadTailProperties
        <3> QED
            BY <1>0, <2>1, <3>1, RestWaits DEF SessionInv, SentBefore
    <2> HIDE DEF job
    <2>4. /\ wire' = wire
          /\ sent' = sent \/ (conn = "open" /\ sent' = [sent EXCEPT !["clip"] = job.n])
        BY <2>1, <2>3, PutsRight
    <2>5. Seen' /\ Counts'
        BY <2>1, <2>4 DEF SessionInv, Seen, Counts
    <2>6. PlaceTypes' /\ Derivings' /\ AskedTypes'
        BY <2>1, PlaceKeeps
    <2>7. Alone'
        BY <1>0, <2>1, <2>2, AloneKeeps
    <2>8. sent' \in [{"clip", "side"} -> Nat] /\ sent'.side = sent.side /\ sent'.clip \in {sent.clip, job.n}
        BY <1>0, <2>3, <2>4
    <2> DEFINE rest == Tail(clipTail)
    <2>9. /\ Chain(Starts(Live(rest)))
          /\ \A i \in DOMAIN Starts(Live(rest)) :
                \E k \in DOMAIN clipTail : Starts(Live(rest))[i].n = clipTail[k].n /\ job.n < clipTail[k].n
          /\ Live(rest) # <<>> => /\ key = gen /\ gen # None /\ rest # <<>> /\ rest[Len(rest)].n \in Nat
                                  /\ job.n < rest[Len(rest)].n
                                  /\ \E k \in DOMAIN clipTail : rest[Len(rest)] = clipTail[k]
        BY <2>1, TurnKeeps DEF SessionInv, Chains, job
    <2> HIDE DEF rest
    <2>10. CASE Online \/ Live(rest) = <<>>
        <3>1. clipTail' = Starts(Live(rest)) /\ queued' = queued
            BY <2>1, <2>10 DEF ClipTurn, rest
        <3>2. Chain(clipTail)'
            BY <2>1, <2>2, <2>9, <3>1 DEF Chain
        <3>3. \A i \in DOMAIN clipTail' : \E k \in DOMAIN clipTail : clipTail'[i].n = clipTail[k].n /\ job.n < clipTail[k].n
            BY <2>9, <3>1
        <3>4. Chains'
            BY <2>1, <2>2, <3>2 DEF SessionInv, Chains, Chain
        <3>5. SentBefore'
            <4>1. \A i \in DOMAIN clipTail' : sent'.clip < clipTail'[i].n
                BY <2>8, <3>3 DEF SessionInv, SentBefore
            <4>2. \A what \in {"clip", "side"} : sent'[what] <= count'.made
                BY <2>1, <2>3, <2>8 DEF SessionInv, SentBefore
            <4>3. \A i \in DOMAIN sideTail' : sent'.side < sideTail'[i].n
                BY <2>1, <2>8 DEF SessionInv, SentBefore
            <4> QED
                BY <2>8, <4>1, <4>2, <4>3 DEF SentBefore
        <3>6. Slot'
            <4>1. queued' \in [n : Nat, gen : Nat] /\ queued'.gen <= gen' /\ queued'.n <= count'.made
                BY <2>1, <2>2, <3>1 DEF SessionInv, Slot
            <4>2. ASSUME queued'.n # 0, queued'.gen = gen'
                  PROVE  conn' # "open" /\ queued'.n > sent'.clip /\ \A i \in DOMAIN clipTail' : clipTail'[i].n < queued'.n
                <5>1. conn # "open" /\ queued.n > sent.clip /\ \A i \in DOMAIN clipTail : clipTail[i].n < queued.n
                    BY <2>2, <3>1, <4>2 DEF SessionInv, Slot
                <5>2. sent' = sent
                    BY <2>4, <5>1
                <5> QED
                    BY <2>2, <3>1, <3>3, <5>1, <5>2
            <4> QED
                BY <4>1, <4>2 DEF Slot
        <3> QED
            BY <2>5, <2>6, <2>7, <3>4, <3>5, <3>6 DEF SessionInv
    <2>11. CASE ~(Online \/ Live(rest) = <<>>)
        <3>1. clipTail' = <<>> /\ queued' = [n |-> rest[Len(rest)].n, gen |-> gen]
            BY <2>1, <2>11 DEF ClipTurn, rest
        <3>2. <<>> \in Seq(Jobs) /\ DOMAIN <<>> = {}
            BY EmptySeq
        <3>3. Chain(clipTail)'
            BY <3>1, <3>2 DEF Chain, ChainOf
        <3>4. Chains'
            BY <2>1, <2>2, <3>3 DEF SessionInv, Chains, Chain
        <3>5. conn # "open" /\ sent' = sent
            BY <2>4, <2>9, <2>11 DEF Online
        <3>6. PICK k \in DOMAIN clipTail : rest[Len(rest)] = clipTail[k]
            BY <2>9, <2>11
        <3>7. sent.clip < clipTail[k].n /\ clipTail[k].n <= count.made /\ clipTail[k].n \in Nat
            BY <1>0 DEF SessionInv, SentBefore, Chains
        <3>8. queued'.n = clipTail[k].n /\ queued'.gen = gen
            BY <3>1, <3>6
        <3>9. queued' \in [n : Nat, gen : Nat]
            BY <1>0, <3>1, <3>6, <3>7
        <3>10. Slot'
            BY <1>0, <2>1, <2>2, <3>1, <3>2, <3>5, <3>7, <3>8, <3>9 DEF Slot
        <3>11. SentBefore'
            BY <2>1, <3>1, <3>2, <3>5 DEF SessionInv, SentBefore
        <3> QED
            BY <2>5, <2>6, <2>7, <3>4, <3>10, <3>11 DEF SessionInv
    <2> QED
        BY <2>10, <2>11
<1>2. CASE SideSealed
    <2> DEFINE job == Head(sideTail)
    <2>1. /\ sideTail # <<>>
          /\ IF MaySend(job) THEN Puts(job, "side") ELSE UNCHANGED <<wire, sent>>
          /\ sideTail' = IF shares THEN Starts(Live(Tail(sideTail))) ELSE <<>>
          /\ UNCHANGED <<place, asked, shares, queued, clipTail, loose, decrypting, applying, felt, shown, proof, count>>
        BY <1>2 DEF SideSealed, SideTurn
    <2>2. UNCHANGED <<gen, key, conn>>
        BY <2>1 DEF place
    <2>3. /\ job.key = job.gen /\ job.gen # None /\ (job.gen = gen => key = gen)
          /\ job.n \in Nat /\ job.n <= count.made /\ sent.side < job.n
        <3>1. Chain(sideTail) /\ 1 \in DOMAIN sideTail /\ job = sideTail[1]
            <4>1. Chain(sideTail) /\ sideTail \in Seq(Jobs)
                BY DEF SessionInv, Chains, Chain, ChainOf
            <4> QED
                BY <2>1, <4>1, EmptySeq, LenProperties, HeadTailProperties
        <3> QED
            BY <1>0, <2>1, <3>1, RestWaits DEF SessionInv, SentBefore
    <2> HIDE DEF job
    <2>4. /\ wire' = wire
          /\ sent' = sent \/ (conn = "open" /\ sent' = [sent EXCEPT !["side"] = job.n])
        BY <2>1, <2>3, PutsRight
    <2>5. Seen' /\ Counts'
        BY <2>1, <2>4 DEF SessionInv, Seen, Counts
    <2>6. PlaceTypes' /\ Derivings' /\ AskedTypes'
        BY <2>1, PlaceKeeps
    <2>7. Alone'
        BY <1>0, <2>1, <2>2, AloneKeeps
    <2>8. sent' \in [{"clip", "side"} -> Nat] /\ sent'.clip = sent.clip /\ sent'.side \in {sent.side, job.n}
        BY <1>0, <2>3, <2>4
    <2> DEFINE rest == Tail(sideTail)
    <2>9. /\ Chain(Starts(Live(rest)))
          /\ \A i \in DOMAIN Starts(Live(rest)) :
                \E k \in DOMAIN sideTail : Starts(Live(rest))[i].n = sideTail[k].n /\ job.n < sideTail[k].n
        BY <2>1, TurnKeeps DEF SessionInv, Chains, job
    <2>10. sideTail' = Starts(Live(rest)) \/ sideTail' = <<>>
        BY <2>1
    <2> HIDE DEF rest
    <2>11. Chain(sideTail') /\ \A i \in DOMAIN sideTail' : \E k \in DOMAIN sideTail :
                                   sideTail'[i].n = sideTail[k].n /\ job.n < sideTail[k].n
        <3>1. <<>> \in Seq(Jobs) /\ DOMAIN <<>> = {}
            BY EmptySeq
        <3>2. Chain(<<>>)
            BY <3>1 DEF Chain, ChainOf
        <3> QED
            BY <2>9, <2>10, <3>1, <3>2
    <2>12. Chains'
        BY <2>1, <2>2, <2>11 DEF SessionInv, Chains, Chain
    <2>13. Slot'
        BY <2>1, <2>2, <2>8 DEF SessionInv, Slot
    <2>14. SentBefore'
        <3>1. \A i \in DOMAIN sideTail' : sent'.side < sideTail'[i].n
            BY <2>8, <2>11 DEF SessionInv, SentBefore
        <3>2. \A what \in {"clip", "side"} : sent'[what] <= count'.made
            BY <2>1, <2>3, <2>8 DEF SessionInv, SentBefore
        <3>3. \A i \in DOMAIN clipTail' : sent'.clip < clipTail'[i].n
            BY <2>1, <2>8 DEF SessionInv, SentBefore
        <3> QED
            BY <2>8, <3>1, <3>2, <3>3 DEF SentBefore
    <2> QED
        BY <2>5, <2>6, <2>7, <2>12, <2>13, <2>14 DEF SessionInv
<1> QED
    BY <1>1, <1>2
\* What arrives, and what opens, leaves the chains alone.
LEMMA HeardKeeps ==
    ASSUME SessionInv, UNCHANGED <<clipTail, sideTail, queued, sent, gen, key, conn>>,
           count' = count \/ \E what \in {"heard", "drops", "flips", "seq"} : Spend(what)
    PROVE  /\ Counts' /\ Chains' /\ Slot' /\ SentBefore'
           /\ count.seq \in Nat /\ count'.seq \in Nat /\ count.seq <= count'.seq
<1>1. Counts' /\ count.made <= count'.made /\ count.seq <= count'.seq /\ count.seq \in Nat
    <2>1. CASE count' = count
        <3>1. Counts' /\ count.made \in Nat /\ count.seq \in Nat
            BY <2>1 DEF SessionInv, Counts
        <3> QED
            BY <2>1, <3>1
    <2>2. ASSUME NEW what \in {"heard", "drops", "flips", "seq"}, Spend(what)
          PROVE  Counts' /\ count.made <= count'.made /\ count.seq <= count'.seq /\ count.seq \in Nat
        <3>1. /\ Counts' /\ count.made <= count'.made /\ count.seq \in Nat
              /\ (count'.seq = count.seq \/ count'.seq = count.seq + 1)
            BY <2>2, SpendKeeps
        <3> QED
            BY <3>1
    <2> QED
        BY <2>1, <2>2
<1>2. count'.seq \in Nat
    BY <1>1 DEF Counts
<1> QED
    BY <1>1, <1>2, UnsentKeeps

\* A session whose state moves while its number stays.
LEMMA LatchKeeps ==
    ASSUME SessionInv, NEW job, job \in decrypting, StillHere(job), Latches(job),
           UNCHANGED <<gen, deriving, key, locked, room, conn, intent, disk, gate, target, asked>>
    PROVE  PlaceTypes' /\ Derivings' /\ AskedTypes' /\ key = gen /\ key # None /\ job.key = key /\ proof' \in 0..MaxGen
<1>1. job.gen = gen /\ job.key = job.gen /\ job.gen # None /\ key = gen
    BY DEF SessionInv, Alone, Rightful, StillHere
<1>2. verified' = (verified \/ locked) /\ proof' = gen /\ gen \in 0..MaxGen
    BY <1>1 DEF Latches, SessionInv, PlaceTypes
<1>3. verified' \in BOOLEAN /\ (verified' => locked)
    BY <1>2 DEF SessionInv, PlaceTypes
<1>4. PlaceTypes'
    BY <1>1, <1>2, <1>3 DEF SessionInv, PlaceTypes
<1>5. Derivings'
    BY DEF SessionInv, Derivings
<1>6. UNCHANGED <<prompt, locking>>
    BY DEF asked
<1>7. AskedTypes'
    BY <1>6 DEF SessionInv, AskedTypes, Outside
<1> QED
    BY <1>1, <1>2, <1>4, <1>5, <1>7

\* Frames that arrive are opened, or are too late.
LEMMA OpenedKeep ==
    ASSUME SessionInv, NEW job \in decrypting,
           OpenedLate(job) \/ OpenedClip(job) \/ OpenedStream(job) \/ OpenedProbe(job)
    PROVE  SessionInv'
<1>0. gen \in Nat /\ applying \subseteq [n : Nat, gen : Nat, seq : Nat] /\ job.key = job.gen
      /\ decrypting \subseteq [n : Nat, kind : {"clip", "stream", "verify", "evict"}, gen : Nat, key : Nat]
    BY BoundsAreNat DEF SessionInv, PlaceTypes, Alone, Rightful
<1>1. CASE OpenedLate(job)
    <2>1. /\ decrypting' \subseteq decrypting
          /\ UNCHANGED <<place, asked, shares, queued, clipTail, sideTail, loose, applying, seen, count>>
        BY <1>1 DEF OpenedLate, Opens
    <2>2. UNCHANGED <<gen, key, conn, proof, sent>>
        BY <2>1 DEF place, seen
    <2>3. PlaceTypes' /\ Derivings' /\ AskedTypes'
        BY <2>1, <2>2, PlaceKeeps
    <2>4. Counts' /\ Chains' /\ Slot' /\ SentBefore'
        BY <2>1, <2>2, HeardKeeps
    <2>5. Alone'
        BY <1>0, <2>1, <2>2, AloneKeeps
    <2> QED
        BY <2>1, <2>3, <2>4, <2>5, SeenKeeps DEF SessionInv
<1>2. CASE OpenedClip(job) \/ OpenedStream(job) \/ OpenedProbe(job)
    <2>1. /\ decrypting' = decrypting \ {job} /\ StillHere(job) /\ Latches(job) /\ felt' = (job.key = key)
          /\ UNCHANGED <<gen, deriving, key, locked, room, conn, intent, disk, gate, target, asked,
                         shares, queued, clipTail, sideTail, wire, sent, shown>>
          /\ count' = count \/ Spend("seq")
        BY <1>2 DEF OpenedClip, OpenedStream, OpenedProbe, Opens, Feels
    <2>2. PlaceTypes' /\ Derivings' /\ AskedTypes' /\ key = gen /\ key # None /\ job.key = key /\ proof' \in 0..MaxGen
        BY <2>1, LatchKeeps
    <2>3. /\ Counts' /\ Chains' /\ Slot' /\ SentBefore'
          /\ count.seq \in Nat /\ count'.seq \in Nat /\ count.seq <= count'.seq
        BY <2>1, HeardKeeps
    <2>4. Seen'
        <3>1. felt' = TRUE
            BY <2>1, <2>2
        <3>2. shown \in Nat /\ shown <= count.seq /\ shown' = shown
            BY <2>1 DEF SessionInv, Seen
        <3>3. shown' \in Nat /\ shown' <= count'.seq
            BY <2>3, <3>2
        <3>4. wire' = [home |-> TRUE, shared |-> TRUE] /\ shares' \in BOOLEAN
            BY <2>1 DEF SessionInv, Seen
        <3> QED
            BY <2>2, <3>1, <3>3, <3>4 DEF Seen
    <2>5. applying' \subseteq [n : Nat, gen : Nat, seq : Nat]
        <3>1. CASE applying' = applying
            BY <1>0, <3>1
        <3>2. CASE OpenedClip(job) /\ applying' # applying
            <4>1. applying' = applying \cup {[n |-> job.n, gen |-> gen, seq |-> count.seq + 1]}
                BY <3>2 DEF OpenedClip
            <4>2. job.n \in Nat /\ count.seq + 1 \in Nat
                BY <1>0, <2>3
            <4> QED
                BY <1>0, <4>1, <4>2
        <3>3. OpenedStream(job) \/ OpenedProbe(job) => applying' = applying
            BY DEF OpenedStream, OpenedProbe
        <3> QED
            BY <1>2, <3>1, <3>2, <3>3
    <2>6. loose' = loose \/ Seals("verify")
        BY <1>2 DEF OpenedClip, OpenedStream, OpenedProbe
    <2>7. Alone'
        <3>1. CASE loose' = loose
            BY <2>1, <2>5, <3>1, AloneKeeps
        <3>2. CASE Seals("verify")
            BY <2>1, <2>2, <2>5, <3>2, SealKeeps
        <3> QED
            BY <2>6, <3>1, <3>2
    <2> QED
        BY <2>2, <2>3, <2>4, <2>7 DEF SessionInv
<1> QED
    BY <1>1, <1>2

\* A derivation that is still wanted gives the session its key.
LEMMA DerivedKeeps == ASSUME SessionInv, NEW d \in deriving, Derived(d) PROVE SessionInv'
<1>1. /\ deriving' = deriving \ {d}
      /\ UNCHANGED <<gen, disk, gate, target, asked, shares, pipes, seen, count>>
    BY DEF Derived
<1>2. UNCHANGED <<clipTail, sideTail, queued, loose, decrypting, applying, sent, proof, prompt, locking>>
    BY <1>1 DEF pipes, seen, asked
<1>3. d.gen \in 1..MaxGen /\ d.locked \in BOOLEAN /\ d.intent \in Intents /\ gen \in 0..MaxGen /\ gen \in Nat
    BY BoundsAreNat DEF SessionInv, Derivings, PlaceTypes
<1>4. Seen' /\ Counts'
    BY <1>1, SeenKeeps DEF SessionInv, Counts
<1>5. CASE Wanted(d)
    <2>1. /\ key' = gen /\ room' = gen /\ locked' = d.locked /\ verified' = FALSE
          /\ conn' = "opening" /\ intent' = d.intent /\ d.gen = gen
        BY <1>5 DEF Derived, Wanted
    <2>2. key = None /\ disk = gen /\ gen # None
        BY <1>3, <2>1 DEF SessionInv, Derivings, None
    <2>3. PlaceTypes'
        <3>1. key' \in {None, gen'} /\ gen' \in 0..MaxGen /\ room' = key' /\ locked' \in BOOLEAN
            BY <1>1, <1>3, <2>1
        <3>2. disk' = key' /\ (key' # None <=> conn' # "closed")
            BY <1>1, <2>1, <2>2
        <3>3. intent' \in Intents /\ verified' = FALSE /\ conn' = "opening" /\ key' # None
            BY <1>3, <2>1, <2>2
        <3> QED
            BY <1>1, <3>1, <3>2, <3>3 DEF SessionInv, PlaceTypes
    <2>4. \A e \in deriving' : e.gen # gen
        BY <1>1, <2>1 DEF SessionInv, Derivings
    <2>5. Derivings'
        BY <1>1, <2>4 DEF SessionInv, Derivings
    <2>6. AskedTypes'
        <3>1. ~Outside /\ (locking # "no" => ~d.locked)
            BY <2>1 DEF SessionInv, AskedTypes
        <3> QED
            BY <1>1, <1>2, <2>1, <2>4, <3>1 DEF SessionInv, AskedTypes, Outside
    <2>7. Alone'
        <3>1. \A j \in loose \cup decrypting : Rightful(j)
            BY DEF SessionInv, Alone
        <3>2. \A j \in loose' \cup decrypting' : Rightful(j)'
            BY <1>1, <1>2, <2>1, <3>1 DEF Rightful
        <3> QED
            BY <1>2, <3>2 DEF SessionInv, Alone
    <2>8. Chains'
        BY <1>1, <1>2, <2>1 DEF SessionInv, Chains, Chain, ChainOf
    <2>9. Slot'
        BY <1>1, <1>2, <2>1 DEF SessionInv, Slot
    <2>10. SentBefore'
        BY <1>1, <1>2 DEF SessionInv, SentBefore
    <2> QED
        BY <1>4, <2>3, <2>5, <2>6, <2>7, <2>8, <2>9, <2>10 DEF SessionInv
<1>6. CASE ~Wanted(d)
    <2>1. UNCHANGED <<key, room, locked, verified, conn, intent>>
        BY <1>6 DEF Derived
    <2>2. PlaceTypes'
        BY <1>1, <1>2, <2>1 DEF SessionInv, PlaceTypes
    <2>3. Derivings'
        BY <1>1, <2>1 DEF SessionInv, Derivings
    <2>4. AskedTypes'
        BY <1>1, <1>2, <2>1 DEF SessionInv, AskedTypes, Outside
    <2>5. Alone'
        BY <1>1, <1>2, <2>1, AloneKeeps DEF SessionInv, Alone
    <2>6. Chains' /\ Slot' /\ SentBefore'
        BY <1>1, <1>2, <2>1 DEF SessionInv, Chains, Chain, ChainOf, Slot, SentBefore
    <2> QED
        BY <1>4, <2>2, <2>3, <2>4, <2>5, <2>6 DEF SessionInv
<1> QED
    BY <1>5, <1>6
\* Everything else that finishes: proofs, keystrokes, goodbyes, evictions and clips shown.
LEMMA CryptoKeeps == ASSUME SessionInv, Crypto PROVE SessionInv'
<1>0. /\ gen \in Nat /\ applying \subseteq [n : Nat, gen : Nat, seq : Nat]
      /\ loose \subseteq [kind : {"stream", "verify", "evict"}, gen : Nat, key : Nat]
      /\ \A job \in loose \cup decrypting : Rightful(job)
    BY BoundsAreNat DEF SessionInv, PlaceTypes, Alone
<1>1. ASSUME NEW job \in loose, LooseSealed(job) PROVE SessionInv'
    <2>1. /\ loose' = loose \ {job}
          /\ (MaySend(job) /\ Puts(job, "loose")) \/ UNCHANGED <<wire, sent>>
          /\ UNCHANGED <<place, asked, shares, queued, clipTail, sideTail, decrypting, applying, felt, shown, proof, count>>
        BY <1>1 DEF LooseSealed, MaySendLoose
    <2>2. UNCHANGED <<gen, key, conn>>
        BY <2>1 DEF place
    <2>3. wire' = wire /\ sent' = sent
        BY <1>0, <2>1, PutsRight DEF Rightful
    <2>4. PlaceTypes' /\ Derivings' /\ AskedTypes'
        BY <2>1, PlaceKeeps
    <2>5. Counts' /\ Chains' /\ Slot' /\ SentBefore'
        BY <2>1, <2>2, <2>3, HeardKeeps
    <2>6. Alone'
        BY <1>0, <2>1, <2>2, AloneKeeps
    <2> QED
        BY <2>1, <2>3, <2>4, <2>5, <2>6, SeenKeeps DEF SessionInv, seen
<1>2. CASE GoodbyeSent
    <2>1. PICK job \in loose : MaySend(job) /\ Puts(job, "loose") /\ loose' = loose \ {job}
        BY <1>2 DEF GoodbyeSent
    <2>2. /\ locking = "seal" /\ locking' = "flush"
          /\ UNCHANGED <<place, prompt, shares, queued, clipTail, sideTail, decrypting, applying, felt, shown, proof, count>>
        BY <1>2 DEF GoodbyeSent
    <2>3. wire' = wire /\ sent' = sent
        BY <1>0, <2>1, PutsRight DEF Rightful
    <2>4. UNCHANGED <<gen, deriving, key, locked, verified, room, conn, intent, disk, gate, target>>
        BY <2>2 DEF place
    <2>5. PlaceTypes' /\ Derivings'
        BY <2>2, <2>4 DEF SessionInv, PlaceTypes, Derivings
    <2>6. AskedTypes'
        BY <2>2, <2>4 DEF SessionInv, AskedTypes, Outside
    <2>7. Counts' /\ Chains' /\ Slot' /\ SentBefore'
        BY <2>2, <2>3, <2>4, HeardKeeps
    <2>8. Alone'
        BY <1>0, <2>1, <2>2, <2>4, AloneKeeps
    <2> QED
        BY <2>2, <2>3, <2>5, <2>6, <2>7, <2>8, SeenKeeps DEF SessionInv, seen
<1>3. CASE GoodbyeGivenUp
    <2>1. /\ MoveTo(TRUE, "create") /\ locking = "seal" /\ locking' = "no" /\ prompt' = prompt
          /\ loose' \subseteq loose
          /\ UNCHANGED <<shares, clipTail, sideTail, decrypting, applying, seen, count>>
        BY <1>3 DEF GoodbyeGivenUp
    <2>2. UNCHANGED <<proof, sent>>
        BY <2>1 DEF seen
    <2>3. ~Outside'
        BY <2>1 DEF SessionInv, AskedTypes, Outside
    <2>4. PlaceTypes' /\ Derivings' /\ AskedTypes' /\ Counts' /\ Alone' /\ Chains' /\ Slot' /\ SentBefore'
        BY <2>1, <2>2, <2>3, MoveKeeps DEF Intents
    <2> QED
        BY <2>1, <2>4, SeenKeeps DEF SessionInv
<1>4. ASSUME NEW job \in decrypting, OpenedEviction(job) PROVE SessionInv'
    <2>1. /\ LeaveRoom /\ gate' = "no" /\ disk' = None /\ decrypting' = decrypting \ {job}
          /\ prompt' = [op |-> "notice", intent |-> "create"] /\ locking = "no" /\ locking' = locking
          /\ felt' = (job.key = key) /\ proof' = job.gen /\ StillHere(job)
          /\ UNCHANGED <<shares, clipTail, sideTail, loose, applying, wire, sent, shown, count>>
        BY <1>4 DEF OpenedEviction, Opens, EndSession, Shows, Feels
    <2>2. job.gen = gen /\ job.key = key /\ gen \in 0..MaxGen
        BY <1>0, <2>1 DEF Rightful, StillHere, SessionInv, PlaceTypes
    <2>3. proof' \in 0..MaxGen
        BY <2>1, <2>2
    <2>4. /\ PlaceTypes' /\ Derivings' /\ Counts' /\ Alone' /\ Chains' /\ Slot' /\ SentBefore'
          /\ key' = None /\ locked' = FALSE /\ \A d \in deriving' : d.gen # gen'
        BY <2>1, <2>3, LeavingKeeps
    <2>5. prompt' \in [op : Ops, intent : Intents]
        BY <2>1 DEF Ops, Intents
    <2>6. AskedTypes'
        BY <2>1, <2>4, <2>5 DEF AskedTypes
    <2>7. Seen'
        <3>1. felt' = TRUE
            BY <2>1, <2>2
        <3> QED
            BY <2>1, <2>3, <3>1 DEF SessionInv, Seen
    <2> QED
        BY <2>4, <2>6, <2>7 DEF SessionInv
<1>5. ASSUME NEW job \in applying, Applied(job) PROVE SessionInv'
    <2>1. /\ applying' \subseteq applying
          /\ \/ MayShow(job) /\ shown' = job.seq /\ felt' = (job.gen = gen)
             \/ UNCHANGED <<shown, felt>>
          /\ UNCHANGED <<place, asked, shares, queued, clipTail, sideTail, loose, decrypting, wire, sent, proof, count>>
        BY <1>5 DEF Applied
    <2>2. UNCHANGED <<gen, key, conn>>
        BY <2>1 DEF place
    <2>3. PlaceTypes' /\ Derivings' /\ AskedTypes'
        BY <2>1, PlaceKeeps
    <2>4. Counts' /\ Chains' /\ Slot' /\ SentBefore' /\ count.seq \in Nat
        BY <2>1, <2>2, HeardKeeps
    <2>5. Alone'
        BY <1>0, <2>1, <2>2, AloneKeeps
    <2>6. Seen'
        <3>1. CASE MayShow(job) /\ shown' = job.seq /\ felt' = (job.gen = gen)
            <4>1. felt' = TRUE /\ shown' = count.seq
                BY <3>1 DEF MayShow
            <4> QED
                BY <2>1, <2>4, <4>1 DEF SessionInv, Seen
        <3>2. CASE UNCHANGED <<shown, felt>>
            BY <2>1, <3>2 DEF SessionInv, Seen
        <3> QED
            BY <2>1, <3>1, <3>2
    <2> QED
        BY <2>3, <2>4, <2>5, <2>6 DEF SessionInv
<1> QED
    BY <1>1, <1>2, <1>3, <1>4, <1>5, DerivedKeeps, SealedKeep, OpenedKeep DEF Crypto

-----------------------------------------------------------------------------
(* The network *)

\* The connection, and what it brings.
LEMMA NetworkKeeps == ASSUME SessionInv, Network PROVE SessionInv'
<1>0. /\ gen \in Nat /\ key \in {None, gen} /\ applying \subseteq [n : Nat, gen : Nat, seq : Nat]
      /\ decrypting \subseteq [n : Nat, kind : {"clip", "stream", "verify", "evict"}, gen : Nat, key : Nat]
    BY BoundsAreNat DEF SessionInv, PlaceTypes, Alone
<1>1. CASE Connected
    <2>1. /\ conn = "opening" /\ conn' = "open" /\ queued' = NoClip
          /\ clipTail' = IF Flushable THEN Joins(clipTail, Job(queued.n)) ELSE clipTail
          /\ UNCHANGED <<gen, deriving, key, locked, verified, room, intent, disk, gate, target,
                         asked, shares, sideTail, loose, decrypting, applying, seen, count>>
        BY <1>1 DEF Connected
    <2>2. key = gen /\ gen # None /\ UNCHANGED <<prompt, locking, proof, sent>>
        BY <1>0, <2>1 DEF SessionInv, PlaceTypes, asked, seen
    <2>3. PlaceTypes'
        BY <2>1, <2>2 DEF SessionInv, PlaceTypes
    <2>4. Derivings'
        BY <2>1 DEF SessionInv, Derivings
    <2>5. AskedTypes'
        BY <2>1, <2>2 DEF SessionInv, AskedTypes, Outside
    <2>6. Seen' /\ Counts' /\ count.made \in Nat
        BY <2>1, SeenKeeps DEF SessionInv, Counts
    <2>7. Alone'
        BY <1>0, <2>1, AloneKeeps
    <2>8. Slot'
        <3>1. queued' \in [n : Nat, gen : Nat] /\ queued'.gen <= gen' /\ queued'.n <= count'.made /\ queued'.n = 0
            BY <1>0, <2>1, <2>6 DEF NoClip
        <3> QED
            BY <3>1 DEF Slot
    <2>9. CASE Flushable
        <3> DEFINE n == queued.n
        <3>1. /\ n \in Nat /\ n <= count.made /\ sent.clip < n /\ sent \in [{"clip", "side"} -> Nat]
              /\ \A i \in DOMAIN clipTail : clipTail[i].n < n
            BY <2>9 DEF SessionInv, Slot, Flushable, SentBefore
        <3>2. clipTail' = Joins(clipTail, Job(n))
            BY <2>1, <2>9
        <3> HIDE DEF n
        <3>3. /\ ChainOf(clipTail', gen, key, count.made)
              /\ \A i \in DOMAIN clipTail' : clipTail'[i].n = n \/ (i \in DOMAIN clipTail /\ clipTail'[i].n = clipTail[i].n)
            BY <1>0, <2>2, <2>6, <3>1, <3>2, JoinKeeps DEF SessionInv, Chains
        <3>4. Chains'
            BY <2>1, <3>3 DEF SessionInv, Chains, Chain
        <3>5. SentBefore'
            BY <2>1, <2>2, <3>1, <3>3 DEF SessionInv, SentBefore
        <3> QED
            BY <2>3, <2>4, <2>5, <2>6, <2>7, <2>8, <3>4, <3>5 DEF SessionInv
    <2>10. CASE ~Flushable
        <3>1. clipTail' = clipTail
            BY <2>1, <2>10
        <3>2. Chains' /\ SentBefore'
            BY <2>1, <2>2, <3>1 DEF SessionInv, Chains, Chain, ChainOf, SentBefore
        <3> QED
            BY <2>3, <2>4, <2>5, <2>6, <2>7, <2>8, <3>2 DEF SessionInv
    <2> QED
        BY <2>9, <2>10
<1>2. CASE Welcomed
    <2>1. /\ intent' = "join"
          /\ UNCHANGED <<gen, deriving, key, locked, verified, room, conn, disk, gate, target,
                         asked, shares, pipes, seen, count>>
        BY <1>2 DEF Welcomed
    <2>2. UNCHANGED <<prompt, locking, proof, sent, queued, clipTail, sideTail, loose, decrypting, applying>>
        BY <2>1 DEF asked, seen, pipes
    <2>3. PlaceTypes'
        BY <2>1, <2>2 DEF SessionInv, PlaceTypes, Intents
    <2>4. Derivings'
        BY <2>1 DEF SessionInv, Derivings
    <2>5. AskedTypes'
        BY <2>1, <2>2 DEF SessionInv, AskedTypes, Outside
    <2>6. Counts' /\ Chains' /\ Slot' /\ SentBefore'
        BY <2>1, <2>2, HeardKeeps
    <2>7. Alone'
        BY <1>0, <2>1, <2>2, AloneKeeps
    <2> QED
        BY <2>1, <2>3, <2>4, <2>5, <2>6, <2>7, SeenKeeps DEF SessionInv
<1>3. CASE Dropped
    <2>1. /\ conn = "open" /\ conn' = "opening" /\ Spend("drops")
          /\ UNCHANGED <<gen, deriving, key, locked, verified, room, intent, disk, gate, target,
                         asked, shares, pipes, seen>>
        BY <1>3 DEF Dropped
    <2>2. UNCHANGED <<prompt, locking, proof, sent, queued, clipTail, sideTail, loose, decrypting, applying>>
        BY <2>1 DEF asked, seen, pipes
    <2>3. PlaceTypes'
        BY <2>1, <2>2 DEF SessionInv, PlaceTypes
    <2>4. Derivings'
        BY <2>1 DEF SessionInv, Derivings
    <2>5. AskedTypes'
        BY <2>1, <2>2 DEF SessionInv, AskedTypes, Outside
    <2>6. Counts' /\ count.made <= count'.made /\ count'.seq = count.seq /\ count.made \in Nat /\ count'.made \in Nat
        BY <2>1, SpendKeeps DEF Counts
    <2>7. ChainOf(clipTail, gen, key, count'.made) /\ ChainOf(sideTail, gen, key, count'.made)
        BY <2>6, ChainKeeps DEF SessionInv, Chains
    <2>8. Chains'
        BY <2>1, <2>2, <2>7 DEF Chains, Chain
    <2>9. Slot'
        <3>1. queued \in [n : Nat, gen : Nat] /\ queued.n <= count'.made /\ ~(queued.n # 0 /\ queued.gen = gen)
            BY <2>1, <2>6 DEF SessionInv, Slot
        <3> QED
            BY <2>1, <2>2, <3>1 DEF SessionInv, Slot
    <2>10. SentBefore'
        <3>1. sent \in [{"clip", "side"} -> Nat] /\ \A what \in {"clip", "side"} : sent[what] <= count'.made
            BY <2>6 DEF SessionInv, SentBefore
        <3> QED
            BY <2>2, <3>1 DEF SessionInv, SentBefore
    <2>11. Alone'
        BY <1>0, <2>1, <2>2, AloneKeeps
    <2>12. Seen'
        BY <2>1, <2>6 DEF SessionInv, Seen, seen
    <2> QED
        BY <2>3, <2>4, <2>5, <2>6, <2>8, <2>9, <2>10, <2>11, <2>12 DEF SessionInv
<1>4. ASSUME NEW kind \in {"clip", "evict", "stream", "verify"}, Arrive(kind) PROVE SessionInv'
    <2> DEFINE job == [n |-> count.heard + 1, kind |-> kind, gen |-> gen, key |-> key]
    <2>1. /\ key # None /\ Spend("heard") /\ decrypting' = decrypting \cup {job}
          /\ UNCHANGED <<place, asked, shares, queued, clipTail, sideTail, loose, applying, seen>>
        BY <1>4 DEF Arrive, Online
    <2>2. UNCHANGED <<gen, key, conn, proof, sent>>
        BY <2>1 DEF place, seen
    <2>3. count.heard + 1 \in Nat
        BY DEF SessionInv, Counts
    <2>4. job \in [n : Nat, kind : {"clip", "stream", "verify", "evict"}, gen : Nat, key : Nat] /\ Rightful(job)
        BY <1>0, <2>1, <2>3 DEF Rightful
    <2> HIDE DEF job
    <2>5. PlaceTypes' /\ Derivings' /\ AskedTypes'
        BY <2>1, <2>2, PlaceKeeps
    <2>6. /\ Counts' /\ Chains' /\ Slot' /\ SentBefore'
          /\ count.seq \in Nat /\ count'.seq \in Nat /\ count.seq <= count'.seq
        BY <2>1, <2>2, HeardKeeps
    <2>7. Alone'
        <3>1. \A j \in loose' \cup decrypting' : Rightful(j)
            BY <2>1, <2>4 DEF SessionInv, Alone
        <3>2. \A j \in loose' \cup decrypting' : Rightful(j)'
            BY <2>2, <3>1 DEF Rightful
        <3>3. decrypting' \subseteq [n : Nat, kind : {"clip", "stream", "verify", "evict"}, gen : Nat, key : Nat]
            BY <1>0, <2>1, <2>4
        <3> QED
            BY <2>1, <3>2, <3>3 DEF SessionInv, Alone
    <2>8. Seen'
        <3>1. shown \in Nat /\ shown <= count'.seq
            BY <2>6 DEF SessionInv, Seen
        <3> QED
            BY <2>1, <3>1 DEF SessionInv, Seen, seen
    <2> QED
        BY <2>5, <2>6, <2>7, <2>8 DEF SessionInv
<1> QED
    BY <1>1, <1>2, <1>3, <1>4 DEF Network
-----------------------------------------------------------------------------
(* The theorems *)

\* A device boots into its invariant.
LEMMA BootsWell == Init => SessionInv
<1> SUFFICES ASSUME Init PROVE SessionInv
    OBVIOUS
<1>1. /\ target = gen /\ disk = gen /\ key = None /\ locked = FALSE /\ verified = FALSE
      /\ room = None /\ conn = "closed" /\ intent = "join" /\ gate = "no" /\ locking = "no" /\ shares = TRUE
      /\ queued = NoClip /\ clipTail = <<>> /\ sideTail = <<>> /\ loose = {} /\ decrypting = {} /\ applying = {}
      /\ wire = [home |-> TRUE, shared |-> TRUE] /\ sent = [clip |-> 0, side |-> 0] /\ felt = TRUE
      /\ shown = 0 /\ proof = None /\ count = [made |-> 0, heard |-> 0, drops |-> 0, flips |-> 0, seq |-> 0]
    BY DEF Init
<1>2. /\ gen \in 0..MaxGen /\ gen \in Nat /\ 0 \in 0..MaxGen
      /\ deriving \subseteq [gen : 1..MaxGen, locked : BOOLEAN, intent : Intents]
      /\ \A d \in deriving : d.gen = gen
      /\ \A d, e \in deriving : d = e
      /\ deriving = {} \/ prompt = Quiet
      /\ prompt \in [op : Ops, intent : Intents]
    <2>1. CASE gen = 0 /\ deriving = {} /\ \E i \in {"create", "join"} : prompt = [op |-> "boot", intent |-> i]
        <3>1. prompt \in [op : Ops, intent : Intents]
            BY <2>1 DEF Ops, Intents
        <3> QED
            BY <2>1, <3>1, BoundsAreNat
    <2>2. CASE gen = 1 /\ prompt = Quiet /\ \E l \in BOOLEAN, i \in {"create", "join"} :
                  deriving = {[gen |-> 1, locked |-> l, intent |-> i]}
        <3>1. PICK l \in BOOLEAN, i \in Intents : deriving = {[gen |-> 1, locked |-> l, intent |-> i]}
            BY <2>2 DEF Intents
        <3>2. 1 \in 1..MaxGen /\ 1 \in 0..MaxGen /\ 0 \in 0..MaxGen
            BY BoundsAreNat, BootsSomewhere
        <3>3. [gen |-> 1, locked |-> l, intent |-> i] \in [gen : 1..MaxGen, locked : BOOLEAN, intent : Intents]
            BY <3>2
        <3>4. prompt \in [op : Ops, intent : Intents]
            BY <2>2 DEF Ops, Intents, Quiet
        <3>5. PICK one \in [gen : 1..MaxGen, locked : BOOLEAN, intent : Intents] : deriving = {one} /\ one.gen = 1
            BY <3>1, <3>3
        <3>6. \A d \in deriving : d = one /\ d.gen = gen
            BY <2>2, <3>5
        <3> QED
            BY <2>2, <3>2, <3>4, <3>5, <3>6
    <2> QED
        BY <2>1, <2>2 DEF Init
<1>3. PlaceTypes
    BY <1>1, <1>2 DEF PlaceTypes, None, Intents
<1>4. Derivings
    BY <1>1, <1>2 DEF Derivings
<1>5. AskedTypes
    BY <1>1, <1>2 DEF AskedTypes, Outside, Quiet
<1>6. Counts
    BY <1>1 DEF Counts
<1>7. Alone
    BY <1>1 DEF Alone
<1>8. Chains
    <2>1. <<>> \in Seq(Jobs) /\ DOMAIN <<>> = {}
        BY EmptySeq
    <2> QED
        BY <1>1, <2>1 DEF Chains, Chain, ChainOf
<1>9. Slot
    BY <1>1, <1>2 DEF Slot, NoClip
<1>10. SentBefore
    <2>1. DOMAIN <<>> = {}
        BY EmptySeq
    <2>2. sent \in [{"clip", "side"} -> Nat] /\ \A what \in {"clip", "side"} : sent[what] = 0
        BY <1>1
    <2> QED
        BY <1>1, <2>1, <2>2 DEF SentBefore
<1>11. Seen
    BY <1>1, <1>2 DEF Seen, None
<1> QED
    BY <1>3, <1>4, <1>5, <1>6, <1>7, <1>8, <1>9, <1>10, <1>11 DEF SessionInv

\* And no step leaves it.
LEMMA StepsKeep == SessionInv /\ [Next]_vars => SessionInv'
<1> SUFFICES ASSUME SessionInv, [Next]_vars PROVE SessionInv'
    OBVIOUS
<1>1. CASE UNCHANGED vars
    <2>1. UNCHANGED <<place, asked, proof, sent, seen, shares, count>> /\ UNCHANGED <<gen, key, conn>>
          /\ UNCHANGED <<queued, clipTail, sideTail, loose, decrypting, applying>>
        BY <1>1 DEF vars, place, seen, pipes
    <2>2. PlaceTypes' /\ Derivings' /\ AskedTypes'
        BY <2>1, PlaceKeeps
    <2>3. Counts' /\ Chains' /\ Slot' /\ SentBefore'
        BY <2>1, HeardKeeps
    <2>4. Alone'
        BY <2>1, AloneKeeps DEF SessionInv, Alone
    <2> QED
        BY <2>1, <2>2, <2>3, <2>4, SeenKeeps DEF SessionInv
<1> QED
    BY <1>1, MovesKeep, PromptsKeep, SendsKeep, CryptoKeeps, NetworkKeeps DEF Next

\* The invariant says what the session promises.
LEMMA InvKeepsApart == SessionInv => StaysInItsRoom /\ NothingForgotten
<1> SUFFICES ASSUME SessionInv PROVE StaysInItsRoom /\ NothingForgotten
    OBVIOUS
<1>1. /\ gen \in 0..MaxGen /\ key \in {None, gen} /\ 0 \in 0..MaxGen
      /\ room = key /\ disk \in 0..MaxGen /\ target \in 0..MaxGen /\ proof \in 0..MaxGen
    BY BoundsAreNat DEF SessionInv, PlaceTypes, Seen
<1>2. \A tail : Chain(tail) => (tail # <<>> => Head(tail).key # None /\ \A i \in 2..Len(tail) : tail[i].key = None)
    <2> SUFFICES ASSUME NEW tail, Chain(tail), tail # <<>>
                 PROVE  Head(tail).key # None /\ \A i \in 2..Len(tail) : tail[i].key = None
        OBVIOUS
    <2>1. tail \in Seq(Jobs) /\ Len(tail) \in Nat /\ DOMAIN tail = 1..Len(tail)
        BY LenProperties DEF Chain, ChainOf
    <2>2. \A i \in 2..Len(tail) : i \in DOMAIN tail /\ i # 1
        BY <2>1
    <2>3. Head(tail).key # None
        BY RestWaits
    <2> QED
        BY <2>2, <2>3 DEF Chain, ChainOf
<1>3. TypeOK
    <2>1. {gen, key, room, disk, target, proof} \subseteq 0..MaxGen
        BY <1>1 DEF None
    <2>2. {locked, verified, shares} \subseteq BOOLEAN /\ conn \in {"closed", "opening", "open"}
        BY DEF SessionInv, PlaceTypes, Seen
    <2>3. {intent, prompt.intent} \subseteq {"create", "join"} /\ gate \in {"no", "create", "join"}
        BY DEF SessionInv, PlaceTypes, AskedTypes, Intents
    <2>4. locking \in {"no", "seal", "flush"} /\ key = room /\ (key # None <=> conn # "closed")
        BY DEF SessionInv, PlaceTypes, AskedTypes
    <2>5. \A job \in loose \cup decrypting : job.key # None
        BY DEF SessionInv, Alone, Rightful
    <2>6. \A tail \in {clipTail, sideTail} :
              tail # <<>> => Head(tail).key # None /\ \A i \in 2..Len(tail) : tail[i].key = None
        BY <1>2 DEF SessionInv, Chains
    <2> QED
        BY <2>1, <2>2, <2>3, <2>4, <2>5, <2>6 DEF TypeOK
<1>4. NothingCrosses /\ QuietWhenOff /\ ReceivedInRoom /\ VerifiedHonestly
    BY DEF SessionInv, Seen, PlaceTypes, NothingCrosses, QuietWhenOff, ReceivedInRoom, VerifiedHonestly
<1>5. NothingForgotten
    BY DEF SessionInv, PlaceTypes, Slot, NothingForgotten, DiskRemembers, NoneWaitsOnline, Online
<1> QED
    BY <1>3, <1>4, <1>5 DEF StaysInItsRoom

\* Sessions are apart: what is sent, received and believed is of the room it was written
\* in, nothing is sealed without a key, and nothing leaves a device whose rung is Off.
THEOREM SessionsKeepApart == Spec => []StaysInItsRoom
<1> QED
    BY BootsWell, StepsKeep, InvKeepsApart, PTL DEF Spec

\* Disk has the session of the device, and no clip of it waits beside a connection.
THEOREM NothingIsForgotten == Spec => []NothingForgotten
<1> QED
    BY BootsWell, StepsKeep, InvKeepsApart, PTL DEF Spec

\* What a step sends is newer than what was sent, and what it shows than what was shown.
LEMMA StepsInOrder ==
    SessionInv /\ [Next]_vars
        => /\ \A what \in {"clip", "side"} : sent'[what] # sent[what] => sent'[what] > sent[what]
           /\ shown' >= shown
<1> SUFFICES ASSUME SessionInv, [Next]_vars
             PROVE  /\ \A what \in {"clip", "side"} : sent'[what] # sent[what] => sent'[what] > sent[what]
                    /\ shown' >= shown
    OBVIOUS
<1>0. shown \in Nat /\ shown <= count.seq /\ sent \in [{"clip", "side"} -> Nat] /\ count.seq \in Nat
    BY DEF SessionInv, Seen, SentBefore, Counts
<1>1. CASE UNCHANGED <<sent, shown>>
    BY <1>0, <1>1
<1>2. CASE UNCHANGED seen
    BY <1>1, <1>2 DEF seen
<1>3. CASE Moves \/ Prompts \/ Sends \/ Network
    <2>1. UNCHANGED seen
        BY <1>3 DEF Moves, Rotate, Rejoin, Unlock, Leave, LockMoves, Collide, Prompts, Ask, Answer, AnswerOutside,
                    Cancel, Lock, Sends, Commit, Issue, Type, Probe, Flip, Network, Connected, Welcomed, Dropped, Arrive
    <2> QED
        BY <1>2, <2>1
<1>4. ASSUME NEW tail, NEW what \in {"clip", "side"}, Chain(tail), tail # <<>>,
             \A i \in DOMAIN tail : sent[what] < tail[i].n,
             (MaySend(Head(tail)) /\ Puts(Head(tail), what)) \/ UNCHANGED <<wire, sent>>, shown' = shown
      PROVE  /\ \A w \in {"clip", "side"} : sent'[w] # sent[w] => sent'[w] > sent[w]
             /\ shown' >= shown
    <2>1. tail \in Seq(Jobs)
        BY <1>4 DEF Chain, ChainOf
    <2>2. 1 \in DOMAIN tail /\ Head(tail) = tail[1] /\ Head(tail) \in Jobs
        BY <1>4, <2>1, EmptySeq, LenProperties, HeadTailProperties
    <2>3. sent[what] < Head(tail).n /\ Head(tail).n \in Nat
        BY <1>4, <2>2 DEF Jobs
    <2>4. sent' = sent \/ sent' = [sent EXCEPT ![what] = Head(tail).n]
        BY <1>4 DEF Puts
    <2> QED
        BY <1>0, <1>4, <2>3, <2>4
<1>5. CASE ClipSealed
    BY <1>4, <1>5 DEF ClipSealed, SessionInv, Chains, SentBefore
<1>6. CASE SideSealed
    BY <1>4, <1>6 DEF SideSealed, SessionInv, Chains, SentBefore
<1>7. ASSUME NEW job \in loose, LooseSealed(job) PROVE UNCHANGED <<sent, shown>>
    BY <1>7 DEF LooseSealed, Puts
<1>8. CASE GoodbyeSent
    <2>1. UNCHANGED <<sent, shown>>
        BY <1>8 DEF GoodbyeSent, Puts
    <2> QED
        BY <1>1, <2>1
<1>9. ASSUME NEW job \in decrypting,
             OpenedLate(job) \/ OpenedClip(job) \/ OpenedStream(job) \/ OpenedProbe(job) \/ OpenedEviction(job)
      PROVE  UNCHANGED <<sent, shown>>
    BY <1>9 DEF OpenedLate, OpenedClip, OpenedStream, OpenedProbe, OpenedEviction, seen
<1>10. ASSUME NEW job \in applying, Applied(job)
       PROVE  sent' = sent /\ (shown' = shown \/ shown' = count.seq)
    BY <1>10 DEF Applied, MayShow
<1>11. CASE GoodbyeGivenUp \/ \E d \in deriving : Derived(d)
    <2>1. UNCHANGED seen
        BY <1>11 DEF GoodbyeGivenUp, Derived
    <2> QED
        BY <1>2, <2>1
<1>12. CASE UNCHANGED vars
    BY <1>2, <1>12 DEF vars
<1>13. CASE Crypto
    <2>1. CASE \E job \in applying : Applied(job)
        BY <1>0, <1>10, <2>1
    <2> QED
        BY <1>1, <1>5, <1>6, <1>7, <1>8, <1>9, <1>11, <1>13, <2>1 DEF Crypto
<1> QED
    BY <1>3, <1>12, <1>13 DEF Next

\* Clips and file frames keep their order on the way out, and clips on the way in.
THEOREM OrderIsKept == Spec => InOrder
<1>1. SessionInv /\ [Next]_vars
        => [\A what \in {"clip", "side"} : sent'[what] # sent[what] => sent'[what] > sent[what]]_vars
           /\ [shown' >= shown]_vars
    BY StepsInOrder
<1> QED
    BY <1>1, BootsWell, StepsKeep, PTL DEF Spec, InOrder, SentInOrder, EditorInOrder
=============================================================================
