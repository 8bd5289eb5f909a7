----------------------------- MODULE RelayProofs -----------------------------
(***************************************************************************)
(* What Relay promises for every number of connections, rooms, addresses   *)
(* and frames: its types, the bookkeeping of who is in a room, the         *)
(* ceilings on rooms, on peers and, where sessions have no lifetime cap,   *)
(* on the connections of an address; that a room is never split, never     *)
(* comes back once its name lets go of it, and is evicted only after its   *)
(* TTL; and that everybody in a room is informed.                          *)
(***************************************************************************)
EXTENDS Relay, FiniteSetTheorems, TLAPS

-----------------------------------------------------------------------------
(* Types of the operators the actions are built from *)

\* The connections, the sweeper and None are told apart.
LEMMA Named ==
    /\ "new" \in Places /\ "retiring" \in Places /\ "welcome" \in Places
    /\ "read" \in Places /\ "fanout" \in Places /\ "forward" \in Places
    /\ "answer" \in Places /\ "rename" \in Places /\ "ended" \in Places
    /\ "opening" \in Lines /\ "up" \in Lines /\ "closing" \in Lines /\ "ended" \in Lines
BY DEF Places, Lines

\* An actor is a connection or the sweeper.
LEMMA ActorsAre ==
    /\ Sweeper \in Actor /\ Sweeper \notin Conn /\ Conn \subseteq Actor
    /\ None \notin Conn /\ None \notin Hash
BY ConstantsAssumption DEF Actor, ConstantsAssumption

\* What the constructors of frames build are frames.
LEMMA FrameType ==
    ASSUME TypeOK, NEW k \in Task,
           NEW n \in Nat, NEW ids \in SUBSET PeerId,
           NEW t \in {"wide", "direct"}
    PROVE  /\ ClipFrame(k, n) \in Frame
           /\ PeersFrame(k, ids) \in Frame
           /\ StampedFrame(k, t) \in Frame
           /\ ReplyFrame(k) \in Frame
<1>1. k[1] \in Conn
    BY DEF Task
<1>2. id[k[1]] \in PeerId
    BY <1>1 DEF TypeOK
<1> QED
    BY <1>2 DEF ClipFrame, PeersFrame, StampedFrame, ReplyFrame, Frame

\* A roster is a set of peer ids.
LEMMA RosterType ==
    ASSUME TypeOK, NEW P \in SUBSET Conn
    PROVE  Roster(P) \in SUBSET PeerId
BY DEF Roster, TypeOK

\* A fan-out keeps the types of the writes and of the failures.
LEMMA FanOutType ==
    ASSUME TypeOK, NEW k \in Task, NEW T \in SUBSET Conn, NEW f \in Frame,
           FanOut(k, T, f)
    PROVE  /\ writes' \in [Conn -> Seq(Frame)]
           /\ bad' \in [Task -> SUBSET Conn]
<1>1. \A p \in Conn : Append(writes[p], f) \in Seq(Frame)
    BY DEF TypeOK
<1>2. writes' \in [Conn -> Seq(Frame)]
    BY <1>1 DEF TypeOK, FanOut
<1>3. bad' \in [Task -> SUBSET Conn]
    BY DEF TypeOK, FanOut
<1> QED
    BY <1>2, <1>3

\* A drop keeps the types of the peers and of the counts.
LEMMA DropType ==
    ASSUME TypeOK, NEW r, NEW D \in SUBSET Conn
    PROVE  /\ Without(r, D) \in [Conn -> SUBSET Conn]
           /\ Uncharged(r, D) \in [Ip -> Nat]
<1>1. Without(r, D) \in [Conn -> SUBSET Conn]
    BY DEF TypeOK, Without
<1>2. \A i \in Ip : IsFiniteSet({p \in D \cap peers[r] : IpOf[p] = i})
    BY ConstantsAssumption, FS_Subset DEF ConstantsAssumption
<1> DEFINE n(i) == Cardinality({p \in D \cap peers[r] : IpOf[p] = i})
<1>3. \A i \in Ip : n(i) \in Nat
    BY <1>2, FS_CardinalityType
<1>4. \A i \in Ip : (IF ipConns[i] > n(i) THEN ipConns[i] - n(i) ELSE 0) \in Nat
  <2> HIDE DEF n
  <2> QED  BY <1>3 DEF TypeOK
<1>5. Uncharged(r, D) = [i \in Ip |-> IF ipConns[i] > n(i) THEN ipConns[i] - n(i) ELSE 0]
    BY DEF Uncharged
<1>6. Uncharged(r, D) \in [Ip -> Nat]
  <2> HIDE DEF n
  <2> QED  BY <1>4, <1>5
<1> QED
    BY <1>1, <1>6

\* The types of what an entry changes.
EntryTypes ==
    /\ rooms' \in [Hash -> Conn \cup {None}]
    /\ peers' \in [Conn -> SUBSET Conn]
    /\ ipConns' \in [Ip -> Nat]
    /\ auth' \in [Conn -> Token \cup {None}]
    /\ evict' \in [Conn -> Conn \cup {None}]
    /\ timer' \in [Conn -> -1..RoomTTL]
    /\ idle' \in [Conn -> 0..RoomTTL]
    /\ writes' \in [Conn -> Seq(Frame)]
    /\ line' \in [Conn -> Lines]
    /\ room' \in [Conn -> Conn \cup {None}]
    /\ pc' \in [Conn -> Places]

\* Where an entry leaves connection c, given the lines l: refused or in a room.
EntryPlaces(c, l) ==
    /\ \A d \in Conn \ {c} : room'[d] = room[d] /\ line'[d] = l[d] /\ pc'[d] = pc[d]
    /\ \/ room'[c] = room[c] /\ line'[c] = l[c] /\ pc'[c] = "ended"
       \/ room'[c] \in Conn /\ pc'[c] = "welcome"

\* A join that is past its lookup keeps the types of what it changes.
LEMMA EnterType ==
    ASSUME TypeOK, NEW c \in Conn, NEW h \in Hash,
           NEW table \in [Hash -> Conn \cup {None}],
           NEW l \in [Conn -> Lines],
           NEW P \in [Conn -> SUBSET Conn], NEW N \in [Ip -> Nat],
           Enter(c, h, table, l, P, N)
    PROVE  EntryTypes /\ EntryPlaces(c, l)
<1> DEFINE r == IF table[h] = None THEN c ELSE table[h]
<1>1. r \in Conn
    OBVIOUS
<1>2. Welcome(c, r, P[r]) \in Frame
  <2>1. Roster(P[r] \cup {c}) \in SUBSET PeerId
      BY <1>1, RosterType
  <2>2. last[r] \in Nat /\ <<c, "serve">> \in Task
      BY <1>1 DEF TypeOK, Task
  <2> QED
      BY <2>1, <2>2 DEF Welcome, Frame
<1>3. CASE UNCHANGED <<auth, evict, timer, idle, room, writes>>
           /\ rooms' = table /\ peers' = P /\ ipConns' = N /\ line' = l
           /\ pc' = [pc EXCEPT ![c] = "ended"]
    BY <1>3, Named DEF TypeOK, EntryTypes, EntryPlaces
<1>4. CASE /\ rooms' = [table EXCEPT ![h] = r]
           /\ auth' = IF P[r] = {} THEN [auth EXCEPT ![r] = TokenOf[c]] ELSE auth
           /\ Awaken(r)
           /\ idle' = [idle EXCEPT ![r] = 0]
           /\ peers' = [P EXCEPT ![r] = @ \cup {c}]
           /\ ipConns' = [i \in Ip |-> IF i = IpOf[c] THEN N[i] + 1 ELSE N[i]]
           /\ room' = [room EXCEPT ![c] = r]
           /\ line' = [l EXCEPT ![c] = IF KindOf[c] = "ws" THEN "up" ELSE "opening"]
           /\ writes' = [writes EXCEPT ![c] = Append(@, Welcome(c, r, P[r]))]
           /\ pc' = [pc EXCEPT ![c] = "welcome"]
  <2> HIDE DEF r
  <2>1. rooms' \in [Hash -> Conn \cup {None}] /\ peers' \in [Conn -> SUBSET Conn]
      BY <1>1, <1>4
  <2>2. auth' \in [Conn -> Token \cup {None}]
      BY <1>1, <1>4, ConstantsAssumption DEF TypeOK, ConstantsAssumption
  <2>3. evict' \in [Conn -> Conn \cup {None}] /\ timer' \in [Conn -> -1..RoomTTL]
    <3>1. evict \in [Conn -> Conn \cup {None}] /\ timer \in [Conn -> -1..RoomTTL]
        BY DEF TypeOK
    <3>2. -1 \in -1..RoomTTL
        BY ConstantsAssumption DEF ConstantsAssumption
    <3>3. Awaken(r)
        BY <1>4
    <3> QED
        BY <3>1, <3>2, <3>3 DEF Awaken
  <2>4. idle' \in [Conn -> 0..RoomTTL]
      BY <1>1, <1>4, ConstantsAssumption DEF TypeOK, ConstantsAssumption
  <2>5. ipConns' \in [Ip -> Nat]
      BY <1>4
  <2>6. writes' \in [Conn -> Seq(Frame)]
    <3>1. Append(writes[c], Welcome(c, r, P[r])) \in Seq(Frame)
        BY <1>2 DEF TypeOK
    <3> QED
        BY <1>4, <3>1 DEF TypeOK
  <2>7. /\ room' \in [Conn -> Conn \cup {None}]
        /\ pc' \in [Conn -> Places]
      BY <1>1, <1>4, Named DEF TypeOK
  <2>8. line' \in [Conn -> Lines]
      BY <1>4, Named
  <2>9. EntryPlaces(c, l)
      BY <1>1, <1>4 DEF TypeOK, EntryPlaces
  <2> QED
      BY <2>1, <2>2, <2>3, <2>4, <2>5, <2>6, <2>7, <2>8, <2>9 DEF EntryTypes
<1> QED
    BY <1>3, <1>4 DEF Enter

-----------------------------------------------------------------------------
(* The type invariant, one lemma per part of the relay *)

\* Each way of joining preserves the type invariant.
LEMMA JoinTypes ==
    ASSUME TypeInv, NEW c \in Conn, NEW h \in Hash,
           JoinRefused(c, h) \/ Join(c, h) \/ JoinExpired(c, h)
    PROVE  TypeInv'
<1> USE DEF TypeInv, tables, clipVars, roomVars, connVars, coVars, wireVars, clientVars,
            retireVars
<1>1. CASE JoinRefused(c, h)
  <2>1. TypeOK'
      BY <1>1, Named, SMTT(30) DEF TypeOK, JoinRefused
  <2>2. Placed'
      BY <1>1 DEF TypeOK, Placed, JoinRefused
  <2>3. Underway'
      BY <1>1 DEF TypeOK, Underway, JoinRefused
  <2> QED
      BY <2>1, <2>2, <2>3
<1>2. CASE JoinExpired(c, h)
  <2>1. TypeOK'
    <3>1. /\ at' = [at EXCEPT ![c] = h] /\ pc' = [pc EXCEPT ![c] = "retiring"]
          /\ retiring' = [retiring EXCEPT ![c] = rooms[h]]
          /\ todo' = [todo EXCEPT ![c] = peers[rooms[h]]] /\ rooms[h] # None
          /\ UNCHANGED <<tables, clipVars, roomVars, room, id, line, posting, leave,
                         wireVars, clientVars, sweep, expired, frames>>
        BY <1>2 DEF JoinExpired
    <3>2. at' \in [Conn -> Hash \cup {None}] /\ pc' \in [Conn -> Places]
        BY <3>1, Named DEF TypeOK
    <3>3. rooms[h] \in Conn /\ peers[rooms[h]] \in SUBSET Conn
        BY <3>1 DEF TypeOK
    <3>4. retiring' \in [Actor -> Conn \cup {None}]
        BY <3>1, <3>3, ActorsAre DEF TypeOK
    <3>5. todo' \in [Actor -> SUBSET Conn]
        BY <3>1, <3>3, ActorsAre DEF TypeOK
    <3> QED
        BY <3>1, <3>2, <3>4, <3>5 DEF TypeOK
  <2>2. Placed'
      BY <1>2 DEF TypeOK, Placed, JoinExpired
  <2>3. \A a \in Actor : todo'[a] # {} => retiring'[a] # None
      BY <1>2 DEF TypeOK, Underway, JoinExpired
  <2>4. \A d \in Conn : /\ todo'[d] # {} => pc'[d] = "retiring"
                        /\ pc'[d] = "retiring" => at'[d] # None
    <3>1. \A d \in Conn \ {c} : todo'[d] = todo[d] /\ pc'[d] = pc[d] /\ at'[d] = at[d]
        BY <1>2, ActorsAre DEF TypeOK, JoinExpired
    <3>2. pc'[c] = "retiring" /\ at'[c] # None
        BY <1>2, ActorsAre DEF TypeOK, JoinExpired
    <3> QED
        BY <3>1, <3>2 DEF Underway
  <2> QED
      BY <2>1, <2>2, <2>3, <2>4 DEF Underway
<1>3. CASE Join(c, h)
  <2> DEFINE stale == rooms[h] # None /\ expired[rooms[h]]
             table == IF stale THEN Forget(rooms[h]) ELSE rooms
  <2>1. table \in [Hash -> Conn \cup {None}]
      BY DEF TypeOK, Forget, Forgotten
  <2>2. Enter(c, h, table, line, peers, ipConns)
      BY <1>3 DEF Join
  <2>3. last' \in [Conn -> Nat]
      BY <1>3 DEF Join, TypeOK
  <2> HIDE DEF table
  <2>4. line \in [Conn -> Lines]
        /\ peers \in [Conn -> SUBSET Conn] /\ ipConns \in [Ip -> Nat]
      BY DEF TypeOK
  <2>5. EntryTypes /\ EntryPlaces(c, line)
      BY <2>1, <2>2, <2>4, EnterType
  <2>6. UNCHANGED <<seq, author, id, posting, leave, bad, told, held, retiring, todo, sweep,
                    expired, frames>> /\ at' = [at EXCEPT ![c] = h] /\ pc[c] = "new"
      BY <1>3 DEF Join
  <2>7. TypeOK'
      BY <2>3, <2>5, <2>6 DEF TypeOK, EntryTypes
  <2>8. Placed'
      BY <2>5, <2>6, ConstantsAssumption
      DEF Placed, EntryPlaces, ConstantsAssumption
  <2>9. Underway'
      BY <2>5, <2>6, ConstantsAssumption
      DEF TypeOK, Underway, EntryPlaces, ConstantsAssumption
  <2> QED
      BY <2>7, <2>8, <2>9
<1> QED
    BY <1>1, <1>2, <1>3

\* So does each way a write to a peer ends, and each frame handled.
LEMMA WriteTypes ==
    ASSUME TypeInv, NEW p \in Conn, Deliver(p) \/ Lost(p) \/ WriteFails(p)
    PROVE  TypeInv'
<1> USE DEF TypeInv, tables, clipVars, roomVars, connVars, coVars, wireVars, clientVars,
            retireVars
<1> DEFINE f == Head(writes[p])
<1>1. f \in Frame /\ Tail(writes[p]) \in Seq(Frame)
    BY DEF TypeOK, Deliver, Lost, WriteFails
<1>2. writes' \in [Conn -> Seq(Frame)]
  <2>1. writes \in [Conn -> Seq(Frame)]
      BY DEF TypeOK
  <2>2. writes' = [writes EXCEPT ![p] = Tail(writes[p])]
      BY DEF Deliver, Lost, WriteFails
  <2> QED
      BY <1>1, <2>1, <2>2
<1>3. f.list \in SUBSET PeerId /\ f.n \in Nat /\ f.by \in Task
    BY <1>1 DEF Frame
<1> HIDE DEF f
<1>4. told' \in [Conn -> SUBSET PeerId] /\ held' \in [Conn -> Nat]
  <2>1. CASE Deliver(p)
      BY <1>3, <2>1 DEF TypeOK, Deliver, f
  <2>2. CASE Lost(p) \/ WriteFails(p)
      BY <2>2 DEF TypeOK, Lost, WriteFails
  <2> QED
      BY <2>1, <2>2
<1>5. bad' \in [Task -> SUBSET Conn]
  <2>1. CASE WriteFails(p)
      BY <1>3, <2>1 DEF TypeOK, WriteFails, f
  <2>2. CASE Deliver(p) \/ Lost(p)
      BY <2>2 DEF TypeOK, Lost, Deliver
  <2> QED
      BY <2>1, <2>2
<1>6. UNCHANGED <<tables, clipVars, roomVars, connVars, coVars, retireVars, frames>>
    BY DEF Deliver, Lost, WriteFails
<1>7. TypeOK'
    BY <1>2, <1>4, <1>5, <1>6 DEF TypeOK
<1>8. Placed' /\ Underway'
    BY <1>6 DEF Placed, Underway
<1> QED
    BY <1>7, <1>8

\* A handler that is being served is in a room.
LEMMA Served ==
    ASSUME TypeInv, NEW c \in Conn,
           \/ pc[c] \notin {"new", "retiring", "ended"}
           \/ leave[c] # "no"
           \/ line[c] # "down"
           \/ posting[c]
    PROVE  /\ room[c] \in Conn /\ pc[c] \notin {"new", "retiring"}
           /\ \A D \in SUBSET Conn : peers[room[c]] \ D \in SUBSET Conn
           /\ \A x \in {"serve", "leave"} : <<c, x>> \in Task
BY DEF TypeInv, TypeOK, Placed, Task

\* What leaves rooms, lines and retirements alone keeps connections placed.
LEMMA StaysPlaced ==
    ASSUME TypeInv, NEW c \in Conn, room[c] # None,
           pc' = pc \/ \E x \in {"read", "fanout", "forward", "answer", "rename", "ended"} :
                        pc' = [pc EXCEPT ![c] = x],
           leave' = leave \/ \E x : leave' = [leave EXCEPT ![c] = x],
           line' = line \/ \E x : line' = [line EXCEPT ![c] = x],
           posting' = posting \/ \E x : posting' = [posting EXCEPT ![c] = x],
           UNCHANGED <<at, room, retiring, todo>>
    PROVE  Placed' /\ Underway'
<1>a. /\ pc \in [Conn -> Places] /\ leave \in [Conn -> {"no", "due", "fanout", "done"}]
      /\ line \in [Conn -> Lines] /\ posting \in [Conn -> BOOLEAN]
    BY DEF TypeInv, TypeOK
<1>1. \A d \in Conn \ {c} : /\ room'[d] = room[d] /\ pc'[d] = pc[d] /\ leave'[d] = leave[d]
                            /\ line'[d] = line[d] /\ posting'[d] = posting[d]
  <2>1. \A d \in Conn \ {c} : pc'[d] = pc[d]
      BY <1>a
  <2>2. \A d \in Conn \ {c} : leave'[d] = leave[d]
      BY <1>a
  <2>3. \A d \in Conn \ {c} : line'[d] = line[d]
      BY <1>a
  <2>4. \A d \in Conn \ {c} : posting'[d] = posting[d]
      BY <1>a
  <2> QED
      BY <2>1, <2>2, <2>3, <2>4
<1>2. room'[c] # None /\ pc'[c] \notin {"new", "retiring"} /\ todo[c] = {}
    BY DEF TypeInv, TypeOK, Placed, Underway
<1>3. Placed'
    BY <1>1, <1>2 DEF TypeInv, Placed
<1>4. Underway'
    BY <1>1, <1>2 DEF TypeInv, Underway
<1> QED
    BY <1>3, <1>4

\* Inbound frames and the fan-outs of a handler.
LEMMA ServeTypes ==
    ASSUME TypeInv, NEW c \in Conn,
           \/ Welcomed(c) \/ FanOutDone(c) \/ PostBegins(c) \/ PostEnds(c) \/ Clip(c)
           \/ RoomWide(c) \/ \E p \in Conn : Forward(c, p)
           \/ ForwardDone(c) \/ Answer(c) \/ Answered(c)
           \/ \E wanted \in OriginId \cup {id[c]} : Hello(c, wanted)
           \/ \E wanted \in OriginId, renamed \in BOOLEAN : HelloTaken(c, wanted, renamed)
    PROVE  TypeInv'
<1> USE DEF TypeInv, tables, clipVars, roomVars, connVars, coVars, wireVars, clientVars,
            retireVars
<1> DEFINE k == <<c, "serve">>
           r == room[c]
<1>s. /\ r \in Conn /\ k \in Task /\ peers[r] \in SUBSET Conn
      /\ pc[c] \notin {"new", "retiring"} /\ k[1] = c
    BY Served DEF Welcomed, FanOutDone, PostBegins, PostEnds, Clip, RoomWide, Forward,
                  ForwardDone, Answer, Answered, Hello, HelloTaken, Reading, TypeOK
<1>a. \A T : After(T) \in {"read", "fanout"} /\ After(T) \in Places
    BY DEF After, Places
<1>b. \A T \in SUBSET Conn, f \in Frame :
         FanOut(k, T, f) => /\ writes' \in [Conn -> Seq(Frame)]
                            /\ bad' \in [Task -> SUBSET Conn]
    BY <1>s, FanOutType
<1>c. \A D \in SUBSET Conn : Drop(r, D) => /\ peers' \in [Conn -> SUBSET Conn]
                                           /\ ipConns' \in [Ip -> Nat]
    BY DropType DEF Drop
<1>d. /\ bad[k] \in SUBSET Conn
      /\ \A P \in SUBSET Conn : PeersFrame(k, Roster(P)) \in Frame
      /\ \A t \in {"wide", "direct"} : StampedFrame(k, t) \in Frame
      /\ ReplyFrame(k) \in Frame
  <2>1. bad[k] \in SUBSET Conn
      BY <1>s DEF TypeOK
  <2>2. 0 \in Nat /\ {} \in SUBSET PeerId
      OBVIOUS
  <2>3. \A P \in SUBSET Conn : PeersFrame(k, Roster(P)) \in Frame
      BY <1>s, <2>2, FrameType, RosterType
  <2>4. \A t \in {"wide", "direct"} : StampedFrame(k, t) \in Frame
      BY <1>s, <2>2, FrameType
  <2>5. ReplyFrame(k) \in Frame
      BY <1>s, <2>2, FrameType
  <2> QED
      BY <2>1, <2>3, <2>4, <2>5
<1> HIDE DEF k, r
<1>1. CASE Welcomed(c)
  <2>1. FanOut(k, peers[r] \ {c}, PeersFrame(k, Roster(peers[r])))
      BY <1>1 DEF Welcomed, k, r
  <2>2. peers[r] \ {c} \in SUBSET Conn /\ PeersFrame(k, Roster(peers[r])) \in Frame
      BY <1>1, <1>s, <1>d
  <2>3. writes' \in [Conn -> Seq(Frame)] /\ bad' \in [Task -> SUBSET Conn]
      BY <2>1, <2>2, <1>b
  <2>4. pc' \in [Conn -> Places] /\ frames' \in Nat
      BY <1>1, <1>a, Named DEF Welcomed, TypeOK
  <2>5. TypeOK'
      BY <1>1, <1>s, <1>a, <2>3, <2>4 DEF Welcomed, TypeOK, r
  <2>6. Placed' /\ Underway'
      BY <1>1, <1>s, <1>a, StaysPlaced, ConstantsAssumption
      DEF Welcomed, k, r, ConstantsAssumption
  <2> QED
      BY <2>5, <2>6
<1>2. CASE FanOutDone(c)
  <2>1. pc' \in [Conn -> Places] /\ frames' \in Nat
      BY <1>2, Named DEF FanOutDone, TypeOK
  <2>2. TypeOK'
      BY <1>2, <1>s, <2>1, <1>c, <1>d DEF FanOutDone, TypeOK, k, r
  <2>3. Placed' /\ Underway'
      BY <1>2, <1>s, StaysPlaced, ConstantsAssumption
      DEF FanOutDone, k, r, ConstantsAssumption
  <2> QED
      BY <2>2, <2>3
<1>3. CASE PostBegins(c)
  <2>1. pc' \in [Conn -> Places] /\ frames' \in Nat
      BY <1>3, Named DEF PostBegins, TypeOK
  <2>2. TypeOK'
      BY <1>3, <1>s, <2>1 DEF PostBegins, TypeOK, k, r
  <2>3. Placed' /\ Underway'
      BY <1>3, <1>s, StaysPlaced, ConstantsAssumption
      DEF PostBegins, k, r, ConstantsAssumption
  <2> QED
      BY <2>2, <2>3
<1>4. CASE PostEnds(c)
  <2>1. pc' \in [Conn -> Places] /\ frames' \in Nat
      BY <1>4, Named DEF PostEnds, TypeOK
  <2>2. TypeOK'
      BY <1>4, <1>s, <2>1 DEF PostEnds, TypeOK, k, r
  <2>3. Placed' /\ Underway'
      BY <1>4, <1>s, StaysPlaced, ConstantsAssumption
      DEF PostEnds, k, r, ConstantsAssumption
  <2> QED
      BY <2>2, <2>3
<1>5. CASE Clip(c)
  <2>a. /\ seq[r] + 1 \in Nat
        /\ seq' \in [Conn -> Nat] /\ last' \in [Conn -> Nat] /\ held' \in [Conn -> Nat]
        /\ author' \in [Conn -> Conn \cup {None}]
    <3>1. /\ seq \in [Conn -> Nat] /\ last \in [Conn -> Nat] /\ held \in [Conn -> Nat]
          /\ author \in [Conn -> Conn \cup {None}]
        BY DEF TypeOK
    <3>2. /\ seq' = [seq EXCEPT ![r] = seq[r] + 1] /\ last' = [last EXCEPT ![r] = seq[r] + 1]
          /\ held' = [held EXCEPT ![c] = seq[r] + 1] /\ author' = [author EXCEPT ![r] = c]
        BY <1>5 DEF Clip, r
    <3> HIDE DEF r
    <3>3. seq[r] + 1 \in Nat
        BY <1>s, <3>1
    <3>4. seq' \in [Conn -> Nat] /\ last' \in [Conn -> Nat]
        BY <3>1, <3>2, <3>3
    <3>5. held' \in [Conn -> Nat] /\ author' \in [Conn -> Conn \cup {None}]
        BY <3>1, <3>2, <3>3
    <3> QED
        BY <3>3, <3>4, <3>5
  <2>1. FanOut(k, peers[r] \ {c}, ClipFrame(k, seq[r] + 1))
      BY <1>5 DEF Clip, k, r
  <2>2. peers[r] \ {c} \in SUBSET Conn /\ ClipFrame(k, seq[r] + 1) \in Frame
      BY <1>5, <1>s, <2>a, FrameType
  <2>3. writes' \in [Conn -> Seq(Frame)] /\ bad' \in [Task -> SUBSET Conn]
      BY <2>1, <2>2, <1>b
  <2>4. pc' \in [Conn -> Places] /\ frames' \in Nat
      BY <1>5, <1>a, Named DEF Clip, TypeOK
  <2>5. TypeOK'
      BY <1>5, <1>s, <1>a, <2>3, <2>4, <2>a DEF Clip, TypeOK, r
  <2>6. Placed' /\ Underway'
      BY <1>5, <1>s, <1>a, StaysPlaced, ConstantsAssumption
      DEF Clip, k, r, ConstantsAssumption
  <2> QED
      BY <2>5, <2>6
<1>6. CASE RoomWide(c)
  <2>1. FanOut(k, peers[r] \ {c}, StampedFrame(k, "wide"))
      BY <1>6 DEF RoomWide, k, r
  <2>2. peers[r] \ {c} \in SUBSET Conn /\ StampedFrame(k, "wide") \in Frame
      BY <1>6, <1>s, <1>d
  <2>3. writes' \in [Conn -> Seq(Frame)] /\ bad' \in [Task -> SUBSET Conn]
      BY <2>1, <2>2, <1>b
  <2>4. pc' \in [Conn -> Places] /\ frames' \in Nat
      BY <1>6, <1>a, Named DEF RoomWide, TypeOK
  <2>5. TypeOK'
      BY <1>6, <1>s, <1>a, <2>3, <2>4 DEF RoomWide, TypeOK, r
  <2>6. Placed' /\ Underway'
      BY <1>6, <1>s, <1>a, StaysPlaced, ConstantsAssumption
      DEF RoomWide, k, r, ConstantsAssumption
  <2> QED
      BY <2>5, <2>6
<1>7. ASSUME NEW p \in Conn, Forward(c, p)
      PROVE  TypeInv'
  <2>1. FanOut(k, {p}, StampedFrame(k, "direct"))
      BY <1>7 DEF Forward, k, r
  <2>2. {p} \in SUBSET Conn /\ StampedFrame(k, "direct") \in Frame
      BY <1>7, <1>s, <1>d
  <2>3. writes' \in [Conn -> Seq(Frame)] /\ bad' \in [Task -> SUBSET Conn]
      BY <2>1, <2>2, <1>b
  <2>4. pc' \in [Conn -> Places] /\ frames' \in Nat
      BY <1>7, Named DEF Forward, TypeOK
  <2>5. TypeOK'
      BY <1>7, <1>s, <2>3, <2>4 DEF Forward, TypeOK, r
  <2>6. Placed' /\ Underway'
      BY <1>7, <1>s, StaysPlaced, ConstantsAssumption
      DEF Forward, k, r, ConstantsAssumption
  <2> QED
      BY <2>5, <2>6
<1>8. CASE ForwardDone(c)
  <2>1. Drop(r, bad[k])
      BY <1>8 DEF ForwardDone, k, r
  <2>2. peers' \in [Conn -> SUBSET Conn] /\ ipConns' \in [Ip -> Nat]
      BY <2>1, <1>c, <1>d
  <2>3. CASE bad[k] = {}
    <3>p. pc' \in [Conn -> Places]
        BY <1>8, <2>3, Named DEF ForwardDone, TypeOK, k
    <3>1. TypeOK'
        BY <1>8, <2>2, <2>3, <3>p DEF ForwardDone, TypeOK, k
    <3>2. Placed' /\ Underway'
        BY <1>8, <1>s, <2>3, StaysPlaced, ConstantsAssumption
        DEF ForwardDone, k, r, ConstantsAssumption
    <3> QED
        BY <3>1, <3>2
  <2>4. CASE bad[k] # {}
    <3>1. FanOut(k, peers[r] \ bad[k], PeersFrame(k, Roster(peers[r] \ bad[k])))
        BY <1>8, <2>4 DEF ForwardDone, k, r
    <3>2. writes' \in [Conn -> Seq(Frame)] /\ bad' \in [Task -> SUBSET Conn]
        BY <1>s, <3>1, <1>b, <1>d
    <3>q. pc' = [pc EXCEPT ![c] = After(peers[r] \ bad[k])]
        BY <1>8, <2>4 DEF ForwardDone, k, r
    <3>p. pc' \in [Conn -> Places]
        BY <1>a, <3>q DEF TypeOK
    <3>3. TypeOK'
        BY <1>8, <2>2, <2>4, <3>2, <3>p DEF ForwardDone, TypeOK, k
    <3>4. Placed' /\ Underway'
        BY <1>8, <1>s, <1>a, <2>4, StaysPlaced, ConstantsAssumption
        DEF ForwardDone, k, r, ConstantsAssumption
    <3> QED
        BY <3>3, <3>4
  <2> QED
      BY <2>3, <2>4
<1>9. CASE Answer(c)
  <2>1. FanOut(k, {c}, ReplyFrame(k))
      BY <1>9 DEF Answer, k, r
  <2>2. {c} \in SUBSET Conn /\ ReplyFrame(k) \in Frame
      BY <1>9, <1>s, <1>d
  <2>3. writes' \in [Conn -> Seq(Frame)] /\ bad' \in [Task -> SUBSET Conn]
      BY <2>1, <2>2, <1>b
  <2>4. pc' \in [Conn -> Places] /\ frames' \in Nat
      BY <1>9, Named DEF Answer, TypeOK
  <2>5. TypeOK'
    <3>1. UNCHANGED <<tables, clipVars, roomVars, connVars, leave, clientVars, retireVars>>
        BY <1>9 DEF Answer
    <3> QED
        BY <2>3, <2>4, <3>1 DEF TypeOK, tables, clipVars, roomVars, connVars, clientVars, retireVars
  <2>6. Placed' /\ Underway'
      BY <1>9, <1>s, StaysPlaced, ConstantsAssumption
      DEF Answer, k, r, ConstantsAssumption
  <2> QED
      BY <2>5, <2>6
<1>10. CASE Answered(c)
  <2>1. CASE pc[c] = "answer"
    <3>p. pc' \in [Conn -> Places]
        BY <1>10, <2>1, Named DEF Answered, TypeOK
    <3>1. TypeOK'
      <4>1. UNCHANGED <<tables, clipVars, roomVars, connVars, leave, writes, clientVars,
                        retireVars, frames>>
          BY <1>10, <2>1 DEF Answered
      <4>2. bad' = [bad EXCEPT ![k] = {}]
          BY <1>10, <2>1 DEF Answered, k
      <4>3. bad' \in [Task -> SUBSET Conn]
          BY <4>2 DEF TypeOK
      <4> QED
          BY <3>p, <4>1, <4>3 DEF TypeOK
    <3>2. Placed' /\ Underway'
        BY <1>10, <1>s, <2>1, StaysPlaced, ConstantsAssumption
        DEF Answered, r, ConstantsAssumption
    <3> QED
        BY <3>1, <3>2
  <2>2. CASE pc[c] = "rename"
    <3>1. FanOut(k, peers[r], PeersFrame(k, Roster(peers[r])))
        BY <1>10, <2>2 DEF Answered, k, r
    <3>2. writes' \in [Conn -> Seq(Frame)] /\ bad' \in [Task -> SUBSET Conn]
        BY <1>s, <3>1, <1>b, <1>d
    <3>q. pc' = [pc EXCEPT ![c] = After(peers[r])]
        BY <1>10, <2>2 DEF Answered, r
    <3>p. pc' \in [Conn -> Places]
        BY <1>a, <3>q DEF TypeOK
    <3>3. TypeOK'
      <4>1. UNCHANGED <<tables, clipVars, roomVars, connVars, leave, clientVars,
                        retireVars, frames>>
          BY <1>10, <2>2 DEF Answered
      <4> QED
          BY <3>2, <3>p, <4>1 DEF TypeOK
    <3>4. Placed' /\ Underway'
        BY <1>10, <1>s, <1>a, <2>2, StaysPlaced, ConstantsAssumption
        DEF Answered, r, ConstantsAssumption
    <3> QED
        BY <3>3, <3>4
  <2> QED
      BY <1>10, <2>1, <2>2 DEF Answered
<1>11. ASSUME NEW w \in OriginId \cup {id[c]}, Hello(c, w)
      PROVE  TypeInv'
  <2>1. id' \in [Conn -> PeerId]
      BY <1>11 DEF Hello, TypeOK, PeerId
  <2>2. PeersFrame(k, {id'[p] : p \in peers[r]}) \in Frame
    <3>1. {id'[p] : p \in peers[r]} \in SUBSET PeerId
        BY <1>s, <2>1
    <3> QED
        BY <1>s, <3>1, FrameType
  <2>3. FanOut(k, peers[r], PeersFrame(k, {id'[p] : p \in peers[r]}))
      BY <1>11 DEF Hello, k, r
  <2>4. writes' \in [Conn -> Seq(Frame)] /\ bad' \in [Task -> SUBSET Conn]
      BY <1>s, <2>2, <2>3, <1>b
  <2>p. pc' \in [Conn -> Places] /\ frames' \in Nat
      BY <1>11, <1>a DEF Hello, TypeOK
  <2>5. TypeOK'
      BY <1>11, <2>1, <2>4, <2>p DEF Hello, TypeOK
  <2>6. Placed' /\ Underway'
      BY <1>11, <1>s, <1>a, StaysPlaced, ConstantsAssumption
      DEF Hello, r, ConstantsAssumption
  <2> QED
      BY <2>5, <2>6
<1>12. ASSUME NEW w \in OriginId, NEW renamed \in BOOLEAN, HelloTaken(c, w, renamed)
      PROVE  TypeInv'
  <2>1. FanOut(k, {c}, ReplyFrame(k))
      BY <1>12 DEF HelloTaken, k, r
  <2>2. {c} \in SUBSET Conn /\ ReplyFrame(k) \in Frame
      BY <1>12, <1>s, <1>d
  <2>3. writes' \in [Conn -> Seq(Frame)] /\ bad' \in [Task -> SUBSET Conn]
      BY <2>1, <2>2, <1>b
  <2>4. pc' \in [Conn -> Places] /\ frames' \in Nat
      BY <1>12, Named DEF HelloTaken, TypeOK
  <2>5. TypeOK'
      BY <1>12, <1>s, <2>3, <2>4 DEF HelloTaken, TypeOK, r
  <2>6. Placed' /\ Underway'
      BY <1>12, <1>s, StaysPlaced, ConstantsAssumption
      DEF HelloTaken, k, r, ConstantsAssumption
  <2> QED
      BY <2>5, <2>6
<1> QED
    BY <1>1, <1>2, <1>3, <1>4, <1>5, <1>6, <1>7, <1>8, <1>9, <1>10, <1>11, <1>12

\* The ways out of a connection.
LEMMA LeaveTypes ==
    ASSUME TypeInv, NEW c \in Conn,
           \/ Vanish(c) \/ StreamOpens(c) \/ Depart(c) \/ StreamEnds(c)
           \/ StreamEnded(c) \/ DepartureAnnounced(c)
    PROVE  TypeInv'
<1> USE DEF TypeInv, tables, clipVars, roomVars, connVars, coVars, wireVars, clientVars,
            retireVars
<1> DEFINE k == <<c, "leave">>
           r == room[c]
<1>s. /\ r \in Conn /\ k \in Task /\ peers[r] \in SUBSET Conn /\ pc[c] \notin {"new", "retiring"}
    BY Served DEF Vanish, StreamOpens, Depart, StreamEnds, StreamEnded, DepartureAnnounced,
                  TypeOK
<1>a. \A P \in SUBSET Conn :
         AfterDeparture(c, P) => /\ writes' \in [Conn -> Seq(Frame)]
                                 /\ bad' \in [Task -> SUBSET Conn]
                                 /\ timer' \in [Conn -> -1..RoomTTL]
                                 /\ evict' \in [Conn -> Conn \cup {None}]
                                 /\ leave' \in [Conn -> {"no", "due", "fanout", "done"}]
                                 /\ \E x : leave' = [leave EXCEPT ![c] = x]
  <2> SUFFICES ASSUME NEW P \in SUBSET Conn, AfterDeparture(c, P)
               PROVE  /\ writes' \in [Conn -> Seq(Frame)] /\ bad' \in [Task -> SUBSET Conn]
                      /\ timer' \in [Conn -> -1..RoomTTL]
                      /\ evict' \in [Conn -> Conn \cup {None}]
                      /\ leave' \in [Conn -> {"no", "due", "fanout", "done"}]
                      /\ \E x : leave' = [leave EXCEPT ![c] = x]
      OBVIOUS
  <2>1. CASE P # {}
    <3>1. 0 \in Nat /\ PeersFrame(k, Roster(P)) \in Frame
        BY <1>s, FrameType, RosterType
    <3>2. FanOut(k, P, PeersFrame(k, Roster(P)))
        BY <2>1 DEF AfterDeparture
    <3>3. writes' \in [Conn -> Seq(Frame)] /\ bad' \in [Task -> SUBSET Conn]
        BY <1>s, <3>1, <3>2, FanOutType
    <3> QED
        BY <2>1, <3>3 DEF AfterDeparture, TypeOK
  <2>2. CASE P = {}
    <3>1. RoomTTL \in -1..RoomTTL
        BY ConstantsAssumption DEF ConstantsAssumption
    <3>2. /\ timer' = [timer EXCEPT ![c] = RoomTTL] /\ evict' = [evict EXCEPT ![r] = c]
          /\ leave' = [leave EXCEPT ![c] = "done"] /\ UNCHANGED wireVars
        BY <2>2 DEF AfterDeparture
    <3>3. timer' \in [Conn -> -1..RoomTTL]
        BY <3>1, <3>2 DEF TypeOK
    <3>4. evict' \in [Conn -> Conn \cup {None}]
        BY <3>2 DEF TypeOK
    <3> QED
        BY <3>2, <3>3, <3>4 DEF TypeOK
  <2> QED
      BY <2>1, <2>2
<1>c. \A D \in SUBSET Conn : Drop(r, D) => /\ peers' \in [Conn -> SUBSET Conn]
                                           /\ ipConns' \in [Ip -> Nat]
    BY DropType DEF Drop
<1>d. ForgetClient(c) => told' \in [Conn -> SUBSET PeerId] /\ held' \in [Conn -> Nat]
    BY DEF ForgetClient, TypeOK
<1> HIDE DEF k, r
<1>1. CASE Vanish(c)
  <2>l. line' \in [Conn -> Lines]
    <3>1. line \in [Conn -> Lines]
        BY DEF TypeOK
    <3>2. \E x \in Lines : line' = [line EXCEPT ![c] = x]
        BY <1>1, Named DEF Vanish
    <3> QED
        BY <3>1, <3>2
  <2>1. TypeOK'
      BY <1>1, <2>l DEF Vanish, TypeOK
  <2>2. Placed' /\ Underway'
      BY <1>1, <1>s, StaysPlaced, ConstantsAssumption DEF Vanish, r, ConstantsAssumption
  <2> QED
      BY <2>1, <2>2
<1>2. CASE StreamOpens(c)
  <2>l. line' \in [Conn -> Lines]
    <3>1. line \in [Conn -> Lines]
        BY DEF TypeOK
    <3>2. \E x \in Lines : line' = [line EXCEPT ![c] = x]
        BY <1>2, Named DEF StreamOpens
    <3> QED
        BY <3>1, <3>2
  <2>1. TypeOK'
      BY <1>2, <2>l DEF StreamOpens, TypeOK
  <2>2. Placed' /\ Underway'
      BY <1>2, <1>s, StaysPlaced, ConstantsAssumption DEF StreamOpens, r, ConstantsAssumption
  <2> QED
      BY <2>1, <2>2
<1>3. CASE Depart(c)
  <2>1. Drop(r, {c}) /\ AfterDeparture(c, peers[r] \ {c}) /\ ForgetClient(c)
      BY <1>3 DEF Depart, r
  <2>2. pc' \in [Conn -> Places] /\ line' \in [Conn -> Lines]
      BY <1>3, Named DEF Depart, TypeOK
  <2>3. peers[r] \ {c} \in SUBSET Conn
      BY <1>s
  <2>4. TypeOK'
    <3>1. peers' \in [Conn -> SUBSET Conn] /\ ipConns' \in [Ip -> Nat]
        BY <1>c, <2>1
    <3>2. told' \in [Conn -> SUBSET PeerId] /\ held' \in [Conn -> Nat]
        BY <1>d, <2>1
    <3>3. /\ writes' \in [Conn -> Seq(Frame)] /\ bad' \in [Task -> SUBSET Conn]
          /\ timer' \in [Conn -> -1..RoomTTL] /\ evict' \in [Conn -> Conn \cup {None}]
          /\ leave' \in [Conn -> {"no", "due", "fanout", "done"}]
        BY <1>a, <2>1, <2>3
    <3>4. UNCHANGED <<rooms, clipVars, auth, idle, at, room, id, posting, retireVars, frames>>
        BY <1>3 DEF Depart
    <3> QED
        BY <2>2, <3>1, <3>2, <3>3, <3>4 DEF TypeOK
  <2>5. Placed' /\ Underway'
    <3>1. \E x : leave' = [leave EXCEPT ![c] = x]
        BY <1>a, <2>1, <2>3
    <3> QED
        BY <1>3, <1>s, <3>1, StaysPlaced, ConstantsAssumption DEF Depart, r, ConstantsAssumption
  <2> QED
      BY <2>4, <2>5
<1>4. CASE StreamEnds(c)
  <2>1. Drop(r, {c}) /\ ForgetClient(c)
      BY <1>4 DEF StreamEnds, r
  <2>2. peers' \in [Conn -> SUBSET Conn] /\ ipConns' \in [Ip -> Nat]
        /\ told' \in [Conn -> SUBSET PeerId] /\ held' \in [Conn -> Nat]
      BY <1>c, <1>d, <2>1
  <2>3. /\ line' \in [Conn -> Lines] /\ writes' \in [Conn -> Seq(Frame)]
        /\ leave' \in [Conn -> {"no", "due", "fanout", "done"}]
      BY <1>4, Named DEF StreamEnds, TypeOK
  <2>4. TypeOK'
      BY <1>4, <2>2, <2>3 DEF StreamEnds, TypeOK
  <2>5. Placed' /\ Underway'
      BY <1>4, <1>s, StaysPlaced, ConstantsAssumption DEF StreamEnds, r, ConstantsAssumption
  <2> QED
      BY <2>4, <2>5
<1>5. CASE StreamEnded(c)
  <2>1. AfterDeparture(c, peers[r])
      BY <1>5 DEF StreamEnded, r
  <2>2. /\ writes' \in [Conn -> Seq(Frame)] /\ bad' \in [Task -> SUBSET Conn]
        /\ timer' \in [Conn -> -1..RoomTTL] /\ evict' \in [Conn -> Conn \cup {None}]
        /\ leave' \in [Conn -> {"no", "due", "fanout", "done"}]
        /\ \E x : leave' = [leave EXCEPT ![c] = x]
      BY <1>s, <1>a, <2>1
  <2>3. TypeOK'
      BY <1>5, <2>2 DEF StreamEnded, TypeOK
  <2>4. Placed' /\ Underway'
      BY <1>5, <1>s, <2>2, StaysPlaced, ConstantsAssumption
      DEF StreamEnded, r, ConstantsAssumption
  <2> QED
      BY <2>3, <2>4
<1>6. CASE DepartureAnnounced(c)
  <2>1. Drop(r, bad[k])
      BY <1>6 DEF DepartureAnnounced, r, k
  <2>2. peers' \in [Conn -> SUBSET Conn] /\ ipConns' \in [Ip -> Nat]
      BY <1>s, <1>c, <2>1 DEF TypeOK
  <2>3. TypeOK'
      BY <1>6, <2>2 DEF DepartureAnnounced, TypeOK
  <2>4. Placed' /\ Underway'
      BY <1>6, <1>s, StaysPlaced, ConstantsAssumption
      DEF DepartureAnnounced, r, ConstantsAssumption
  <2> QED
      BY <2>3, <2>4
<1> QED
    BY <1>1, <1>2, <1>3, <1>4, <1>5, <1>6

\* The ways out of a room: time, its TTL, its lifetime.
LEMMA ClockTypes ==
    ASSUME TypeInv,
           \/ Tick
           \/ \E c \in Conn : Evict(c) \/ Expire(c)
    PROVE  TypeInv'
<1> USE DEF TypeInv, tables, clipVars, roomVars, connVars, coVars, wireVars, clientVars,
            retireVars
<1>1. CASE Tick
  <2>1. timer' \in [Conn -> -1..RoomTTL] /\ idle' \in [Conn -> 0..RoomTTL]
      BY <1>1, ConstantsAssumption DEF Tick, TypeOK, ConstantsAssumption
  <2> QED
      BY <1>1, <2>1 DEF Tick, TypeOK, Placed, Underway
<1>2. ASSUME NEW c \in Conn, Evict(c)
      PROVE  TypeInv'
  <2>1. timer' \in [Conn -> -1..RoomTTL]
      BY <1>2, ConstantsAssumption DEF Evict, TypeOK, ConstantsAssumption
  <2>2. rooms' \in [Hash -> Conn \cup {None}]
      BY <1>2 DEF Evict, TypeOK, Forget, Forgotten
  <2> QED
      BY <1>2, <2>1, <2>2 DEF Evict, TypeOK, Placed, Underway
<1>3. ASSUME NEW c \in Conn, Expire(c)
      PROVE  TypeInv'
    BY <1>3 DEF Expire, TypeOK, Placed, Underway
<1> QED
    BY <1>1, <1>2, <1>3

\* What the sweeper changes has its type, and the sweeper a room to retire.
LEMMA SweepOnTypes ==
    ASSUME TypeInv, NEW S \in SUBSET Conn, NEW table \in [Hash -> Conn \cup {None}],
           NEW L \in [Conn -> Nat], SweepOn(S, table, L)
    PROVE  /\ rooms' \in [Hash -> Conn \cup {None}] /\ last' \in [Conn -> Nat]
           /\ sweep' \in SUBSET Conn
           /\ \E r \in Conn \cup {None}, T \in SUBSET Conn :
                 /\ retiring' = [retiring EXCEPT ![Sweeper] = r]
                 /\ todo' = [todo EXCEPT ![Sweeper] = T]
                 /\ T # {} => r # None
<1>1. \A D : Skim(D, table, L) => /\ rooms' \in [Hash -> Conn \cup {None}]
                                 /\ last' \in [Conn -> Nat]
    BY DEF Skim, Forgotten
<1> DEFINE busy == {r \in S : expired[r] /\ peers[r] # {}}
<1>2. CASE /\ Skim(S, table, L) /\ sweep' = {}
           /\ retiring' = [retiring EXCEPT ![Sweeper] = None]
           /\ todo' = [todo EXCEPT ![Sweeper] = {}]
  <2>1. {} \in SUBSET Conn /\ None \in Conn \cup {None}
      OBVIOUS
  <2> QED
      BY <1>1, <1>2, <2>1
<1>3. ASSUME NEW r \in busy, NEW D \in SUBSET (S \ busy),
             Skim(D, table, L), sweep' = S \ (D \cup {r}),
             retiring' = [retiring EXCEPT ![Sweeper] = r],
             todo' = [todo EXCEPT ![Sweeper] = peers[r]]
      PROVE  /\ rooms' \in [Hash -> Conn \cup {None}] /\ last' \in [Conn -> Nat]
             /\ sweep' \in SUBSET Conn
             /\ \E q \in Conn \cup {None}, T \in SUBSET Conn :
                   /\ retiring' = [retiring EXCEPT ![Sweeper] = q]
                   /\ todo' = [todo EXCEPT ![Sweeper] = T]
                   /\ T # {} => q # None
  <2>1. r \in Conn /\ r # None /\ peers[r] \in SUBSET Conn
      BY ConstantsAssumption DEF TypeInv, TypeOK, ConstantsAssumption
  <2> QED
      BY <1>1, <1>3, <2>1
<1> QED
    BY <1>2, <1>3 DEF SweepOn

\* CutOff closes the line of a connection that has one.
LEMMA CutOffTypes ==
    ASSUME TypeInv, NEW p \in Conn
    PROVE  /\ CutOff(p) \in [Conn -> Lines]
           /\ \A d \in Conn : room[d] = None => CutOff(p)[d] = line[d]
<1>1. CASE line[p] \in {"opening", "up"}
  <2>1. CutOff(p) = [line EXCEPT ![p] = "closing"]
      BY <1>1 DEF CutOff
  <2>2. CutOff(p) \in [Conn -> Lines]
      BY <2>1, Named DEF TypeInv, TypeOK
  <2>3. room[p] # None
      BY <1>1 DEF TypeInv, Placed
  <2> QED
      BY <2>1, <2>2, <2>3 DEF TypeInv, TypeOK
<1>2. CASE line[p] \notin {"opening", "up"}
    BY <1>2 DEF CutOff, TypeInv, TypeOK
<1> QED
    BY <1>1, <1>2

\* So does each step of a retirement and of the sweeper.
LEMMA RetireTypes ==
    ASSUME TypeInv, (\E a \in Actor : Retire(a)) \/ Sweep
    PROVE  TypeInv'
<1> USE DEF TypeInv, tables, clipVars, roomVars, connVars, coVars, wireVars, clientVars,
            retireVars
<1>a. Sweeper \in Actor /\ Sweeper \notin Conn /\ Conn \subseteq Actor
    BY ActorsAre
<1>b. \A r, p : p \in Conn /\ Drop(r, {p}) => /\ peers' \in [Conn -> SUBSET Conn]
                                           /\ ipConns' \in [Ip -> Nat]
    BY DropType DEF Drop
<1>1. ASSUME NEW a \in Actor, NEW p \in Conn, RetireOne(a, p)
      PROVE  TypeInv'
  <2>1. line' \in [Conn -> Lines] /\ \A d \in Conn : room[d] = None => line'[d] = line[d]
      BY <1>1, CutOffTypes DEF RetireOne
  <2>2. peers' \in [Conn -> SUBSET Conn] /\ ipConns' \in [Ip -> Nat]
      BY <1>1, <1>b DEF RetireOne
  <2>3. todo' \in [Actor -> SUBSET Conn] /\ \A b \in Actor : todo'[b] # {} => todo[b] # {}
      BY <1>1 DEF RetireOne, TypeOK
  <2>4. TypeOK'
      BY <1>1, <2>1, <2>2, <2>3 DEF RetireOne, TypeOK
  <2>5. Placed'
      BY <1>1, <2>1 DEF RetireOne, Placed
  <2>6. Underway'
      BY <1>1, <1>a, <2>3 DEF RetireOne, Underway
  <2> QED
      BY <2>4, <2>5, <2>6
<1>2. ASSUME NEW c \in Conn, NEW p \in Conn, JoinRetired(c, p)
      PROVE  TypeInv'
  <2> DEFINE r == retiring[c]
  <2>1. pc[c] = "retiring" /\ at[c] \in Hash /\ room[c] = None
    <3>1. todo[c] # {}
        BY <1>2 DEF JoinRetired
    <3>2. pc[c] = "retiring" /\ at[c] # None
        BY <3>1 DEF Underway
    <3> QED
        BY <3>2 DEF TypeOK, Placed
  <2>2. Forget(r) \in [Hash -> Conn \cup {None}]
      BY DEF Forget, Forgotten, TypeOK
  <2>3. Without(r, {p}) \in [Conn -> SUBSET Conn] /\ Uncharged(r, {p}) \in [Ip -> Nat]
      BY DropType
  <2>4. EntryTypes /\ EntryPlaces(c, CutOff(p))
    <3>1. Enter(c, at[c], Forget(r), CutOff(p), Without(r, {p}), Uncharged(r, {p}))
        BY <1>2 DEF JoinRetired
    <3> QED
        BY <2>1, <2>2, <2>3, <3>1, CutOffTypes, EnterType
  <2>5. /\ last' \in [Conn -> Nat] /\ retiring' \in [Actor -> Conn \cup {None}]
        /\ todo' \in [Actor -> SUBSET Conn]
      BY <1>2 DEF JoinRetired, TypeOK
  <2>6. UNCHANGED <<seq, author, at, id, posting, leave, bad, told, held, sweep, expired,
                    frames>>
      BY <1>2 DEF JoinRetired
  <2>7. TypeOK'
      BY <2>4, <2>5, <2>6 DEF TypeOK, EntryTypes
  <2>8. Placed'
    <3>1. \A d \in Conn : room[d] = None => CutOff(p)[d] = line[d]
        BY CutOffTypes
    <3> QED
        BY <2>1, <2>4, <2>6, <3>1, ConstantsAssumption
        DEF Placed, EntryPlaces, ConstantsAssumption
  <2>9. Underway'
    <3>1. /\ todo'[c] = {} /\ \A a \in Actor \ {c} : todo'[a] = todo[a] /\ retiring'[a] = retiring[a]
        BY <1>2, <1>a DEF JoinRetired, TypeOK
    <3> QED
        BY <1>a, <2>4, <2>6, <3>1 DEF Underway, EntryPlaces
  <2> QED
      BY <2>7, <2>8, <2>9
<1>3. ASSUME NEW p \in Conn, SweepRetired(p)
      PROVE  TypeInv'
  <2> DEFINE r == retiring[Sweeper]
             L == [last EXCEPT ![r] = 0]
  <2>1. line' \in [Conn -> Lines] /\ \A d \in Conn : room[d] = None => line'[d] = line[d]
      BY <1>3, CutOffTypes DEF SweepRetired
  <2>2. peers' \in [Conn -> SUBSET Conn] /\ ipConns' \in [Ip -> Nat]
      BY <1>3, <1>b DEF SweepRetired
  <2>3. Forget(r) \in [Hash -> Conn \cup {None}] /\ L \in [Conn -> Nat]
      BY DEF Forget, Forgotten, TypeOK
  <2>4. SweepOn(sweep, Forget(r), L)
      BY <1>3 DEF SweepRetired
  <2> HIDE DEF r, L
  <2>5. sweep \in SUBSET Conn
      BY DEF TypeOK
  <2>6. /\ rooms' \in [Hash -> Conn \cup {None}] /\ last' \in [Conn -> Nat]
        /\ sweep' \in SUBSET Conn
        /\ \E q \in Conn \cup {None}, T \in SUBSET Conn :
              /\ retiring' = [retiring EXCEPT ![Sweeper] = q]
              /\ todo' = [todo EXCEPT ![Sweeper] = T]
              /\ T # {} => q # None
      BY <2>3, <2>4, <2>5, SweepOnTypes
  <2>7. retiring' \in [Actor -> Conn \cup {None}] /\ todo' \in [Actor -> SUBSET Conn]
    <3>1. retiring \in [Actor -> Conn \cup {None}] /\ todo \in [Actor -> SUBSET Conn]
        BY DEF TypeOK
    <3> QED
        BY <2>6, <3>1
  <2>8. TypeOK'
      BY <1>3, <2>1, <2>2, <2>6, <2>7 DEF SweepRetired, TypeOK
  <2>9. UNCHANGED <<room, pc, leave, posting, at>>
      BY <1>3 DEF SweepRetired
  <2>10. Placed'
      BY <2>1, <2>9 DEF Placed
  <2>11. Underway'
      BY <1>a, <2>6, <2>9 DEF TypeOK, Underway
  <2> QED
      BY <2>8, <2>10, <2>11
<1>4. CASE Sweep
  <2> DEFINE S == {rooms[h] : h \in Hash} \ {None}
  <2>1. S \in SUBSET Conn /\ rooms \in [Hash -> Conn \cup {None}] /\ last \in [Conn -> Nat]
      BY DEF TypeOK
  <2>2. SweepOn(S, rooms, last)
      BY <1>4 DEF Sweep
  <2> HIDE DEF S
  <2>3. /\ rooms' \in [Hash -> Conn \cup {None}] /\ last' \in [Conn -> Nat]
        /\ sweep' \in SUBSET Conn
        /\ \E q \in Conn \cup {None}, T \in SUBSET Conn :
              /\ retiring' = [retiring EXCEPT ![Sweeper] = q]
              /\ todo' = [todo EXCEPT ![Sweeper] = T]
              /\ T # {} => q # None
      BY <2>1, <2>2, SweepOnTypes
  <2>4. retiring' \in [Actor -> Conn \cup {None}] /\ todo' \in [Actor -> SUBSET Conn]
    <3>1. retiring \in [Actor -> Conn \cup {None}] /\ todo \in [Actor -> SUBSET Conn]
        BY DEF TypeOK
    <3> QED
        BY <2>3, <3>1
  <2>5. TypeOK'
      BY <1>4, <2>3, <2>4 DEF Sweep, TypeOK
  <2>6. UNCHANGED <<room, pc, leave, line, posting, at>>
      BY <1>4 DEF Sweep
  <2>7. Placed'
      BY <2>6 DEF Placed
  <2>8. Underway'
      BY <1>a, <2>3, <2>6 DEF TypeOK, Underway
  <2> QED
      BY <2>5, <2>7, <2>8
<1> QED
    BY <1>1, <1>2, <1>3, <1>4 DEF Retire

\* Every step preserves the type invariant.
LEMMA TypeStep == TypeInv /\ [Next]_vars => TypeInv'
<1> SUFFICES ASSUME TypeInv, [Next]_vars  PROVE TypeInv'
    OBVIOUS
<1>1. CASE Environment
    BY <1>1, JoinTypes, ServeTypes, LeaveTypes, ClockTypes DEF Environment
<1>2. ASSUME NEW c \in Conn, Serve(c) \/ Farewell(c)
      PROVE  TypeInv'
    BY <1>2, ServeTypes, LeaveTypes DEF Serve, Farewell
<1>3. ASSUME NEW c \in Conn, Write(c) \/ Evict(c)
      PROVE  TypeInv'
    BY <1>3, WriteTypes, ClockTypes DEF Write
<1>4. CASE (\E a \in Actor : Retire(a)) \/ Sweep \/ Tick
    BY <1>4, RetireTypes, ClockTypes
<1>5. CASE UNCHANGED vars
    BY <1>5 DEF TypeInv, TypeOK, Placed, Underway, vars, tables, clipVars, roomVars,
                connVars, coVars, wireVars, clientVars, retireVars
<1> QED
    BY <1>1, <1>2, <1>3, <1>4, <1>5 DEF Next

\* The type invariant holds of a relay just started.
LEMMA TypeInit == Init => TypeInv
<1> SUFFICES ASSUME Init  PROVE TypeInv
    OBVIOUS
<1>1. /\ 0 \in 0..RoomTTL /\ -1 \in -1..RoomTTL /\ <<>> \in Seq(Frame)
      /\ \A c \in Conn : c \in PeerId
    BY ConstantsAssumption DEF ConstantsAssumption, PeerId
<1>2. TypeOK
    BY <1>1 DEF Init, TypeOK, Places, Lines
<1>3. Placed /\ Underway
    BY DEF Init, Placed, Underway, Actor
<1> QED
    BY <1>2, <1>3 DEF TypeInv

\* Every variable keeps its type; with it, a connection is placed exactly from
\* its admission on, and whoever has peers to disconnect is retiring a room.
THEOREM TypeCorrect == Spec => []TypeOK
<1>1. TypeInv => TypeOK
    BY DEF TypeInv
<1> QED
    BY <1>1, TypeInit, TypeStep, PTL DEF Spec

-----------------------------------------------------------------------------
(* Who is in a room *)

\* Everybody in some room of P, and those of an address among them.
Members(P) == {c \in Conn : \E r \in Conn : c \in P[r]}
Behind(i, S) == {c \in S : IpOf[c] = i}

\* N counts the members of P by address.
Counts(P, N) == \A i \in Ip : N[i] = Cardinality(Behind(i, Members(P)))

\* The connections behind an address can be counted.
LEMMA BehindFinite ==
    ASSUME NEW S \in SUBSET Conn, NEW i
    PROVE  IsFiniteSet(Behind(i, S)) /\ Cardinality(Behind(i, S)) \in Nat
<1>1. IsFiniteSet(Conn) /\ Behind(i, S) \in SUBSET Conn
    BY ConstantsAssumption DEF ConstantsAssumption, Behind
<1>2. IsFiniteSet(Behind(i, S))
    BY <1>1, FS_Subset
<1> QED
    BY <1>2, FS_CardinalityType

\* Dropping D from a room discharges each address for its part of D.
LEMMA DropCounts ==
    ASSUME TypeOK, Apart, Counts(peers, ipConns), NEW r \in Conn, NEW D \in SUBSET Conn
    PROVE  Counts(Without(r, D), Uncharged(r, D))
<1> DEFINE M == Members(peers)
           X == D \cap peers[r]
<1>1. Members(Without(r, D)) = M \ X
    BY DEF TypeOK, Apart, Without, Members
<1>2. X \in SUBSET Conn /\ X \subseteq M /\ M \in SUBSET Conn
    BY DEF TypeOK, Members
<1> SUFFICES ASSUME NEW i \in Ip
             PROVE  Uncharged(r, D)[i] = Cardinality(Behind(i, M \ X))
    BY <1>1 DEF Counts
<1> DEFINE n == Cardinality(Behind(i, X))
           m == Cardinality(Behind(i, M))
<1>3. Uncharged(r, D)[i] = IF ipConns[i] > n THEN ipConns[i] - n ELSE 0
  <2>1. Behind(i, X) = {p \in D \cap peers[r] : IpOf[p] = i}
      BY DEF Behind
  <2> QED
      BY <2>1 DEF Uncharged
<1>4. ipConns[i] = m
    BY DEF Counts
<1> HIDE DEF M, X
<1>5. /\ Behind(i, M \ X) = Behind(i, M) \ Behind(i, X)
      /\ Behind(i, M) \cap Behind(i, X) = Behind(i, X)
    BY <1>2 DEF Behind
<1>6. IsFiniteSet(Behind(i, M)) /\ m \in Nat /\ n \in Nat
    BY <1>2, BehindFinite
<1>7. Cardinality(Behind(i, M \ X)) = m - n
  <2>1. Cardinality(Behind(i, M) \ Behind(i, X))
            = Cardinality(Behind(i, M)) - Cardinality(Behind(i, M) \cap Behind(i, X))
      BY <1>6, FS_Difference
  <2> QED
      BY <1>5, <2>1
<1>8. n <= m
  <2>1. Behind(i, X) \subseteq Behind(i, M)
      BY <1>2 DEF Behind
  <2> QED
      BY <1>6, <2>1, FS_Subset
<1> HIDE DEF n, m
<1> QED
    BY <1>3, <1>4, <1>6, <1>7, <1>8

\* Charging the address of a newcomer counts the newcomer.
LEMMA AddCounts ==
    ASSUME NEW P \in [Conn -> SUBSET Conn], NEW N \in [Ip -> Nat], Counts(P, N),
           NEW r \in Conn, NEW c \in Conn, c \notin Members(P)
    PROVE  Counts([P EXCEPT ![r] = @ \cup {c}],
                  [i \in Ip |-> IF i = IpOf[c] THEN N[i] + 1 ELSE N[i]])
<1> DEFINE M == Members(P)
<1>1. Members([P EXCEPT ![r] = @ \cup {c}]) = M \cup {c}
    BY DEF Members
<1>2. M \in SUBSET Conn
    BY DEF Members
<1> SUFFICES ASSUME NEW i \in Ip
             PROVE  (IF i = IpOf[c] THEN N[i] + 1 ELSE N[i])
                        = Cardinality(Behind(i, M \cup {c}))
    BY <1>1 DEF Counts
<1>3. N[i] = Cardinality(Behind(i, M))
    BY DEF Counts
<1> HIDE DEF M
<1>4. CASE i = IpOf[c]
  <2>1. Behind(i, M \cup {c}) = Behind(i, M) \cup {c} /\ c \notin Behind(i, M)
      BY <1>4 DEF Behind, M
  <2>2. IsFiniteSet(Behind(i, M))
      BY <1>2, BehindFinite
  <2>3. Cardinality(Behind(i, M) \cup {c}) = Cardinality(Behind(i, M)) + 1
      BY <2>1, <2>2, FS_AddElement
  <2> QED
      BY <1>3, <1>4, <2>1, <2>3
<1>5. CASE i # IpOf[c]
  <2>1. Behind(i, M \cup {c}) = Behind(i, M)
      BY <1>5 DEF Behind
  <2> QED
      BY <1>3, <1>5, <2>1
<1> QED
    BY <1>4, <1>5

\* What the bookkeeping says of counts and members, before a step and after it.
LEMMA CountedNow ==
    ASSUME TypeOK, Bookkeeping
    PROVE  Counts(peers, ipConns)
<1>1. /\ peers \in [Conn -> SUBSET Conn] /\ room \in [Conn -> Conn \cup {None}]
      /\ \A r \in Conn : \A c \in peers[r] : room[c] = r
    BY DEF TypeOK, Bookkeeping, Apart
<1>2. \A i \in Ip : {c \in Conn : InRoom(c) /\ IpOf[c] = i} = Behind(i, Members(peers))
    BY <1>1, ActorsAre DEF Members, Behind, InRoom
<1> QED
    BY <1>2 DEF Counts, Bookkeeping, IpCountsExact

\* A step that loses peers and discharges them leaves the counts exact.
LEMMA CountedNext ==
    ASSUME TypeOK', Apart', Counts(peers', ipConns')
    PROVE  IpCountsExact'
<1>1. /\ peers' \in [Conn -> SUBSET Conn] /\ room' \in [Conn -> Conn \cup {None}]
      /\ \A r \in Conn : \A c \in peers'[r] : room'[c] = r
    BY DEF TypeOK, Apart
<1>2. \A i \in Ip : {c \in Conn : (room'[c] # None /\ c \in peers'[room'[c]]) /\ IpOf[c] = i}
                      = Behind(i, Members(peers'))
    BY <1>1, ActorsAre DEF Members, Behind
<1> QED
    BY <1>2 DEF Counts, IpCountsExact, InRoom

\* A step drops D from a room and changes nobody's room, id or token.
LEMMA DropKeeps ==
    ASSUME TypeOK, TypeOK', Bookkeeping, NEW r \in Conn, NEW D \in SUBSET Conn,
           Drop(r, D), UNCHANGED <<room, id, auth>>
    PROVE  Bookkeeping'
<1>1. peers' \in [Conn -> SUBSET Conn] /\ \A q \in Conn : peers'[q] \subseteq peers[q]
    BY DEF TypeOK, Drop, Without
<1>2. Apart'
    BY <1>1 DEF Bookkeeping, Apart
<1>3. PeerIdsUnique' /\ OneToken'
    BY <1>1 DEF Bookkeeping, PeerIdsUnique, OneToken
<1>4. Counts(Without(r, D), Uncharged(r, D))
    BY CountedNow, DropCounts DEF Bookkeeping
<1>5. IpCountsExact'
    BY <1>2, <1>4, CountedNext DEF Drop
<1> QED
    BY <1>2, <1>3, <1>5 DEF Bookkeeping

\* An entry into the rooms of P, which hold no more than the rooms of now.
LEMMA EnterKeeps ==
    ASSUME TypeOK, TypeOK', Bookkeeping, NEW c \in Conn, room[c] = None, NEW h,
           NEW table, table[h] \in Conn \cup {None}, NEW l,
           NEW P \in [Conn -> SUBSET Conn], NEW N \in [Ip -> Nat],
           \A q \in Conn : P[q] \subseteq peers[q], Counts(P, N),
           Enter(c, h, table, l, P, N), UNCHANGED id
    PROVE  Bookkeeping'
<1> DEFINE r == IF table[h] = None THEN c ELSE table[h]
<1>1. r \in Conn
    OBVIOUS
<1>2. \A q \in Conn : \A p \in P[q] : p \in Conn /\ room[p] = q /\ p # c
    BY ActorsAre DEF Bookkeeping, Apart
<1>3. \A q \in Conn : \A p \in P[q] : TokenOf[p] = auth[q] /\ \A o \in P[q] : id[p] = id[o] => p = o
    BY DEF Bookkeeping, OneToken, PeerIdsUnique
<1>4. CASE peers' = P /\ ipConns' = N /\ UNCHANGED <<room, auth>>
  <2>1. Apart'
      BY <1>2, <1>4 DEF Bookkeeping, Apart
  <2>2. PeerIdsUnique' /\ OneToken'
      BY <1>3, <1>4 DEF PeerIdsUnique, OneToken
  <2>3. IpCountsExact'
      BY <1>4, <2>1, CountedNext
  <2> QED
      BY <2>1, <2>2, <2>3 DEF Bookkeeping
<1>5. CASE /\ Admits(c, r, P[r])
           /\ auth' = IF P[r] = {} THEN [auth EXCEPT ![r] = TokenOf[c]] ELSE auth
           /\ peers' = [P EXCEPT ![r] = @ \cup {c}]
           /\ ipConns' = [i \in Ip |-> IF i = IpOf[c] THEN N[i] + 1 ELSE N[i]]
           /\ room' = [room EXCEPT ![c] = r]
  <2> HIDE DEF r
  <2>1. room'[c] = r /\ \A p \in Conn \ {c} : room'[p] = room[p]
      BY <1>5 DEF TypeOK
  <2>2. /\ peers'[r] = P[r] \cup {c}
        /\ \A q \in Conn \ {r} : peers'[q] = P[q]
      BY <1>1, <1>5
  <2>3. Apart'
    <3>1. \A q \in Conn : \A p \in peers'[q] : room'[p] = q
        BY <1>1, <1>2, <2>1, <2>2
    <3>2. \A p \in Conn : id'[p] \in {p} \cup OriginId /\ (room'[p] = None => id'[p] = p)
        BY <1>1, <2>1, ActorsAre DEF Bookkeeping, Apart
    <3> QED
        BY <3>1, <3>2 DEF Apart
  <2>4. PeerIdsUnique'
    <3>1. id[c] = c /\ \A p \in P[r] : id[p] # c
        BY <1>1, <1>2, ConstantsAssumption DEF Bookkeeping, Apart, ConstantsAssumption
    <3> QED
        BY <1>1, <1>3, <2>2, <3>1 DEF PeerIdsUnique
  <2>5. OneToken'
    <3>1. \A q \in Conn \ {r} : auth'[q] = auth[q]
        BY <1>5 DEF TypeOK
    <3>2. P[r] # {} => auth'[r] = auth[r] /\ auth[r] = TokenOf[c]
        BY <1>5 DEF Admits
    <3>3. P[r] = {} => auth'[r] = TokenOf[c]
        BY <1>1, <1>5 DEF TypeOK
    <3> QED
        BY <1>1, <1>3, <2>2, <3>1, <3>2, <3>3 DEF OneToken
  <2>6. c \notin Members(P)
      BY <1>2 DEF Members
  <2>7. Counts(peers', ipConns')
      BY <1>1, <1>5, <2>6, AddCounts
  <2> QED
      BY <2>3, <2>4, <2>5, <2>7, CountedNext DEF Bookkeeping
<1> QED
    BY <1>4, <1>5 DEF Enter

\* Nobody's membership, room, id or token changes; a room loses some peers.
Calm       == UNCHANGED <<peers, ipConns, room, id, auth>>
LosesPeers == \E r \in Conn, D \in SUBSET Conn : Drop(r, D) /\ UNCHANGED <<room, id, auth>>

\* A step that leaves peers, counts, rooms, tokens and ids alone keeps the books.
LEMMA CalmKeeps ==
    ASSUME Bookkeeping, Calm
    PROVE  Bookkeeping'
<1>1. Apart' /\ PeerIdsUnique' /\ OneToken'
    BY DEF Bookkeeping, Apart, PeerIdsUnique, OneToken, Calm
<1>2. IpCountsExact'
    BY DEF Bookkeeping, IpCountsExact, InRoom, Calm
<1> QED
    BY <1>1, <1>2 DEF Bookkeeping

\* An id is adopted only if nobody in the room has it.
LEMMA HelloKeeps ==
    ASSUME TypeOK, Bookkeeping, NEW c \in Conn, NEW wanted \in OriginId \cup {id[c]},
           room[c] \in Conn, Hello(c, wanted)
    PROVE  Bookkeeping'
<1>1. /\ UNCHANGED <<peers, ipConns, room, auth>>
      /\ id' = [id EXCEPT ![c] = wanted]
      /\ wanted # id[c] => \A p \in peers[room[c]] : id[p] # wanted
    BY DEF Hello, Taken, tables, roomVars
<1>2. \A p \in Conn : id'[p] = IF p = c THEN wanted ELSE id[p]
    BY <1>1 DEF TypeOK
<1>3. Apart'
    BY <1>1, <1>2, ActorsAre DEF Bookkeeping, Apart
<1>4. PeerIdsUnique'
  <2> SUFFICES ASSUME NEW r \in Conn, NEW p \in peers[r], NEW q \in peers[r],
                      id'[p] = id'[q]
               PROVE  p = q
      BY <1>1 DEF PeerIdsUnique
  <2>1. p \in Conn /\ q \in Conn /\ room[p] = r /\ room[q] = r
      BY DEF TypeOK, Bookkeeping, Apart
  <2>2. id[p] = id[q] => p = q
      BY DEF Bookkeeping, PeerIdsUnique
  <2> QED
      BY <1>1, <1>2, <2>1, <2>2
<1>5. OneToken' /\ IpCountsExact'
    BY <1>1 DEF Bookkeeping, OneToken, IpCountsExact, InRoom
<1> QED
    BY <1>3, <1>4, <1>5 DEF Bookkeeping

\* Every action but the joins, hello and the retirements is calm or loses peers.
LEMMA OthersLose ==
    ASSUME TypeInv, NEW c \in Conn,
           \/ Serve(c) \/ Farewell(c) \/ Write(c) \/ Evict(c)
           \/ PostBegins(c) \/ Clip(c) \/ RoomWide(c) \/ Answer(c) \/ Vanish(c) \/ Expire(c)
           \/ \E p \in Conn : Forward(c, p)
           \/ \E wanted \in OriginId, renamed \in BOOLEAN : HelloTaken(c, wanted, renamed)
    PROVE  Calm \/ LosesPeers
<1> USE DEF tables, clipVars, roomVars, connVars, coVars, wireVars, clientVars, retireVars
<1>1. \A k \in Task : bad[k] \in SUBSET Conn
    BY DEF TypeInv, TypeOK
<1>2. CASE FanOutDone(c)
  <2>1. room[c] \in Conn /\ bad[<<c, "serve">>] \in SUBSET Conn
      BY <1>1, <1>2, Served DEF FanOutDone
  <2> QED
      BY <1>2, <2>1 DEF FanOutDone, LosesPeers
<1>3. CASE ForwardDone(c)
  <2>1. room[c] \in Conn /\ bad[<<c, "serve">>] \in SUBSET Conn
      BY <1>1, <1>3, Served DEF ForwardDone
  <2> QED
      BY <1>3, <2>1 DEF ForwardDone, LosesPeers
<1>4. CASE DepartureAnnounced(c)
  <2>1. room[c] \in Conn /\ bad[<<c, "leave">>] \in SUBSET Conn
      BY <1>1, <1>4, Served DEF DepartureAnnounced
  <2> QED
      BY <1>4, <2>1 DEF DepartureAnnounced, LosesPeers
<1>5. CASE Depart(c)
  <2>1. room[c] \in Conn
      BY <1>5, Served DEF Depart
  <2> QED
      BY <1>5, <2>1 DEF Depart, LosesPeers
<1>6. CASE StreamEnds(c)
  <2>1. room[c] \in Conn
      BY <1>6, Served DEF StreamEnds
  <2> QED
      BY <1>6, <2>1 DEF StreamEnds, LosesPeers
<1>7. CASE Welcomed(c) \/ Answered(c) \/ PostEnds(c) \/ StreamOpens(c) \/ StreamEnded(c)
    BY <1>7 DEF Welcomed, Answered, PostEnds, StreamOpens, StreamEnded, Calm
<1>8. CASE Write(c) \/ Evict(c) \/ Vanish(c) \/ Expire(c)
    BY <1>8 DEF Write, Deliver, Lost, WriteFails, Evict, Vanish, Expire, Calm
<1>9. CASE \/ PostBegins(c) \/ Clip(c) \/ RoomWide(c) \/ Answer(c)
           \/ \E p \in Conn : Forward(c, p)
           \/ \E wanted \in OriginId, renamed \in BOOLEAN : HelloTaken(c, wanted, renamed)
    BY <1>9 DEF PostBegins, Clip, RoomWide, Answer, Forward, HelloTaken, Calm
<1> QED
    BY <1>2, <1>3, <1>4, <1>5, <1>6, <1>7, <1>8, <1>9 DEF Serve, Farewell

\* Each way of joining keeps the books.
LEMMA JoinKeeps ==
    ASSUME TypeInv, TypeInv', Bookkeeping, NEW c \in Conn, NEW h \in Hash, Join(c, h)
    PROVE  Bookkeeping'
<1> DEFINE table == IF rooms[h] # None /\ expired[rooms[h]] THEN Forget(rooms[h]) ELSE rooms
<1>1. Enter(c, h, table, line, peers, ipConns) /\ UNCHANGED id /\ pc[c] = "new"
    BY DEF Join
<1>2. table[h] \in Conn \cup {None}
    BY DEF TypeInv, TypeOK, Forget, Forgotten
<1>3. room[c] = None
    BY <1>1 DEF TypeInv, Placed
<1> HIDE DEF table
<1>4. /\ TypeOK /\ TypeOK'
      /\ peers \in [Conn -> SUBSET Conn] /\ ipConns \in [Ip -> Nat]
    BY DEF TypeInv, TypeOK
<1>5. Counts(peers, ipConns)
    BY <1>4, CountedNow
<1> QED
    BY <1>1, <1>2, <1>3, <1>4, <1>5, EnterKeeps

\* Each step of a retirement keeps the books.
LEMMA RetireKeeps ==
    ASSUME TypeInv, TypeInv', Bookkeeping, (\E a \in Actor : Retire(a)) \/ Sweep
    PROVE  Bookkeeping'
<1>1. \A a \in Actor : todo[a] # {} => retiring[a] \in Conn
    BY DEF TypeInv, TypeOK, Underway
<1>2. ASSUME NEW a \in Actor, NEW p \in Conn, RetireOne(a, p)
      PROVE  LosesPeers
    BY <1>1, <1>2 DEF RetireOne, LosesPeers
<1>3. ASSUME NEW p \in Conn, SweepRetired(p)
      PROVE  LosesPeers
  <2>1. retiring[Sweeper] \in Conn
      BY <1>1, <1>3, ActorsAre DEF SweepRetired
  <2> QED
      BY <1>3, <2>1 DEF SweepRetired, LosesPeers
<1>4. ASSUME Sweep  PROVE Calm
    BY <1>4 DEF Sweep, roomVars, connVars, Calm
<1>5. ASSUME NEW c \in Conn, NEW p \in Conn, JoinRetired(c, p)
      PROVE  Bookkeeping'
  <2> DEFINE r == retiring[c]
  <2>1. todo[c] = {p}
        /\ Enter(c, at[c], Forget(r), CutOff(p), Without(r, {p}), Uncharged(r, {p}))
        /\ UNCHANGED id
      BY <1>5 DEF JoinRetired
  <2>2. pc[c] = "retiring"
      BY <2>1 DEF TypeInv, Underway
  <2>3. room[c] = None /\ at[c] \in Hash /\ r \in Conn
    <3>1. r \in Conn
        BY <1>1, <2>1, ActorsAre
    <3>2. room[c] = None /\ at[c] # None
        BY <2>2 DEF TypeInv, Placed, Underway
    <3> QED
        BY <3>1, <3>2 DEF TypeInv, TypeOK
  <2>4. Forget(r)[at[c]] \in Conn \cup {None}
      BY <2>3 DEF TypeInv, TypeOK, Forget, Forgotten
  <2>5. TypeOK /\ TypeOK' /\ Apart
      BY DEF TypeInv, Bookkeeping
  <2> HIDE DEF r
  <2>6. Without(r, {p}) \in [Conn -> SUBSET Conn] /\ Uncharged(r, {p}) \in [Ip -> Nat]
      BY <2>5, DropType
  <2>7. \A q \in Conn : Without(r, {p})[q] \subseteq peers[q]
      BY <2>5 DEF TypeOK, Without
  <2>8. Counts(Without(r, {p}), Uncharged(r, {p}))
      BY <2>3, <2>5, CountedNow, DropCounts
  <2> QED
      BY <2>1, <2>3, <2>4, <2>5, <2>6, <2>7, <2>8, EnterKeeps
<1>6. LosesPeers => Bookkeeping'
    BY DropKeeps DEF LosesPeers, TypeInv
<1> QED
    BY <1>2, <1>3, <1>4, <1>5, <1>6, CalmKeeps DEF Retire

\* Every step keeps the books.
LEMMA BookkeepingStep ==
    TypeInv /\ TypeInv' /\ Bookkeeping /\ [Next]_vars => Bookkeeping'
<1> SUFFICES ASSUME TypeInv, TypeInv', Bookkeeping, [Next]_vars  PROVE Bookkeeping'
    OBVIOUS
<1>1. Calm \/ LosesPeers => Bookkeeping'
    BY CalmKeeps, DropKeeps DEF LosesPeers, TypeInv
<1>2. ASSUME NEW c \in Conn, NEW h \in Hash,
             JoinRefused(c, h) \/ Join(c, h) \/ JoinExpired(c, h)
      PROVE  Bookkeeping'
  <2>1. CASE JoinRefused(c, h) \/ JoinExpired(c, h)
      BY <1>1, <2>1 DEF JoinRefused, JoinExpired, Calm, tables, roomVars
  <2> QED
      BY <1>2, <2>1, JoinKeeps
<1>3. ASSUME NEW c \in Conn, NEW wanted \in OriginId \cup {id[c]}, Hello(c, wanted)
      PROVE  Bookkeeping'
  <2>1. room[c] \in Conn
      BY <1>3, Served DEF Hello, Reading
  <2> QED
      BY <1>3, <2>1, HelloKeeps DEF TypeInv
<1>4. CASE Environment
    BY <1>1, <1>2, <1>3, <1>4, OthersLose DEF Environment
<1>5. ASSUME NEW c \in Conn, Serve(c) \/ Farewell(c) \/ Write(c) \/ Evict(c)
      PROVE  Bookkeeping'
    BY <1>1, <1>5, OthersLose
<1>6. CASE (\E a \in Actor : Retire(a)) \/ Sweep
    BY <1>6, RetireKeeps
<1>7. CASE Tick \/ UNCHANGED vars
  <2>1. Calm
      BY <1>7 DEF Tick, Calm, vars, tables, roomVars, connVars
  <2> QED
      BY <1>1, <2>1
<1> QED
    BY <1>4, <1>5, <1>6, <1>7 DEF Next

\* The books of a relay just started are in order.
LEMMA BookkeepingInit == Init => Bookkeeping
<1> SUFFICES ASSUME Init  PROVE Bookkeeping
    OBVIOUS
<1>1. Apart /\ PeerIdsUnique /\ OneToken
    BY DEF Init, Apart, PeerIdsUnique, OneToken
<1>2. \A i \in Ip : {c \in Conn : InRoom(c) /\ IpOf[c] = i} = {}
    BY DEF Init, InRoom
<1>3. IpCountsExact
    BY <1>2, FS_EmptySet DEF Init, IpCountsExact
<1> QED
    BY <1>1, <1>3 DEF Bookkeeping

\* The books are always in order.
LEMMA BookkeepingHolds == Spec => []Bookkeeping
<1> QED
    BY TypeInit, BookkeepingInit, TypeStep, BookkeepingStep, PTL DEF Spec

\* Every address is charged for exactly its connections that are in a room:
\* _drop_peer discharges once for each peer it removes, a second call for the
\* same peer finds nobody, and an insertion charges one newcomer.
THEOREM CountsExact == Spec => []IpCountsExact
<1>1. Bookkeeping => IpCountsExact
    BY DEF Bookkeeping
<1> QED
    BY <1>1, BookkeepingHolds, PTL

\* One id means one connection of a room, whatever `hello' asks for: an id in
\* use is not adopted, and a provisional id is nobody else's (_adopt_identity).
THEOREM IdsUnique == Spec => []PeerIdsUnique
<1>1. Bookkeeping => PeerIdsUnique
    BY DEF Bookkeeping
<1> QED
    BY <1>1, BookkeepingHolds, PTL

\* Everybody in a room presented the token it holds: it takes a new one only
\* from a newcomer to an empty room (_admits).
THEOREM TokensAgree == Spec => []OneToken
<1>1. Bookkeeping => OneToken
    BY DEF Bookkeeping
<1> QED
    BY <1>1, BookkeepingHolds, PTL

-----------------------------------------------------------------------------
(* The ceilings *)

\* No room of P has more peers than it may, no table more rooms.
PeersFit(P) == \A r \in Conn : Cardinality(P[r]) <= MaxPeers
RoomsFit(table) == Cardinality(Used(table)) <= MaxRooms

\* A finite set bounds the cardinality of its parts.
LEMMA SmallerFits ==
    ASSUME NEW S, IsFiniteSet(S), NEW T \in SUBSET S, NEW n \in Nat, Cardinality(S) <= n
    PROVE  Cardinality(T) <= n
<1>1. IsFiniteSet(T) /\ Cardinality(T) <= Cardinality(S)
    BY FS_Subset
<1>2. Cardinality(S) \in Nat /\ Cardinality(T) \in Nat
    BY <1>1, FS_CardinalityType
<1> QED
    BY <1>1, <1>2

\* Rooms that only lose peers still fit.
LEMMA FewerPeersFit ==
    ASSUME NEW P \in [Conn -> SUBSET Conn], PeersFit(P), NEW Q \in [Conn -> SUBSET Conn],
           \A r \in Conn : Q[r] \subseteq P[r]
    PROVE  PeersFit(Q)
<1>1. \A r \in Conn : IsFiniteSet(P[r]) /\ Q[r] \in SUBSET P[r]
    BY ConstantsAssumption, FS_Subset DEF ConstantsAssumption
<1>2. MaxPeers \in Nat
    BY ConstantsAssumption DEF ConstantsAssumption
<1> QED
    BY <1>1, <1>2, SmallerFits DEF PeersFit

\* A table that only loses names still fits.
LEMMA FewerRoomsFit ==
    ASSUME NEW table, RoomsFit(table), NEW S, Used(S) \subseteq Used(table)
    PROVE  RoomsFit(S)
<1>1. IsFiniteSet(Used(table))
  <2>1. IsFiniteSet(Hash) /\ Used(table) \in SUBSET Hash
      BY ConstantsAssumption DEF ConstantsAssumption, Used
  <2> QED
      BY <2>1, FS_Subset
<1>2. MaxRooms \in Nat
    BY ConstantsAssumption DEF ConstantsAssumption
<1> QED
    BY <1>1, <1>2, SmallerFits DEF RoomsFit

\* _join looks at the ceilings after everything it may have waited for.
LEMMA EnterFits ==
    ASSUME NEW c \in Conn, NEW h \in Hash,
           NEW table \in [Hash -> Conn \cup {None}], RoomsFit(table), NEW l,
           NEW P \in [Conn -> SUBSET Conn], PeersFit(P), NEW N,
           Enter(c, h, table, l, P, N)
    PROVE  PeersFit(peers') /\ RoomsFit(rooms')
<1> DEFINE r == IF table[h] = None THEN c ELSE table[h]
<1>1. CASE rooms' = table /\ peers' = P
    BY <1>1
<1>2. CASE /\ ~FullyTaken(r, P)
           /\ ~Busy(h, table)
           /\ peers' = [P EXCEPT ![r] = @ \cup {c}]
           /\ rooms' = [table EXCEPT ![h] = r]
  <2>1. r \in Conn /\ r # None
      BY ActorsAre
  <2>2. MaxPeers \in Nat /\ MaxRooms \in Nat
      BY ConstantsAssumption DEF ConstantsAssumption
  <2>3. PeersFit(peers')
    <3> HIDE DEF r
    <3>1. IsFiniteSet(P[r])
        BY <2>1, ConstantsAssumption, FS_Subset DEF ConstantsAssumption
    <3>2. /\ Cardinality(P[r]) \in Nat
          /\ Cardinality(P[r] \cup {c}) \in {Cardinality(P[r]), Cardinality(P[r]) + 1}
        BY <3>1, FS_CardinalityType, FS_AddElement
    <3>3. ~(Cardinality(P[r]) >= MaxPeers)
        BY <1>2 DEF FullyTaken
    <3>4. Cardinality(P[r] \cup {c}) <= MaxPeers
        BY <2>2, <3>2, <3>3
    <3>5. peers'[r] = P[r] \cup {c} /\ \A q \in Conn \ {r} : peers'[q] = P[q]
        BY <1>2, <2>1
    <3> QED
        BY <3>4, <3>5 DEF PeersFit
  <2>4. RoomsFit(rooms')
    <3>1. CASE table[h] # None
      <4>1. rooms' = table
          BY <1>2, <3>1
      <4> QED
          BY <4>1
    <3>2. CASE table[h] = None
      <4>1. Used(rooms') = Used(table) \cup {h} /\ h \notin Used(table)
          BY <1>2, <2>1, <3>2 DEF Used
      <4>2. IsFiniteSet(Hash) /\ Used(table) \in SUBSET Hash
          BY ConstantsAssumption DEF ConstantsAssumption, Used
      <4>3. IsFiniteSet(Used(table))
          BY <4>2, FS_Subset
      <4>4. /\ Cardinality(Used(table)) \in Nat
            /\ Cardinality(Used(table) \cup {h}) = Cardinality(Used(table)) + 1
          BY <4>1, <4>3, FS_CardinalityType, FS_AddElement
      <4>5. ~(Cardinality(Used(table)) >= MaxRooms)
          BY <1>2, <3>2 DEF Busy
      <4> QED
          BY <2>2, <4>1, <4>4, <4>5 DEF RoomsFit
    <3> QED
        BY <3>1, <3>2
  <2> QED
      BY <2>3, <2>4
<1> QED
    BY <1>1, <1>2 DEF Enter

\* A step that enters nobody loses peers and names, if it changes either.
OnlyLoses ==
    /\ \A r \in Conn : peers'[r] \subseteq peers[r]
    /\ Used(rooms') \subseteq Used(rooms)

\* The sweeper adds no peer and no room.
LEMMA SweepLoses ==
    ASSUME NEW S, NEW table, NEW L, SweepOn(S, table, L)
    PROVE  Used(rooms') \subseteq Used(table)
BY DEF SweepOn, Skim, Forgotten, Used

\* A drop adds no peer.
LEMMA DropLoses ==
    ASSUME TypeOK, NEW r, NEW D, Drop(r, D)
    PROVE  \A q \in Conn : peers'[q] \subseteq peers[q]
BY DEF TypeOK, Drop, Without

\* Every action but the entries only loses.
LEMMA OthersOnlyLose ==
    ASSUME TypeInv, [Next]_vars,
           ~ \E c \in Conn : \/ \E h \in Hash : Join(c, h)
                             \/ \E p \in Conn : JoinRetired(c, p)
    PROVE  OnlyLoses
<1> USE DEF tables, clipVars, roomVars, connVars, coVars, wireVars, clientVars, retireVars
<1>1. TypeOK
    BY DEF TypeInv
<1>2. ASSUME NEW c \in Conn, Evict(c)
      PROVE  OnlyLoses
    BY <1>2 DEF Evict, Forget, Forgotten, Used, OnlyLoses
<1>3. ASSUME NEW c \in Conn, Serve(c) \/ Farewell(c) \/ Write(c)
      PROVE  OnlyLoses
  <2>1. UNCHANGED rooms
      BY <1>3 DEF Serve, Farewell, Write, Welcomed, FanOutDone, ForwardDone, Answered, PostEnds,
                  StreamOpens, Depart, StreamEnds, StreamEnded, DepartureAnnounced, Deliver,
                  Lost, WriteFails
  <2>2. Calm \/ LosesPeers
      BY <1>3, OthersLose
  <2>3. \A r \in Conn : peers'[r] \subseteq peers[r]
      BY <1>1, <2>2, DropLoses DEF Calm, LosesPeers
  <2> QED
      BY <2>1, <2>3 DEF OnlyLoses
<1>4. CASE Environment
  <2>1. PICK c \in Conn :
            \/ \E h \in Hash : JoinRefused(c, h) \/ JoinExpired(c, h)
            \/ PostBegins(c) \/ Clip(c) \/ RoomWide(c) \/ Answer(c)
            \/ \E p \in Conn : Forward(c, p)
            \/ \E wanted \in OriginId \cup {id[c]} : Hello(c, wanted)
            \/ \E wanted \in OriginId, renamed \in BOOLEAN : HelloTaken(c, wanted, renamed)
            \/ Vanish(c) \/ Expire(c)
      BY <1>4 DEF Environment
  <2>2. CASE \E h \in Hash : JoinRefused(c, h) \/ JoinExpired(c, h)
      BY <2>2 DEF JoinRefused, JoinExpired, OnlyLoses
  <2>3. CASE PostBegins(c) \/ Clip(c) \/ RoomWide(c) \/ Answer(c)
      BY <2>3 DEF PostBegins, Clip, RoomWide, Answer, OnlyLoses
  <2>4. CASE \E p \in Conn : Forward(c, p)
      BY <2>4 DEF Forward, OnlyLoses
  <2>5. CASE \E wanted \in OriginId \cup {id[c]} : Hello(c, wanted)
      BY <2>5 DEF Hello, OnlyLoses
  <2>6. CASE \E wanted \in OriginId, renamed \in BOOLEAN : HelloTaken(c, wanted, renamed)
      BY <2>6 DEF HelloTaken, OnlyLoses
  <2>7. CASE Vanish(c) \/ Expire(c)
      BY <2>7 DEF Vanish, Expire, OnlyLoses
  <2> QED
      BY <2>1, <2>2, <2>3, <2>4, <2>5, <2>6, <2>7
<1>5. ASSUME NEW a \in Actor, NEW p \in Conn, RetireOne(a, p)
      PROVE  OnlyLoses
    BY <1>1, <1>5, DropLoses DEF RetireOne, OnlyLoses
<1>6. ASSUME NEW p \in Conn, SweepRetired(p)
      PROVE  OnlyLoses
  <2>1. Used(Forget(retiring[Sweeper])) \subseteq Used(rooms)
      BY DEF Forget, Forgotten, Used
  <2>2. Used(rooms') \subseteq Used(Forget(retiring[Sweeper]))
      BY <1>6, SweepLoses DEF SweepRetired
  <2>3. \A q \in Conn : peers'[q] \subseteq peers[q]
      BY <1>1, <1>6, DropLoses DEF SweepRetired
  <2> QED
      BY <2>1, <2>2, <2>3 DEF OnlyLoses
<1>7. CASE Sweep
    BY <1>7, SweepLoses DEF Sweep, OnlyLoses
<1>8. CASE Tick \/ UNCHANGED vars
    BY <1>8 DEF Tick, vars, OnlyLoses
<1> QED
    BY <1>2, <1>3, <1>4, <1>5, <1>6, <1>7, <1>8 DEF Next, Retire

\* Every step keeps within the ceilings.
LEMMA CeilingsStep ==
    TypeInv /\ TypeInv' /\ Ceilings /\ [Next]_vars => Ceilings'
<1> SUFFICES ASSUME TypeInv, TypeInv', Ceilings, [Next]_vars  PROVE Ceilings'
    OBVIOUS
<1>1. /\ peers \in [Conn -> SUBSET Conn] /\ rooms \in [Hash -> Conn \cup {None}]
      /\ peers' \in [Conn -> SUBSET Conn] /\ TypeOK
      /\ PeersFit(peers) /\ RoomsFit(rooms)
    BY DEF TypeInv, TypeOK, Ceilings, PeersFit, RoomsFit, Used
<1>2. PeersFit(peers') /\ RoomsFit(rooms') => Ceilings'
    BY DEF Ceilings, PeersFit, RoomsFit, Used
<1>3. \A r : Forget(r) \in [Hash -> Conn \cup {None}] /\ RoomsFit(Forget(r))
  <2> TAKE r
  <2>1. Used(Forget(r)) \subseteq Used(rooms)
      BY DEF Forget, Forgotten, Used
  <2>2. Forget(r) \in [Hash -> Conn \cup {None}]
      BY <1>1 DEF Forget, Forgotten
  <2> QED
      BY <1>1, <2>1, <2>2, FewerRoomsFit
<1>4. ASSUME NEW c \in Conn, NEW h \in Hash, Join(c, h)
      PROVE  Ceilings'
  <2> DEFINE table == IF rooms[h] # None /\ expired[rooms[h]] THEN Forget(rooms[h]) ELSE rooms
  <2>1. Enter(c, h, table, line, peers, ipConns)
      BY <1>4 DEF Join
  <2>2. table \in [Hash -> Conn \cup {None}] /\ RoomsFit(table)
      BY <1>1, <1>3
  <2> HIDE DEF table
  <2> QED
      BY <1>1, <1>2, <2>1, <2>2, EnterFits
<1>5. ASSUME NEW c \in Conn, NEW p \in Conn, JoinRetired(c, p)
      PROVE  Ceilings'
  <2> DEFINE r == retiring[c]
  <2>1. todo[c] = {p}
        /\ Enter(c, at[c], Forget(r), CutOff(p), Without(r, {p}), Uncharged(r, {p}))
      BY <1>5 DEF JoinRetired
  <2>2. at[c] \in Hash
    <3>1. at[c] # None
        BY <2>1 DEF TypeInv, Underway
    <3> QED
        BY <3>1 DEF TypeInv, TypeOK
  <2>3. Without(r, {p}) \in [Conn -> SUBSET Conn]
      BY <1>1, DropType
  <2>4. PeersFit(Without(r, {p}))
    <3>1. \A q \in Conn : Without(r, {p})[q] \subseteq peers[q]
        BY <1>1 DEF Without
    <3> QED
        BY <1>1, <2>3, <3>1, FewerPeersFit
  <2> QED
      BY <1>2, <1>3, <2>1, <2>2, <2>3, <2>4, EnterFits
<1>6. ASSUME OnlyLoses  PROVE Ceilings'
  <2>1. PeersFit(peers')
      BY <1>1, <1>6, FewerPeersFit DEF OnlyLoses
  <2>2. RoomsFit(rooms')
      BY <1>1, <1>6, FewerRoomsFit DEF OnlyLoses
  <2> QED
      BY <1>2, <2>1, <2>2
<1> QED
    BY <1>4, <1>5, <1>6, OthersOnlyLose

\* A relay just started is within its ceilings.
LEMMA CeilingsInit == Init => Ceilings
<1> SUFFICES ASSUME Init  PROVE Ceilings
    OBVIOUS
<1>1. Used(rooms) = {} /\ \A r \in Conn : peers[r] = {}
    BY DEF Init, Used
<1>2. MaxPeers \in Nat /\ MaxRooms \in Nat
    BY ConstantsAssumption DEF ConstantsAssumption
<1> QED
    BY <1>1, <1>2, FS_EmptySet DEF Ceilings

\* No room has more than MAX_PEERS peers and there are no more than MAX_ROOMS
\* rooms: _join looks at both after everything it may have waited for.
THEOREM CeilingsHold == Spec => []Ceilings
    BY TypeInit, CeilingsInit, TypeStep, CeilingsStep, PTL DEF Spec

-----------------------------------------------------------------------------
(* One room per name, where rooms have no lifetime cap *)

\* The table leads from a name to a room of that name; a connection that has
\* asked for nothing has no room and no task; nothing expires and nothing is
\* retired.
NameInv ==
    /\ \A h \in Hash : rooms[h] # None => at[rooms[h]] = h
    /\ \A c \in Conn : pc[c] = "new" => at[c] = None
    /\ \A c \in Conn : at[c] = None => room[c] = None /\ timer[c] = -1
    /\ \A r \in Conn : ~expired[r]
    /\ \A a \in Actor : todo[a] = {}

Capless == ~MayExpire => NameInv /\ NoOrphans

\* An entry finds the room its name leads to, or makes one.
LEMMA EnterLive ==
    ASSUME TypeOK, NameInv, NoOrphans, NEW c \in Conn, NEW h \in Hash, pc[c] = "new",
           Enter(c, h, rooms, line, peers, ipConns), at' = [at EXCEPT ![c] = h],
           UNCHANGED <<expired, todo>>
    PROVE  NameInv' /\ NoOrphans'
<1> DEFINE r == IF rooms[h] = None THEN c ELSE rooms[h]
<1>1. at[c] = None /\ peers[c] = {} /\ \A g \in Hash : rooms[g] # c
    BY ActorsAre DEF NameInv, NoOrphans, Live
<1>a. \A g \in Hash : rooms[g] \in Conn \cup {None}
    BY DEF TypeOK
<1>2. /\ at'[c] = h /\ \A d \in Conn \ {c} : at'[d] = at[d]
      /\ h # None
    BY ActorsAre DEF TypeOK
<1>3. \A d \in Conn : pc'[d] = "new" => d # c /\ pc[d] = "new"
    BY DEF TypeOK, Enter
<1>b. \A d \in Conn \ {c} : room'[d] = room[d] /\ (timer[d] = -1 => timer'[d] = -1)
  <2>1. room' = room \/ room' = [room EXCEPT ![c] = r]
      BY DEF Enter
  <2>2. timer' = timer \/ Awaken(r)
      BY DEF Enter
  <2>3. Awaken(r) => \A d \in Conn : timer[d] = -1 => timer'[d] = -1
      BY DEF Awaken, TypeOK
  <2> HIDE DEF r
  <2> QED
      BY <2>1, <2>2, <2>3 DEF TypeOK
<1>4. /\ \A d \in Conn : pc'[d] = "new" => at'[d] = None
      /\ \A q \in Conn : ~expired'[q]
      /\ \A a \in Actor : todo'[a] = {}
      /\ \A d \in Conn : at'[d] = None => room'[d] = None /\ timer'[d] = -1
    BY <1>2, <1>3, <1>b DEF NameInv
<1>5. CASE rooms' = rooms /\ peers' = peers
  <2>1. \A g \in Hash : rooms'[g] # None => at'[rooms'[g]] = g
      BY <1>1, <1>2, <1>5 DEF NameInv, TypeOK
  <2>2. NoOrphans'
      BY <1>1, <1>2, <1>5 DEF NoOrphans, Live, TypeOK
  <2> QED
      BY <1>4, <2>1, <2>2 DEF NameInv
<1>6. CASE rooms' = [rooms EXCEPT ![h] = r] /\ peers' = [peers EXCEPT ![r] = @ \cup {c}]
  <2>1. r \in Conn /\ at'[r] = h
      BY <1>1, <1>2 DEF NameInv, TypeOK
  <2>2. rooms'[h] = r /\ \A g \in Hash \ {h} : rooms'[g] = rooms[g]
      BY <1>6 DEF TypeOK
  <2>3. \A q \in Conn \ {r} : peers'[q] = peers[q]
      BY <1>6 DEF TypeOK
  <2>4. \A g \in Hash : rooms'[g] # None => at'[rooms'[g]] = g
      BY <1>1, <1>2, <1>a, <2>1, <2>2 DEF NameInv
  <2>5. ASSUME NEW q \in Conn, peers'[q] # {}  PROVE Live(q)'
    <3>1. CASE q = r
        BY <1>2, <2>1, <2>2, <3>1 DEF Live
    <3>2. CASE q # r
      <4>1. Live(q) /\ q # c
          BY <1>1, <2>3, <2>5, <3>2 DEF NoOrphans
      <4>2. at[q] # h
          BY <3>2, <4>1, ActorsAre DEF Live
      <4> QED
          BY <1>2, <2>2, <4>1, <4>2 DEF Live, TypeOK
    <3> QED
        BY <3>1, <3>2
  <2> QED
      BY <1>4, <2>4, <2>5 DEF NameInv, NoOrphans
<1> QED
    BY <1>5, <1>6 DEF Enter

\* With no lifetime cap, every step leaves everybody in a room its name leads to.
LEMMA CaplessStep ==
    TypeInv /\ TypeInv' /\ Capless /\ [Next]_vars => Capless'
<1> SUFFICES ASSUME TypeInv, Capless, [Next]_vars, ~MayExpire
             PROVE  NameInv' /\ NoOrphans'
    BY DEF Capless
<1> USE DEF tables, clipVars, roomVars, connVars, coVars, wireVars, clientVars, retireVars
<1>1. NameInv /\ NoOrphans /\ TypeOK
    BY DEF Capless, TypeInv
<1>2. ASSUME NEW c \in Conn, NEW h \in Hash, Join(c, h)
      PROVE  NameInv' /\ NoOrphans'
  <2>1. rooms[h] # None => ~expired[rooms[h]]
      BY <1>1 DEF NameInv, TypeOK
  <2> QED
      BY <1>1, <1>2, <2>1, EnterLive DEF Join
\* No room is expired, so none is retired.
<1>3. ASSUME NEW a \in Actor, Retire(a)  PROVE FALSE
    BY <1>1, <1>3, ActorsAre DEF Retire, RetireOne, JoinRetired, SweepRetired, NameInv
<1>4. ASSUME NEW c \in Conn, NEW h \in Hash, JoinExpired(c, h)  PROVE FALSE
    BY <1>1, <1>4 DEF JoinExpired, NameInv, TypeOK
<1>5. ASSUME NEW c \in Conn, NEW h \in Hash, JoinRefused(c, h)
      PROVE  NameInv' /\ NoOrphans'
  <2>1. /\ at' = [at EXCEPT ![c] = h] /\ pc' = [pc EXCEPT ![c] = "ended"] /\ pc[c] = "new"
        /\ UNCHANGED <<rooms, peers, room, timer, expired, todo>>
      BY <1>5 DEF JoinRefused
  <2>2. at[c] = None /\ peers[c] = {} /\ \A g \in Hash : rooms[g] # c
      BY <1>1, <2>1, ActorsAre DEF NameInv, NoOrphans, Live
  <2>3. \A d \in Conn \ {c} : at'[d] = at[d] /\ pc'[d] = pc[d]
      BY <1>1, <2>1 DEF TypeOK
  <2>4. pc'[c] # "new"
      BY <1>1, <2>1 DEF TypeOK
  <2>5. NameInv'
      BY <1>1, <2>1, <2>2, <2>3, <2>4 DEF NameInv, TypeOK
  <2>6. NoOrphans'
    <3>1. \A d \in Conn : peers[d] # {} => d # c
        BY <2>2
    <3>2. \A d \in Conn \ {c} : Live(d) => Live(d)'
        BY <2>1, <2>3 DEF Live
    <3> QED
        BY <1>1, <2>1, <3>1, <3>2 DEF NoOrphans
  <2> QED
      BY <2>5, <2>6
\* An eviction looks at the room before it forgets it.
<1>6. ASSUME NEW c \in Conn, Evict(c)
      PROVE  NameInv' /\ NoOrphans'
  <2>1. /\ UNCHANGED <<at, pc, room, peers, expired, todo>>
        /\ timer' = [timer EXCEPT ![c] = -1]
      BY <1>6 DEF Evict
  <2>2. \A h \in Hash : rooms'[h] # None => rooms'[h] = rooms[h]
      BY <1>1, <1>6 DEF Evict, Forget, Forgotten, TypeOK
  <2>a. \A d \in Conn : timer[d] = -1 => timer'[d] = -1
      BY <1>1, <2>1 DEF TypeOK
  <2>3. NameInv'
      BY <1>1, <2>1, <2>2, <2>a DEF NameInv
  <2>4. ASSUME NEW q \in Conn, peers[q] # {}  PROVE rooms'[at[q]] = rooms[at[q]]
    <3>1. Live(q) /\ at[q] \in Hash
        BY <1>1, <2>4 DEF NoOrphans, Live, TypeOK
    <3>2. at[c] = at[q] => rooms[at[c]] = q
        BY <3>1 DEF Live
    <3>3. CASE peers[rooms[at[c]]] = {}
      <4>1. at[c] # at[q]
          BY <2>4, <3>2, <3>3
      <4>2. CASE rooms[at[c]] = None
          BY <1>6, <4>2 DEF Evict
      <4>3. CASE rooms[at[c]] # None
        <5>1. at[c] \in Hash
          <6>1. timer[c] # -1
              BY <1>6 DEF Evict
          <6> QED
              BY <1>1, <6>1 DEF NameInv, TypeOK
        <5>2. at[rooms[at[c]]] = at[c]
            BY <1>1, <4>3, <5>1 DEF NameInv
        <5>3. rooms' = Forget(rooms[at[c]])
            BY <1>6, <3>3, <4>3 DEF Evict
        <5> QED
            BY <3>1, <4>1, <5>2, <5>3 DEF Forget, Forgotten
      <4> QED
          BY <4>2, <4>3
    <3>4. CASE peers[rooms[at[c]]] # {}
        BY <1>6, <3>4 DEF Evict
    <3> QED
        BY <3>3, <3>4
  <2>5. NoOrphans'
      BY <1>1, <2>1, <2>4 DEF NoOrphans, Live
  <2> QED
      BY <2>3, <2>5
<1>7. CASE Sweep
    BY <1>7 DEF Sweep
<1>8. ASSUME UNCHANGED <<rooms, room, at, expired, todo>>,
             \A c \in Conn : /\ pc'[c] = "new" => pc[c] = "new"
                             /\ timer[c] = -1 /\ room[c] = None => timer'[c] = -1,
             \A r \in Conn : peers'[r] \subseteq peers[r]
      PROVE  NameInv' /\ NoOrphans'
    BY <1>1, <1>8 DEF NameInv, NoOrphans, Live
<1>a. \A T : After(T) \in Places \ {"new"}
    BY DEF After, Places
<1>p. pc \in [Conn -> Places]
    BY <1>1 DEF TypeOK
<1>9. ASSUME NEW c \in Conn, Serve(c) \/ Farewell(c) \/ Write(c)
      PROVE  NameInv' /\ NoOrphans'
  <2>1. UNCHANGED <<rooms, room, at, expired, todo>>
      BY <1>9 DEF Serve, Farewell, Write, Welcomed, FanOutDone, ForwardDone, Answered, PostEnds,
                  StreamOpens, Depart, StreamEnds, StreamEnded, DepartureAnnounced, Deliver,
                  Lost, WriteFails
  <2>2. \A d \in Conn : pc'[d] = "new" => pc[d] = "new"
    <3>1. ASSUME pc' = pc \/ \E x \in Places \ {"new"} : pc' = [pc EXCEPT ![c] = x]
          PROVE  \A d \in Conn : pc'[d] = "new" => pc[d] = "new"
        BY <1>p, <3>1
    <3>2. CASE Welcomed(c) \/ PostEnds(c) \/ ForwardDone(c)
        BY <1>a, <3>1, <3>2, Named DEF Welcomed, PostEnds, ForwardDone
    <3>3. CASE FanOutDone(c)
        BY <1>a, <3>1, <3>3, Named DEF FanOutDone
    <3>4. CASE Answered(c)
        BY <1>a, <3>1, <3>4, Named DEF Answered
    <3>5. CASE StreamOpens(c) \/ Depart(c) \/ StreamEnds(c)
        BY <1>a, <3>1, <3>5, Named DEF StreamOpens, Depart, StreamEnds
    <3>6. CASE Farewell(c)
        BY <1>a, <3>1, <3>6, Named DEF Farewell, StreamEnded, DepartureAnnounced
    <3>7. CASE Write(c)
        BY <1>a, <3>1, <3>7, Named DEF Write, Deliver, Lost, WriteFails
    <3> QED
        BY <1>9, <3>2, <3>3, <3>4, <3>5, <3>6, <3>7 DEF Serve
  <2>3. Calm \/ LosesPeers
      BY <1>9, OthersLose
  <2>4. \A r \in Conn : peers'[r] \subseteq peers[r]
      BY <1>1, <2>3, DropLoses DEF Calm, LosesPeers
  <2>5. \A d \in Conn : timer[d] = -1 /\ room[d] = None => timer'[d] = -1
    <3>1. CASE Depart(c) \/ StreamEnded(c)
      <4>1. room[c] # None
          BY <3>1, Served, ActorsAre DEF Depart, StreamEnded
      <4> QED
          BY <1>1, <3>1, <4>1 DEF Depart, StreamEnded, AfterDeparture, TypeOK
    <3>2. CASE ~(Depart(c) \/ StreamEnded(c))
      <4>1. UNCHANGED timer
          BY <1>9, <3>2
          DEF Serve, Farewell, Write, Welcomed, FanOutDone, ForwardDone, Answered, PostEnds,
              StreamOpens, StreamEnds, DepartureAnnounced, Deliver, Lost, WriteFails
      <4> QED
          BY <4>1
    <3> QED
        BY <3>1, <3>2
  <2> QED
      BY <1>8, <2>1, <2>2, <2>4, <2>5
<1>10. ASSUME NEW c \in Conn,
              \/ PostBegins(c) \/ Clip(c) \/ RoomWide(c) \/ Answer(c) \/ Vanish(c) \/ Expire(c)
              \/ \E p \in Conn : Forward(c, p)
              \/ \E wanted \in OriginId \cup {id[c]} : Hello(c, wanted)
              \/ \E wanted \in OriginId, renamed \in BOOLEAN : HelloTaken(c, wanted, renamed)
       PROVE  NameInv' /\ NoOrphans'
  <2>1. UNCHANGED <<rooms, room, at, timer, expired, todo, peers>>
      BY <1>10 DEF PostBegins, Clip, RoomWide, Answer, Forward, Hello, HelloTaken, Vanish, Expire
  <2>2. \A d \in Conn : pc'[d] = "new" => pc[d] = "new"
    <3>1. pc' = pc \/ \E x \in Places \ {"new"} : pc' = [pc EXCEPT ![c] = x]
      <4>1. CASE PostBegins(c) \/ Clip(c) \/ RoomWide(c) \/ Answer(c) \/ Vanish(c) \/ Expire(c)
          BY <1>a, <4>1, Named DEF PostBegins, Clip, RoomWide, Answer, Vanish, Expire
      <4>2. CASE \E p \in Conn : Forward(c, p)
          BY <4>2, Named DEF Forward
      <4>3. CASE \E w \in OriginId \cup {id[c]} : Hello(c, w)
          BY <1>a, <4>3 DEF Hello
      <4>4. CASE \E w \in OriginId, renamed \in BOOLEAN : HelloTaken(c, w, renamed)
          BY <4>4, Named DEF HelloTaken
      <4> QED
          BY <1>10, <4>1, <4>2, <4>3, <4>4
    <3> QED
        BY <1>p, <3>1
  <2> QED
      BY <1>8, <2>1, <2>2
<1>11. CASE Tick \/ UNCHANGED vars
  <2>1. UNCHANGED <<rooms, room, at, expired, todo, pc, peers>>
      BY <1>11 DEF Tick, vars
  <2>2. \A d \in Conn : timer[d] = -1 => timer'[d] = -1
      BY <1>1, <1>11 DEF Tick, vars, TypeOK
  <2> QED
      BY <1>8, <2>1, <2>2
<1> QED
    BY <1>2, <1>3, <1>4, <1>5, <1>6, <1>7, <1>9, <1>10, <1>11 DEF Next, Environment

\* With no lifetime cap, nobody is in a room to begin with.
LEMMA CaplessInit == Init => Capless
BY DEF Init, Capless, NameInv, NoOrphans

\* Without a lifetime cap everybody in a room is in the one its name leads to:
\* only the end of an expired room can split one (_retire).
THEOREM NeverSplit == Spec => [](~MayExpire => NoOrphans)
<1>1. Capless => (~MayExpire => NoOrphans)
    BY DEF Capless
<1> QED
    BY <1>1, TypeInit, CaplessInit, TypeStep, CaplessStep, PTL DEF Spec

-----------------------------------------------------------------------------
(* A room that is over only empties, with or without a lifetime cap *)

\* The table leads from a name only to a room of that name, whose creator is
\* in it or has left it; and who is in a room has asked for one.
TrueToName ==
    /\ \A h \in Hash : rooms[h] # None => room[rooms[h]] = rooms[h] /\ at[rooms[h]] = h
    /\ \A c \in Conn : room[c] # None => at[c] # None

\* A join that retires a room waits for the room of the name it asked for; only
\* a room that was there expires.
OwnRetired ==
    /\ \A c \in Conn : todo[c] # {} =>
          room[retiring[c]] = retiring[c] /\ at[retiring[c]] = at[c]
    /\ \A r \in Conn : expired[r] => room[r] = r

\* No join that waits is new, and each waits for what it waited for.
Waits(c) == todo'[c] # {} => todo[c] # {} /\ retiring'[c] = retiring[c]

\* A join that begins to wait, for the room its name leads to.
BeginsToWait(c) ==
    /\ pc[c] = "new" /\ at'[c] # None
    /\ rooms[at'[c]] # None /\ retiring'[c] = rooms[at'[c]]

\* A step that lets nobody in: names and peers are lost if anything, and only
\* a connection new to the relay asks for a room.
Thins ==
    /\ \A h \in Hash : rooms'[h] \in {None, rooms[h]}
    /\ room' = room
    /\ \A c \in Conn : peers'[c] \subseteq peers[c]
    /\ \A c \in Conn : at'[c] = at[c] \/ (pc[c] = "new" /\ at'[c] # None)
    /\ \A c \in Conn : Waits(c) \/ BeginsToWait(c)
    /\ \A r \in Conn : expired'[r] => expired[r] \/ Live(r)

\* A step that lets c into the room h leads to, unless it has expired, or into
\* a new one.
Enters(c, h) ==
    /\ pc[c] \in {"new", "retiring"}
    /\ \A d \in Conn \ {c} : at'[d] = at[d] /\ room'[d] = room[d]
    /\ at'[c] = h /\ todo'[c] = {} /\ expired' = expired
    /\ \A d \in Conn : Waits(d)
    /\ \E r \in Conn :
          /\ r # c => rooms[h] = r /\ ~expired[r]
          /\ room'[c] = r
          /\ \A g \in Hash : rooms'[g] \in {None, rooms[g]} \/ (g = h /\ rooms'[g] = r)
          /\ rooms'[h] = r
          /\ \A q \in Conn : q # r => peers'[q] \subseteq peers[q]

\* An entry by a table that leads no further than the relay's either enters or
\* is refused.
LEMMA EntryLeads ==
    ASSUME TypeInv, NEW c \in Conn, NEW h \in Hash, pc[c] \in {"new", "retiring"},
           NEW table \in [Hash -> Conn \cup {None}],
           \A g \in Hash : table[g] \in {None, rooms[g]},
           table[h] # None => ~expired[table[h]],
           NEW l, NEW N,
           NEW P \in [Conn -> SUBSET Conn], \A q \in Conn : P[q] \subseteq peers[q],
           Enter(c, h, table, l, P, N),
           at' = [at EXCEPT ![c] = h], at[c] = h \/ pc[c] = "new",
           todo'[c] = {}, expired' = expired, \A d \in Conn : Waits(d)
    PROVE  Thins \/ Enters(c, h)
<1> DEFINE r == IF table[h] = None THEN c ELSE table[h]
<1>1. r \in Conn /\ r # None /\ h # None /\ (r # c => rooms[h] = r /\ ~expired[r])
    BY ActorsAre
<1>2. at'[c] = h /\ \A d \in Conn \ {c} : at'[d] = at[d]
    BY DEF TypeInv, TypeOK
<1>3. CASE rooms' = table /\ peers' = P /\ UNCHANGED room
  <2>1. \A d \in Conn : at'[d] = at[d] \/ (pc[d] = "new" /\ at'[d] # None)
      BY <1>1, <1>2
  <2> QED
      BY <1>3, <2>1 DEF Thins
<1>4. CASE /\ rooms' = [table EXCEPT ![h] = r] /\ peers' = [P EXCEPT ![r] = @ \cup {c}]
           /\ room' = [room EXCEPT ![c] = r]
  <2> HIDE DEF r
  <2>1. room'[c] = r /\ \A d \in Conn \ {c} : room'[d] = room[d]
      BY <1>4 DEF TypeInv, TypeOK
  <2>2. rooms'[h] = r /\ \A g \in Hash : rooms'[g] \in {None, rooms[g]} \/ (g = h /\ rooms'[g] = r)
      BY <1>4
  <2>3. \A q \in Conn : q # r => peers'[q] \subseteq peers[q]
      BY <1>4
  <2> QED
      BY <1>1, <1>2, <2>1, <2>2, <2>3 DEF Enters
<1> QED
    BY <1>3, <1>4 DEF Enter

\* A sweep forgets names and leads to no new room.
LEMMA SweepLeads ==
    ASSUME NEW S, NEW table, NEW L, SweepOn(S, table, L)
    PROVE  \A h \in Hash : rooms'[h] \in {None, table[h]}
BY DEF SweepOn, Skim, Forgotten

\* Every step thins the relay out or lets one connection in.
LEMMA ThinsOrEnters ==
    ASSUME TypeInv, TrueToName, OwnRetired, [Next]_vars
    PROVE  Thins \/ \E c \in Conn, h \in Hash : Enters(c, h)
<1> USE DEF tables, clipVars, roomVars, connVars, coVars, wireVars, clientVars, retireVars
<1>1. TypeOK
    BY DEF TypeInv
<1>2. /\ rooms \in [Hash -> Conn \cup {None}] /\ peers \in [Conn -> SUBSET Conn]
      /\ \A r : /\ Forget(r) \in [Hash -> Conn \cup {None}]
                /\ \A h \in Hash : Forget(r)[h] \in {None, rooms[h]}
    BY <1>1 DEF TypeOK, Forget, Forgotten
<1>w. UNCHANGED <<retiring, todo>> => \A d \in Conn : Waits(d)
    BY DEF Waits
<1>3. ASSUME NEW c \in Conn, NEW h \in Hash, Join(c, h)
      PROVE  Thins \/ Enters(c, h)
  <2> DEFINE table == IF rooms[h] # None /\ expired[rooms[h]] THEN Forget(rooms[h]) ELSE rooms
  <2>1. /\ Enter(c, h, table, line, peers, ipConns)
        /\ pc[c] = "new" /\ at' = [at EXCEPT ![c] = h] /\ UNCHANGED <<retiring, todo, expired>>
      BY <1>3 DEF Join
  <2>2. table \in [Hash -> Conn \cup {None}] /\ \A g \in Hash : table[g] \in {None, rooms[g]}
      BY <1>2
  <2>3. table[h] # None => ~expired[table[h]]
    <3>1. CASE rooms[h] # None /\ expired[rooms[h]]
      <4>1. at[rooms[h]] = h
          BY <3>1 DEF TrueToName
      <4> QED
          BY <3>1, <4>1 DEF Forget, Forgotten
    <3>2. CASE ~(rooms[h] # None /\ expired[rooms[h]])
        BY <3>2
    <3> QED
        BY <3>1, <3>2
  <2>4. todo'[c] = {}
      BY <2>1 DEF TypeInv, Underway
  <2> HIDE DEF table
  <2> QED
      BY <1>2, <1>w, <2>1, <2>2, <2>3, <2>4, EntryLeads
<1>4. ASSUME NEW c \in Conn, NEW p \in Conn, JoinRetired(c, p)
      PROVE  Thins \/ Enters(c, at[c])
  <2> DEFINE r == retiring[c]
  <2>1. /\ todo[c] = {p} /\ UNCHANGED <<at, expired>>
        /\ retiring' = [retiring EXCEPT ![c] = None] /\ todo' = [todo EXCEPT ![c] = {}]
        /\ Enter(c, at[c], Forget(r), CutOff(p), Without(r, {p}), Uncharged(r, {p}))
      BY <1>4 DEF JoinRetired
  <2>2. at[c] \in Hash /\ pc[c] = "retiring" /\ at' = [at EXCEPT ![c] = at[c]]
    <3>1. at[c] # None /\ pc[c] = "retiring"
        BY <2>1 DEF TypeInv, Underway
    <3> QED
        BY <1>1, <2>1, <3>1 DEF TypeOK
  <2>3. Without(r, {p}) \in [Conn -> SUBSET Conn]
      BY <1>1, DropType
  <2>4. \A q \in Conn : Without(r, {p})[q] \subseteq peers[q]
      BY <1>2 DEF Without
  <2>5. Forget(r)[at[c]] = None
    <3>1. at[r] = at[c]
        BY <2>1 DEF OwnRetired
    <3> QED
        BY <2>2, <3>1 DEF Forget, Forgotten
  <2>6. todo'[c] = {} /\ \A d \in Conn : Waits(d)
    <3>1. \A d \in Conn : d # c => todo'[d] = todo[d] /\ retiring'[d] = retiring[d]
        BY <1>1, <2>1, ActorsAre DEF TypeOK
    <3>2. todo'[c] = {}
        BY <1>1, <2>1, ActorsAre DEF TypeOK
    <3> QED
        BY <3>1, <3>2 DEF Waits
  <2> HIDE DEF r
  <2> QED
      BY <1>2, <2>1, <2>2, <2>3, <2>4, <2>5, <2>6, EntryLeads
<1>5. ASSUME NEW c \in Conn, Evict(c)
      PROVE  Thins
  <2>1. /\ UNCHANGED <<room, peers, at, retiring, todo, expired>>
        /\ rooms' \in {rooms, Forget(rooms[at[c]])}
      BY <1>5 DEF Evict
  <2> QED
      BY <1>2, <1>w, <2>1 DEF Thins
<1>6. ASSUME NEW c \in Conn, Serve(c) \/ Farewell(c) \/ Write(c)
      PROVE  Thins
  <2>1. UNCHANGED <<rooms, room, at, retiring, todo, expired>>
      BY <1>6 DEF Serve, Farewell, Write, Welcomed, FanOutDone, ForwardDone, Answered, PostEnds,
                  StreamOpens, Depart, StreamEnds, StreamEnded, DepartureAnnounced, Deliver,
                  Lost, WriteFails
  <2>2. Calm \/ LosesPeers
      BY <1>6, OthersLose
  <2>3. \A r \in Conn : peers'[r] \subseteq peers[r]
      BY <1>1, <2>2, DropLoses DEF Calm, LosesPeers
  <2> QED
      BY <1>w, <2>1, <2>3 DEF Thins
<1>7. ASSUME NEW c \in Conn, NEW h \in Hash, JoinRefused(c, h) \/ JoinExpired(c, h)
      PROVE  Thins
  <2>1. /\ UNCHANGED <<rooms, room, peers, expired>>
        /\ at' = [at EXCEPT ![c] = h] /\ pc[c] = "new"
      BY <1>7 DEF JoinRefused, JoinExpired
  <2>2. at'[c] = h /\ h # None /\ \A d \in Conn : d # c => at'[d] = at[d]
      BY <1>1, <2>1, ActorsAre DEF TypeOK
  <2>3. CASE UNCHANGED <<retiring, todo>>
      BY <1>w, <2>1, <2>2, <2>3 DEF Thins
  <2>4. CASE JoinExpired(c, h)
    <3>1. /\ retiring' = [retiring EXCEPT ![c] = rooms[h]] /\ rooms[h] # None
          /\ todo' = [todo EXCEPT ![c] = peers[rooms[h]]]
        BY <2>4 DEF JoinExpired
    <3>2. BeginsToWait(c)
        BY <1>1, <2>1, <2>2, <3>1, ActorsAre DEF BeginsToWait, TypeOK
    <3>3. \A d \in Conn : d # c => Waits(d)
        BY <1>1, <3>1, ActorsAre DEF Waits, TypeOK
    <3> QED
        BY <2>1, <2>2, <3>2, <3>3 DEF Thins
  <2>5. UNCHANGED <<retiring, todo>> \/ JoinExpired(c, h)
      BY <1>7 DEF JoinRefused
  <2> QED
      BY <2>3, <2>4, <2>5
<1>8. ASSUME NEW c \in Conn,
             \/ PostBegins(c) \/ Clip(c) \/ RoomWide(c) \/ Answer(c) \/ Vanish(c)
             \/ \E p \in Conn : Forward(c, p)
             \/ \E wanted \in OriginId \cup {id[c]} : Hello(c, wanted)
             \/ \E wanted \in OriginId, renamed \in BOOLEAN : HelloTaken(c, wanted, renamed)
      PROVE  Thins
  <2>1. UNCHANGED <<rooms, room, at, peers, retiring, todo, expired>>
      BY <1>8 DEF PostBegins, Clip, RoomWide, Answer, Forward, Hello, HelloTaken, Vanish
  <2> QED
      BY <1>w, <2>1 DEF Thins
<1>9. ASSUME NEW r \in Conn, Expire(r)
      PROVE  Thins
  <2>1. /\ UNCHANGED <<rooms, room, at, peers, retiring, todo>>
        /\ Live(r) /\ expired' = [expired EXCEPT ![r] = TRUE]
      BY <1>9 DEF Expire
  <2>2. \A q \in Conn : expired'[q] => expired[q] \/ Live(q)
      BY <1>1, <2>1 DEF TypeOK
  <2> QED
      BY <1>w, <2>1, <2>2 DEF Thins
<1>10. ASSUME NEW a \in Actor, NEW p \in Conn, RetireOne(a, p)
       PROVE  Thins
  <2>1. /\ UNCHANGED <<rooms, room, at, retiring, expired>> /\ Drop(retiring[a], {p})
        /\ p \in todo[a] /\ todo' = [todo EXCEPT ![a] = @ \ {p}]
      BY <1>10 DEF RetireOne
  <2>2. \A q \in Conn : peers'[q] \subseteq peers[q]
      BY <1>1, <2>1, DropLoses
  <2>3. \A d \in Conn : Waits(d)
      BY <1>1, <2>1, ActorsAre DEF TypeOK, Waits
  <2> QED
      BY <2>1, <2>2, <2>3 DEF Thins
<1>s. ASSUME NEW S, NEW table, NEW L, SweepOn(S, table, L)
      PROVE  \A d \in Conn : Waits(d)
  <2>1. \A d \in Conn : todo'[d] = todo[d] /\ retiring'[d] = retiring[d]
      BY <1>1, <1>s, ActorsAre DEF SweepOn, TypeOK
  <2> QED
      BY <2>1 DEF Waits
<1>11. ASSUME NEW p \in Conn, SweepRetired(p)
       PROVE  Thins
  <2> DEFINE r == retiring[Sweeper]
  <2>1. /\ UNCHANGED <<room, at, expired>> /\ Drop(r, {p})
        /\ SweepOn(sweep, Forget(r), [last EXCEPT ![r] = 0])
      BY <1>11 DEF SweepRetired
  <2>2. \A h \in Hash : rooms'[h] \in {None, Forget(r)[h]}
      BY <2>1, SweepLeads
  <2>3. \A q \in Conn : peers'[q] \subseteq peers[q]
      BY <1>1, <2>1, DropLoses
  <2>4. \A d \in Conn : Waits(d)
      BY <1>s, <2>1
  <2> QED
      BY <1>2, <2>1, <2>2, <2>3, <2>4 DEF Thins
<1>12. CASE Sweep \/ Tick \/ UNCHANGED vars
  <2>1. CASE Sweep
    <3>1. /\ UNCHANGED <<room, at, peers, expired>>
          /\ SweepOn({rooms[h] : h \in Hash} \ {None}, rooms, last)
        BY <2>1 DEF Sweep
    <3>2. \A h \in Hash : rooms'[h] \in {None, rooms[h]}
        BY <3>1, SweepLeads
    <3>3. \A d \in Conn : Waits(d)
        BY <1>s, <3>1
    <3> QED
        BY <3>1, <3>2, <3>3 DEF Thins
  <2>2. CASE Tick \/ UNCHANGED vars
    <3>1. UNCHANGED <<rooms, room, at, peers, retiring, todo, expired>>
        BY <2>2 DEF Tick, vars
    <3> QED
        BY <1>w, <3>1 DEF Thins
  <2> QED
      BY <1>12, <2>1, <2>2
<1>13. CASE Environment
  <2>1. CASE \E c \in Conn, h \in Hash : JoinRefused(c, h) \/ JoinExpired(c, h)
      BY <1>7, <2>1
  <2>2. CASE \E c \in Conn, h \in Hash : Join(c, h)
      BY <1>3, <2>2
  <2> QED
      BY <1>8, <1>9, <1>13, <2>1, <2>2 DEF Environment
<1>14. CASE \E a \in Actor : Retire(a)
  <2>1. ASSUME NEW c \in Conn, NEW p \in Conn, JoinRetired(c, p)
        PROVE  at[c] \in Hash
    <3>1. todo[c] # {}
        BY <2>1 DEF JoinRetired
    <3>2. at[c] # None
        BY <3>1 DEF TypeInv, Underway
    <3> QED
        BY <1>1, <3>2 DEF TypeOK
  <2> QED
      BY <1>4, <1>10, <1>11, <1>14, <2>1 DEF Retire
<1> QED
    BY <1>5, <1>6, <1>12, <1>13, <1>14 DEF Next

\* A relay just started leads nowhere and retires nothing.
LEMMA TableInit == Init => TrueToName /\ OwnRetired
<1> SUFFICES ASSUME Init  PROVE TrueToName /\ OwnRetired
    OBVIOUS
<1>1. TrueToName
    BY DEF Init, TrueToName
<1>2. \A c \in Conn : todo[c] = {} /\ ~expired[c]
    BY ActorsAre DEF Init
<1> QED
    BY <1>1, <1>2 DEF OwnRetired

\* What a step that lets nobody in makes of the table and the rooms.
LEMMA ThinStep ==
    ASSUME TypeInv, TypeInv', TrueToName, OwnRetired, Thins
    PROVE  TrueToName' /\ OwnRetired' /\ \A r \in Conn : Empties(r)
<1>1. /\ rooms \in [Hash -> Conn \cup {None}] /\ rooms' \in [Hash -> Conn \cup {None}]
      /\ at \in [Conn -> Hash \cup {None}] /\ at' \in [Conn -> Hash \cup {None}]
      /\ room \in [Conn -> Conn \cup {None}] /\ retiring \in [Actor -> Conn \cup {None}]
      /\ \A c \in Conn : pc[c] \in {"new", "retiring"} => room[c] = None
    BY DEF TypeInv, TypeOK, Placed
<1>2. \A c \in Conn : room[c] # None => at'[c] = at[c]
    BY <1>1 DEF Thins
<1>3. ASSUME NEW h \in Hash, rooms'[h] # None
      PROVE  rooms'[h] = rooms[h] /\ rooms[h] \in Conn /\ room[rooms[h]] = rooms[h]
             /\ at[rooms[h]] = h
    BY <1>1, <1>3 DEF Thins, TrueToName
<1>4. TrueToName'
    BY <1>1, <1>2, <1>3, ActorsAre DEF TrueToName, Thins
<1>5. ASSUME NEW c \in Conn, todo'[c] # {}
      PROVE  room'[retiring'[c]] = retiring'[c] /\ at'[retiring'[c]] = at'[c]
  <2>1. CASE todo[c] # {} /\ retiring'[c] = retiring[c]
    <3>1. retiring[c] \in Conn /\ pc[c] = "retiring"
        BY <1>1, <2>1, ActorsAre DEF TypeInv, Underway
    <3>2. at'[c] = at[c] /\ room' = room
        BY <3>1 DEF Thins
    <3>3. room[retiring[c]] = retiring[c] /\ at[retiring[c]] = at[c]
        BY <2>1 DEF OwnRetired
    <3> QED
        BY <1>2, <2>1, <3>1, <3>2, <3>3, ActorsAre
  <2>2. CASE BeginsToWait(c)
    <3>1. at'[c] \in Hash /\ rooms[at'[c]] # None /\ retiring'[c] = rooms[at'[c]]
        BY <1>1, <2>2 DEF BeginsToWait
    <3>2. /\ rooms[at'[c]] \in Conn /\ room[rooms[at'[c]]] = rooms[at'[c]]
          /\ at[rooms[at'[c]]] = at'[c]
        BY <1>1, <3>1 DEF TrueToName
    <3> QED
        BY <1>2, <3>1, <3>2, ActorsAre DEF Thins
  <2> QED
      BY <1>5, <2>1, <2>2 DEF Thins, Waits
<1>6. ASSUME NEW r \in Conn, expired'[r]
      PROVE  room'[r] = r
  <2>1. Live(r) => room[r] = r
      BY <1>1, ActorsAre DEF Live, TrueToName
  <2> QED
      BY <1>6, <2>1 DEF Thins, OwnRetired
<1>7. ASSUME NEW r \in Conn
      PROVE  Empties(r)
  <2>1. peers'[r] \subseteq peers[r]
      BY DEF Thins
  <2>2. ASSUME LetGo(r)  PROVE LetGo(r)'
    <3>1. room'[r] = r /\ at'[r] = at[r]
        BY <1>2, <2>2, ActorsAre DEF LetGo, Thins
    <3>2. ~Live(r)'
        BY <1>1, <1>3, <2>2, <3>1, ActorsAre DEF LetGo, Live
    <3> QED
        BY <3>1, <3>2 DEF LetGo
  <2> QED
      BY <2>1, <2>2 DEF Empties
<1> QED
    BY <1>4, <1>5, <1>6, <1>7 DEF OwnRetired

\* What a step that lets somebody in makes of them.
LEMMA EntryStep ==
    ASSUME TypeInv, TypeInv', TrueToName, OwnRetired, NEW c \in Conn, NEW h \in Hash, Enters(c, h)
    PROVE  TrueToName' /\ OwnRetired' /\ \A r \in Conn : Empties(r)
<1>1. /\ rooms \in [Hash -> Conn \cup {None}] /\ rooms' \in [Hash -> Conn \cup {None}]
      /\ at \in [Conn -> Hash \cup {None}] /\ at' \in [Conn -> Hash \cup {None}]
      /\ room \in [Conn -> Conn \cup {None}] /\ retiring \in [Actor -> Conn \cup {None}]
      /\ \A d \in Conn : pc[d] \in {"new", "retiring"} => room[d] = None
    BY DEF TypeInv, TypeOK, Placed
<1>2. PICK r \in Conn :
         /\ r # c => rooms[h] = r /\ ~expired[r]
         /\ room'[c] = r
         /\ \A g \in Hash : rooms'[g] \in {None, rooms[g]} \/ (g = h /\ rooms'[g] = r)
         /\ rooms'[h] = r
         /\ \A q \in Conn : q # r => peers'[q] \subseteq peers[q]
    BY DEF Enters
<1>3. /\ room[c] = None /\ at'[c] = h /\ h # None /\ c # None /\ r # None
      /\ todo'[c] = {} /\ expired' = expired /\ \A d \in Conn : Waits(d)
      /\ \A d \in Conn \ {c} : at'[d] = at[d] /\ room'[d] = room[d]
    BY <1>1, ActorsAre DEF Enters
<1>4. room'[r] = r /\ at'[r] = h
    BY <1>2, <1>3 DEF TrueToName
<1>5. ASSUME NEW g \in Hash, rooms'[g] # None, ~(g = h /\ rooms'[g] = r)
      PROVE  /\ rooms'[g] = rooms[g] /\ rooms[g] \in Conn \ {c}
             /\ room[rooms[g]] = rooms[g] /\ at[rooms[g]] = g
  <2>1. rooms'[g] = rooms[g] /\ rooms[g] # None
      BY <1>2, <1>5
  <2>2. rooms[g] \in Conn /\ room[rooms[g]] = rooms[g] /\ at[rooms[g]] = g
      BY <1>1, <2>1 DEF TrueToName
  <2> QED
      BY <1>3, <2>1, <2>2
<1>6. TrueToName'
  <2>1. \A g \in Hash : rooms'[g] # None => room'[rooms'[g]] = rooms'[g] /\ at'[rooms'[g]] = g
      BY <1>3, <1>4, <1>5
  <2>2. \A d \in Conn : room'[d] # None => at'[d] # None
      BY <1>3 DEF TrueToName
  <2> QED
      BY <2>1, <2>2 DEF TrueToName
<1>7. ASSUME NEW d \in Conn, todo'[d] # {}
      PROVE  room'[retiring'[d]] = retiring'[d] /\ at'[retiring'[d]] = at'[d]
  <2>1. todo[d] # {} /\ retiring'[d] = retiring[d] /\ d # c
      BY <1>3, <1>7 DEF Waits
  <2>2. retiring[d] \in Conn
      BY <1>1, <2>1, ActorsAre DEF TypeInv, Underway
  <2>3. room[retiring[d]] = retiring[d] /\ at[retiring[d]] = at[d]
      BY <2>1 DEF OwnRetired
  <2>4. retiring[d] # c
      BY <1>3, <2>2, <2>3
  <2> QED
      BY <1>3, <2>1, <2>2, <2>3, <2>4
<1>8. \A q \in Conn : expired'[q] => q # c /\ room'[q] = q
    BY <1>3 DEF OwnRetired
<1>9. ASSUME NEW q \in Conn
      PROVE  Empties(q)
  <2>1. ASSUME LetGo(q)  PROVE q # r /\ LetGo(q)'
    <3>1. q # c /\ at'[q] = at[q] /\ room'[q] = q /\ at[q] # None
        BY <1>3, <2>1, ActorsAre DEF LetGo, TrueToName
    <3>2. ASSUME q = r  PROVE FALSE
      <4>1. rooms[h] = r /\ at[r] = h
          BY <1>2, <1>3, <3>1, <3>2 DEF TrueToName
      <4> QED
          BY <1>3, <2>1, <3>2, <4>1 DEF LetGo, Live
    <3>3. at[q] \in Hash /\ rooms[at[q]] # q
        BY <1>1, <2>1, <3>1 DEF LetGo, Live
    <3>4. rooms'[at[q]] # q
        BY <1>2, <3>2, <3>3, ActorsAre
    <3> QED
        BY <3>1, <3>2, <3>4 DEF LetGo, Live
  <2>2. expired[q] => q # r
      BY <1>2, <1>3, <1>8
  <2> QED
      BY <1>2, <2>1, <2>2 DEF Empties
<1> QED
    BY <1>6, <1>7, <1>8, <1>9 DEF OwnRetired

\* With or without a lifetime cap, a room that is over is over for good.
THEOREM RoomsEndForGood == Spec => OnlyEmpties
<1>1. TypeInv /\ TypeInv' /\ TrueToName /\ OwnRetired /\ [Next]_vars
        => TrueToName' /\ OwnRetired' /\ \A r \in Conn : Empties(r)
    BY ThinsOrEnters, ThinStep, EntryStep
<1>2. TypeInv /\ TypeInv' /\ TrueToName /\ OwnRetired /\ [Next]_vars
        => TrueToName' /\ OwnRetired' /\ [\A r \in Conn : Empties(r)]_vars
    BY <1>1
<1> QED
    BY <1>2, TypeInit, TableInit, TypeStep, PTL DEF Spec, OnlyEmpties

-----------------------------------------------------------------------------
(* The ceiling on an address, where rooms have no lifetime cap *)

\* No address has more "live connections from one source address"
\* (backend/main.py:192) than it may.  It is checked at the door, and a join
\* that then retires an expired room has suspended when it is charged.
IpCeiling == MaxConnsPerIp > 0 => \A i \in Ip : ipConns[i] <= MaxConnsPerIp

\* An entry charges the newcomer's own address, by one, and no other.
LEMMA EnterCharges ==
    ASSUME NEW c, NEW h, NEW table, NEW lines, NEW P, NEW N \in [Ip -> Nat],
           Enter(c, h, table, lines, P, N)
    PROVE  \A i \in Ip : ipConns'[i] = N[i] \/ (i = IpOf[c] /\ ipConns'[i] = N[i] + 1)
<1>1. ipConns' = N \/ ipConns' = [i \in Ip |-> IF i = IpOf[c] THEN N[i] + 1 ELSE N[i]]
    BY DEF Enter
<1> QED
    BY <1>1

\* A discharge raises no count.
LEMMA DropDischarges ==
    ASSUME TypeOK, NEW r \in Conn, NEW D \in SUBSET Conn, Drop(r, D)
    PROVE  \A i \in Ip : ipConns'[i] <= ipConns[i]
<1> SUFFICES ASSUME NEW i \in Ip  PROVE ipConns'[i] <= ipConns[i]
    OBVIOUS
<1> DEFINE n == Cardinality({p \in D \cap peers[r] : IpOf[p] = i})
<1>1. ipConns[i] \in Nat
    BY DEF TypeOK
<1>2. n \in Nat
  <2>1. IsFiniteSet({p \in D \cap peers[r] : IpOf[p] = i})
      BY ConstantsAssumption, FS_Subset DEF ConstantsAssumption
  <2> QED
      BY <2>1, FS_CardinalityType
<1>3. ipConns'[i] = IF ipConns[i] > n THEN ipConns[i] - n ELSE 0
    BY DEF Drop, Uncharged
<1> HIDE DEF n
<1> QED
    BY <1>1, <1>2, <1>3

\* Where nothing is retired, every step keeps the addresses within their ceiling:
\* a join looks at the count and charges it without suspending in between.
LEMMA AddressStep ==
    ASSUME TypeInv, Capless, ~MayExpire, IpCeiling, [Next]_vars
    PROVE  IpCeiling'
<1> USE DEF tables, clipVars, roomVars, connVars, coVars, wireVars, clientVars, retireVars
<1>1. NameInv /\ TypeOK /\ ipConns \in [Ip -> Nat] /\ MaxConnsPerIp \in Nat
    BY ConstantsAssumption DEF Capless, TypeInv, TypeOK, ConstantsAssumption
<1>2. ASSUME UNCHANGED ipConns  PROVE IpCeiling'
    BY <1>2 DEF IpCeiling
<1>3. ASSUME NEW c \in Conn, NEW h \in Hash, Join(c, h)  PROVE IpCeiling'
  <2>1. ~RefusedAtDoor(c) /\ ~(rooms[h] # None /\ expired[rooms[h]])
      BY <1>1, <1>3 DEF Join, NameInv, TypeOK
  <2>2. Enter(c, h, rooms, line, peers, ipConns)
      BY <1>3, <2>1 DEF Join
  <2>3. \A i \in Ip : ipConns'[i] = ipConns[i] \/ (i = IpOf[c] /\ ipConns'[i] = ipConns[i] + 1)
      BY <1>1, <2>2, EnterCharges
  <2>4. ASSUME MaxConnsPerIp > 0, NEW i \in Ip, i = IpOf[c]
        PROVE  ipConns[i] + 1 <= MaxConnsPerIp
    <3>1. IpOf[c] # None
        BY <2>4, ConstantsAssumption DEF ConstantsAssumption
    <3>2. ~(ipConns[i] >= MaxConnsPerIp)
        BY <2>1, <2>4, <3>1 DEF RefusedAtDoor
    <3> QED
        BY <1>1, <3>2
  <2> QED
      BY <1>1, <2>3, <2>4 DEF IpCeiling
<1>4. ASSUME NEW a \in Actor, Retire(a)  PROVE FALSE
    BY <1>1, <1>4, ActorsAre DEF Retire, RetireOne, JoinRetired, SweepRetired, NameInv
<1>5. ASSUME NEW c \in Conn,
             \/ Serve(c) \/ Farewell(c) \/ Write(c) \/ Evict(c)
             \/ PostBegins(c) \/ Clip(c) \/ RoomWide(c) \/ Answer(c) \/ Vanish(c) \/ Expire(c)
             \/ \E p \in Conn : Forward(c, p)
             \/ \E wanted \in OriginId, renamed \in BOOLEAN : HelloTaken(c, wanted, renamed)
      PROVE  IpCeiling'
  <2>1. CASE Calm
      BY <1>2, <2>1 DEF Calm
  <2>2. CASE LosesPeers
    <3>1. \A i \in Ip : ipConns'[i] <= ipConns[i]
        BY <1>1, <2>2, DropDischarges DEF LosesPeers
    <3>2. \A i \in Ip : ipConns'[i] \in Nat
        BY TypeStep DEF TypeInv, TypeOK
    <3> QED
        BY <1>1, <3>1, <3>2 DEF IpCeiling
  <2> QED
      BY <1>5, <2>1, <2>2, OthersLose
<1>6. ASSUME NEW c \in Conn,
             \/ \E h \in Hash : JoinRefused(c, h) \/ JoinExpired(c, h)
             \/ \E wanted \in OriginId \cup {id[c]} : Hello(c, wanted)
      PROVE  IpCeiling'
    BY <1>2, <1>6 DEF JoinRefused, JoinExpired, Hello
<1>7. CASE Sweep \/ Tick \/ UNCHANGED vars
    BY <1>2, <1>7 DEF Sweep, Tick, vars
<1> QED
    BY <1>3, <1>4, <1>5, <1>6, <1>7 DEF Next, Environment

\* Nobody is counted to begin with.
LEMMA AddressInit == Init => IpCeiling
BY ConstantsAssumption DEF Init, IpCeiling, ConstantsAssumption

\* Without a lifetime cap no address has more connections than MAX_CONNS_PER_IP:
\* only a join that waits for a room to be retired is charged later than it is
\* looked at.
THEOREM AddressesStayWithin == Spec => [](~MayExpire => IpCeiling)
<1>1. TypeInv /\ Capless /\ (~MayExpire => IpCeiling) /\ [Next]_vars
        => (~MayExpire => IpCeiling)'
    BY AddressStep
<1>2. Init => (~MayExpire => IpCeiling)
    BY AddressInit
<1> QED
    BY <1>1, <1>2, TypeInit, CaplessInit, TypeStep, CaplessStep, PTL DEF Spec

-----------------------------------------------------------------------------
(* The TTL of a room, where everybody comes by a socket that answers *)

\* No lifetime cap, no event stream, and no write that misses its deadline: a
\* peer is removed by its own departure only.
Sockets == ~MayExpire /\ Flaky = {} /\ \A c \in Conn : KindOf[c] = "ws"

\* Room r is the one its name leads to, by the names a and the table t.
Leads(r, a, t) == a[r] # None /\ t[a[r]] = r

\* One eviction task at most runs for a room; it runs while the room is empty,
\* leads to the room, can be cancelled by it, and has slept for as long as the
\* room has been empty.
ClockInv ==
    /\ \A k \in Task : bad[k] = {}
    /\ \A c \in Conn : line[c] # "opening" /\ leave[c] # "due"
    /\ \A c \in Conn : line[c] \in {"up", "closing"} => InRoom(c)
    /\ \A c \in Conn : room[c] # None => at[room[c]] = at[c]
    /\ \A r \in Conn : peers[r] # {} => idle[r] = 0
    /\ \A c \in Conn : timer[c] >= 0 =>
          /\ room[c] # None /\ Leads(room[c], at, rooms) /\ peers[room[c]] = {}
          /\ evict[room[c]] = c /\ timer[c] = RoomTTL - idle[room[c]]

\* The types the clocks are reasoned about with.
LEMMA ClockRanges ==
    ASSUME TypeOK
    PROVE  /\ timer \in [Conn -> -1..RoomTTL] /\ idle \in [Conn -> 0..RoomTTL]
           /\ evict \in [Conn -> Conn \cup {None}] /\ room \in [Conn -> Conn \cup {None}]
           /\ at \in [Conn -> Hash \cup {None}] /\ rooms \in [Hash -> Conn \cup {None}]
           /\ peers \in [Conn -> SUBSET Conn] /\ line \in [Conn -> Lines]
           /\ leave \in [Conn -> {"no", "due", "fanout", "done"}]
           /\ bad \in [Task -> SUBSET Conn] /\ RoomTTL \in Nat \ {0}
           /\ None \notin Conn /\ None \notin Hash
BY ConstantsAssumption DEF TypeOK, ConstantsAssumption

\* A write to a socket does not fail at once.
LEMMA FanOutReaches ==
    ASSUME TypeOK, Sockets, \A k \in Task : bad[k] = {},
           NEW k \in Task, NEW T \in SUBSET Conn, NEW f, FanOut(k, T, f)
    PROVE  \A j \in Task : bad'[j] = {}
BY ClockRanges DEF Sockets, FanOut, Full

\* A step that leaves rooms, peers, clocks and names alone, and closes no line
\* but a line of somebody in a room, keeps the clocks.
LEMMA StillClocks ==
    ASSUME ClockInv, UNCHANGED <<rooms, peers, timer, evict, idle, room>>,
           \A k \in Task : bad'[k] = {},
           \A c \in Conn : /\ line'[c] # "opening" /\ leave'[c] # "due"
                           /\ line'[c] \in {"up", "closing"} => line[c] \in {"up", "closing"},
           at' = at
    PROVE  ClockInv'
BY DEF ClockInv, InRoom, Leads

\* A join that is refused, and one that is admitted to a room nothing has
\* retired: the room's clock, if one runs, is stopped.
LEMMA JoinClocks ==
    ASSUME TypeInv, TypeInv', NameInv, NoOrphans, ClockInv, Sockets,
           NEW c \in Conn, NEW h \in Hash, pc[c] = "new",
           at' = [at EXCEPT ![c] = h], UNCHANGED <<bad, leave>>,
           \/ UNCHANGED <<rooms, peers, timer, evict, idle, room, line>>
           \/ Enter(c, h, rooms, line, peers, ipConns)
    PROVE  ClockInv' /\ \A g \in Hash : rooms[g] # None => rooms'[g] = rooms[g]
<1> DEFINE r == IF rooms[h] = None THEN c ELSE rooms[h]
<1>1. TypeOK
    BY DEF TypeInv
<1>2. /\ room[c] = None /\ at[c] = None /\ timer[c] = -1
      /\ line[c] = "down"
    BY DEF TypeInv, Placed, NameInv
<1>3. at'[c] = h /\ h # None /\ \A d \in Conn \ {c} : at'[d] = at[d]
    BY <1>1, ClockRanges
\* Nobody has the newcomer's own room yet.
<1>4. /\ \A d \in Conn : room[d] # c
      /\ \A g \in Hash : rooms[g] # c
      /\ peers[c] = {}
    BY <1>1, <1>2, ClockRanges DEF NameInv, NoOrphans, Live, Leads, ClockInv
<1>5. CASE UNCHANGED <<rooms, peers, timer, evict, idle, room, line>>
  <2>1. /\ \A d \in Conn : InRoom(d) => InRoom(d)'
        /\ \A d \in Conn : d # c /\ Leads(d, at, rooms) => Leads(d, at', rooms')
      BY <1>3, <1>5 DEF InRoom, Leads
  <2>2. \A d \in Conn : room[d] # None => room[d] # c /\ d # c
      BY <1>2, <1>4
  <2>3. \A d \in Conn : room'[d] # None => at'[room'[d]] = at'[d]
      BY <1>1, <1>3, <1>5, <2>2, ClockRanges DEF ClockInv
  <2>4. \A d \in Conn : timer'[d] >= 0 =>
            /\ room'[d] # None /\ Leads(room'[d], at', rooms') /\ peers'[room'[d]] = {}
            /\ evict'[room'[d]] = d /\ timer'[d] = RoomTTL - idle'[room'[d]]
    <3> SUFFICES ASSUME NEW d \in Conn, timer[d] >= 0
                 PROVE  /\ room[d] # None /\ Leads(room[d], at', rooms') /\ peers[room[d]] = {}
                        /\ evict[room[d]] = d /\ timer[d] = RoomTTL - idle[room[d]]
        BY <1>5
    <3>1. /\ room[d] # None /\ Leads(room[d], at, rooms) /\ peers[room[d]] = {}
          /\ evict[room[d]] = d /\ timer[d] = RoomTTL - idle[room[d]]
        BY DEF ClockInv
    <3>2. room[d] \in Conn /\ room[d] # c
        BY <1>1, <2>2, <3>1, ClockRanges
    <3> QED
        BY <2>1, <3>1, <3>2
  <2> QED
      BY <1>5, <2>1, <2>3, <2>4 DEF ClockInv
<1>6. CASE /\ rooms' = [rooms EXCEPT ![h] = r] /\ Awaken(r)
           /\ idle' = [idle EXCEPT ![r] = 0]
           /\ peers' = [peers EXCEPT ![r] = @ \cup {c}]
           /\ room' = [room EXCEPT ![c] = r]
           /\ line' = [line EXCEPT ![c] = "up"]
  <2>1. r \in Conn /\ at'[r] = h /\ (r # c => at[r] = h /\ rooms[h] = r)
      BY <1>1, <1>3, <1>4, ClockRanges DEF NameInv
  <2> HIDE DEF r
  <2>2. /\ rooms'[h] = r /\ \A g \in Hash \ {h} : rooms'[g] = rooms[g]
        /\ peers'[r] = peers[r] \cup {c} /\ \A q \in Conn \ {r} : peers'[q] = peers[q]
      BY <1>1, <1>6, <2>1, ClockRanges
  <2>3. /\ room'[c] = r /\ \A d \in Conn \ {c} : room'[d] = room[d]
        /\ line'[c] = "up" /\ \A d \in Conn \ {c} : line'[d] = line[d]
        /\ idle'[r] = 0 /\ \A q \in Conn \ {r} : idle'[q] = idle[q]
      BY <1>1, <1>6, <2>1, ClockRanges
  <2>4. \A d \in Conn : InRoom(d) \/ d = c => InRoom(d)'
      BY <1>1, <1>2, <2>1, <2>2, <2>3, ClockRanges DEF InRoom
  <2>5. \A d \in Conn : room'[d] # None => at'[room'[d]] = at'[d]
      BY <1>1, <1>3, <1>4, <2>1, <2>3, ClockRanges DEF ClockInv
  <2>6. \A q \in Conn : peers'[q] # {} => idle'[q] = 0
      BY <2>2, <2>3 DEF ClockInv
  \* The clock of the room is stopped, and the others run on.
  <2>7. ASSUME NEW d \in Conn, timer'[d] >= 0
        PROVE  /\ d # c /\ timer'[d] = timer[d] /\ room[d] # r
               /\ \A q \in Conn \ {r} : evict'[q] = evict[q]
    <3>1. CASE evict[r] # None /\ timer[evict[r]] >= 0
      <4>1. evict[r] \in Conn
          BY <1>1, <2>1, <3>1, ClockRanges
      <4>2. timer' = [timer EXCEPT ![evict[r]] = -1] /\ evict' = [evict EXCEPT ![r] = None]
          BY <1>6, <3>1 DEF Awaken
      <4>3. d # evict[r] /\ timer'[d] = timer[d]
          BY <1>1, <2>7, <4>1, <4>2, ClockRanges
      <4> QED
          BY <1>1, <1>2, <2>7, <4>2, <4>3, ClockRanges DEF ClockInv
    <3>2. CASE ~(evict[r] # None /\ timer[evict[r]] >= 0)
      <4>1. UNCHANGED <<timer, evict>>
          BY <1>6, <3>2 DEF Awaken
      <4> QED
          BY <1>1, <1>2, <2>7, <3>2, <4>1, ClockRanges DEF ClockInv
    <3> QED
        BY <3>1, <3>2
  <2>8. ASSUME NEW d \in Conn, timer'[d] >= 0
        PROVE  /\ room'[d] # None /\ Leads(room'[d], at', rooms') /\ peers'[room'[d]] = {}
               /\ evict'[room'[d]] = d /\ timer'[d] = RoomTTL - idle'[room'[d]]
    <3> DEFINE q == room[d]
    <3>1. /\ d # c /\ timer[d] >= 0 /\ timer'[d] = timer[d] /\ q # r
          /\ \A x \in Conn \ {r} : evict'[x] = evict[x]
        BY <2>7, <2>8
    <3>2. /\ q # None /\ Leads(q, at, rooms) /\ peers[q] = {} /\ evict[q] = d
          /\ timer[d] = RoomTTL - idle[q]
        BY <3>1 DEF ClockInv
    <3>3. q \in Conn /\ q # c
        BY <1>1, <1>4, <3>2, ClockRanges
    <3>4. at[q] # h
        BY <1>1, <2>1, <3>1, <3>2, <3>3, <1>4, <1>6, ClockRanges DEF Leads, r
    <3>5. Leads(q, at', rooms')
        BY <1>1, <1>3, <2>2, <3>2, <3>3, <3>4, ClockRanges DEF Leads
    <3> QED
        BY <2>2, <2>3, <3>1, <3>2, <3>3, <3>5
  <2>9. \A d \in Conn : /\ line'[d] # "opening" /\ leave'[d] # "due"
                        /\ line'[d] \in {"up", "closing"} => InRoom(d)'
      BY <2>3, <2>4 DEF ClockInv
  <2>10. \A g \in Hash : rooms[g] # None => rooms'[g] = rooms[g]
      BY <2>2 DEF r
  <2> QED
      BY <2>5, <2>6, <2>8, <2>9, <2>10 DEF ClockInv
<1>7. Enter(c, h, rooms, line, peers, ipConns)
        => \/ UNCHANGED <<rooms, peers, timer, evict, idle, room, line>>
           \/ /\ rooms' = [rooms EXCEPT ![h] = r] /\ Awaken(r)
              /\ idle' = [idle EXCEPT ![r] = 0]
              /\ peers' = [peers EXCEPT ![r] = @ \cup {c}]
              /\ room' = [room EXCEPT ![c] = r]
              /\ line' = [line EXCEPT ![c] = "up"]
    BY DEF Enter, Sockets
<1> QED
    BY <1>5, <1>6, <1>7

\* The last to leave a room starts its clock, and no other runs.
LEMMA DepartClocks ==
    ASSUME TypeInv, TypeInv', NoOrphans, ClockInv, Sockets, NEW c \in Conn, Depart(c),
           UNCHANGED rooms
    PROVE  ClockInv'
<1> DEFINE r == room[c]
<1>1. TypeOK
    BY DEF TypeInv
<1>2. line[c] = "closing" /\ r \in Conn /\ c \in peers[r] /\ Leads(r, at, rooms) /\ timer[c] < 0
  <2>1. r \in Conn /\ line[c] = "closing"
      BY Served DEF Depart
  <2>2. c \in peers[r]
      BY <2>1 DEF ClockInv, InRoom
  <2>3. Leads(r, at, rooms) /\ ~(timer[c] >= 0)
      BY <2>1, <2>2 DEF NoOrphans, Live, Leads, ClockInv
  <2> QED
      BY <1>1, <2>1, <2>2, <2>3, ClockRanges
<1>3. /\ peers' = [peers EXCEPT ![r] = @ \ {c}] /\ line' = [line EXCEPT ![c] = "ended"]
      /\ UNCHANGED <<idle, at, room>> /\ AfterDeparture(c, peers[r] \ {c})
    BY DEF Depart, Drop, Without
<1> HIDE DEF r
<1>4. /\ peers'[r] = peers[r] \ {c} /\ \A q \in Conn \ {r} : peers'[q] = peers[q]
      /\ line'[c] = "ended" /\ \A d \in Conn \ {c} : line'[d] = line[d]
    BY <1>1, <1>2, <1>3, ClockRanges
<1>5. \A k \in Task : bad'[k] = {}
  <2>1. <<c, "leave">> \in Task /\ peers[r] \ {c} \in SUBSET Conn
      BY <1>1, <1>2, ClockRanges DEF Task
  <2> QED
      BY <1>1, <1>3, <2>1, FanOutReaches DEF AfterDeparture, ClockInv, wireVars
<1>6. \A d \in Conn : leave'[d] # "due"
    BY <1>1, <1>3, ClockRanges DEF AfterDeparture, ClockInv
<1>7. \A d \in Conn : /\ line'[d] # "opening"
                      /\ line'[d] \in {"up", "closing"} => InRoom(d)'
    BY <1>1, <1>2, <1>3, <1>4, ClockRanges DEF ClockInv, InRoom
<1>8. \A q \in Conn : peers'[q] # {} => idle'[q] = 0
    BY <1>2, <1>3, <1>4 DEF ClockInv
<1>9. ASSUME NEW d \in Conn, timer'[d] >= 0
      PROVE  /\ room'[d] # None /\ Leads(room'[d], at', rooms') /\ peers'[room'[d]] = {}
             /\ evict'[room'[d]] = d /\ timer'[d] = RoomTTL - idle'[room'[d]]
  <2>1. CASE peers[r] \ {c} # {}
    <3>1. UNCHANGED <<timer, evict>> /\ room[d] # r /\ room[d] # None
        BY <1>2, <1>3, <1>9, <2>1 DEF AfterDeparture, ClockInv
    <3>2. room[d] \in Conn \ {r}
        BY <1>1, <3>1, ClockRanges
    <3> QED
        BY <1>3, <1>4, <1>9, <3>1, <3>2 DEF ClockInv, Leads
  <2>2. CASE peers[r] \ {c} = {}
    <3>1. timer' = [timer EXCEPT ![c] = RoomTTL] /\ evict' = [evict EXCEPT ![r] = c]
        BY <1>3, <2>2 DEF AfterDeparture, r
    <3>2. CASE d = c
      <4>1. timer'[d] = RoomTTL /\ evict'[r] = d /\ peers'[r] = {} /\ room'[d] = r
          BY <1>1, <1>2, <1>3, <1>4, <2>2, <3>1, <3>2, ClockRanges DEF r
      <4>2. Leads(r, at', rooms')
          BY <1>2, <1>3 DEF Leads
      <4>3. idle'[r] = 0
          BY <1>2, <1>3 DEF ClockInv
      <4> QED
          BY <1>1, <1>2, <4>1, <4>2, <4>3, ClockRanges
    <3>3. CASE d # c
      <4>1. timer'[d] = timer[d]
          BY <1>1, <3>1, <3>3, ClockRanges
      <4>2. room[d] # r /\ room[d] # None
          BY <1>2, <1>9, <4>1 DEF ClockInv
      <4>3. room[d] \in Conn \ {r}
          BY <1>1, <4>2, ClockRanges
      <4>4. evict'[room[d]] = evict[room[d]]
          BY <1>1, <3>1, <4>3, ClockRanges
      <4> QED
          BY <1>3, <1>4, <1>9, <4>1, <4>3, <4>4 DEF ClockInv, Leads
    <3> QED
        BY <3>2, <3>3
  <2> QED
      BY <2>1, <2>2
<1>10. \A d \in Conn : room'[d] # None => at'[room'[d]] = at'[d]
    BY <1>3 DEF ClockInv
<1> QED
    BY <1>5, <1>6, <1>7, <1>8, <1>9, <1>10 DEF ClockInv

\* A clock that runs out forgets the room it runs for, which has been empty for
\* the TTL, and no clock is left for that room.
LEMMA EvictClocks ==
    ASSUME TypeInv, NameInv, ClockInv, NEW c \in Conn, Evict(c)
    PROVE  /\ ClockInv'
           /\ \A h \in Hash : rooms[h] # None /\ rooms'[h] # rooms[h] => idle[rooms[h]] = RoomTTL
<1> DEFINE r == room[c]
<1>1. TypeOK
    BY DEF TypeInv
<1>2. /\ timer[c] = 0 /\ r # None /\ Leads(r, at, rooms) /\ peers[r] = {}
      /\ evict[r] = c /\ timer[c] = RoomTTL - idle[r] /\ at[r] = at[c]
    BY DEF Evict, ClockInv
<1>3. r \in Conn /\ at[c] \in Hash /\ rooms[at[c]] = r /\ idle[r] = RoomTTL
    BY <1>1, <1>2, ClockRanges DEF Leads
<1>4. rooms' = Forget(r) /\ timer' = [timer EXCEPT ![c] = -1]
    BY <1>2, <1>3, ClockRanges DEF Evict
<1>5. UNCHANGED <<peers, evict, idle, at, room, line, leave, bad>>
    BY DEF Evict, connVars, coVars, wireVars
<1> HIDE DEF r
<1>6. \A h \in Hash : rooms'[h] = IF h = at[c] THEN None ELSE rooms[h]
    BY <1>1, <1>2, <1>4, ClockRanges DEF Forget, Forgotten
<1>7. ASSUME NEW d \in Conn, timer'[d] >= 0
      PROVE  /\ room'[d] # None /\ Leads(room'[d], at', rooms') /\ peers'[room'[d]] = {}
             /\ evict'[room'[d]] = d /\ timer'[d] = RoomTTL - idle'[room'[d]]
  <2>1. d # c /\ timer'[d] = timer[d]
      BY <1>1, <1>4, <1>7, ClockRanges
  <2>2. room[d] # None /\ Leads(room[d], at, rooms) /\ evict[room[d]] = d /\ peers[room[d]] = {}
        /\ timer[d] = RoomTTL - idle[room[d]]
      BY <1>7, <2>1 DEF ClockInv
  <2>3. room[d] # r
      BY <1>2, <2>1, <2>2
  <2>4. at[room[d]] \in Hash /\ at[room[d]] # at[c]
      BY <1>1, <1>3, <2>2, <2>3, ClockRanges DEF Leads
  <2> QED
      BY <1>5, <1>6, <2>1, <2>2, <2>4 DEF Leads
<1>8. ClockInv'
    BY <1>5, <1>7 DEF ClockInv, InRoom
<1> QED
    BY <1>3, <1>6, <1>8

\* A tick takes as much off a clock as it adds to the time its room was empty.
LEMMA TickClocks ==
    ASSUME TypeInv, ClockInv, Tick
    PROVE  ClockInv'
<1>1. TypeOK
    BY DEF TypeInv
<1>2. /\ UNCHANGED <<rooms, peers, evict, at, room, line, leave, bad>>
      /\ \A d \in Conn : timer[d] # 0
      /\ timer' = [d \in Conn |-> IF timer[d] > 0 THEN timer[d] - 1 ELSE timer[d]]
      /\ idle' = [r \in Conn |-> IF Leads(r, at, rooms) /\ peers[r] = {} /\ idle[r] < RoomTTL
                                 THEN idle[r] + 1 ELSE idle[r]]
    BY DEF Tick, Quiet, Live, Leads, tables, connVars, coVars, wireVars
<1>3. ASSUME NEW d \in Conn, timer'[d] >= 0
      PROVE  /\ room'[d] # None /\ Leads(room'[d], at', rooms') /\ peers'[room'[d]] = {}
             /\ evict'[room'[d]] = d /\ timer'[d] = RoomTTL - idle'[room'[d]]
  <2>1. timer[d] > 0 /\ timer'[d] = timer[d] - 1
      BY <1>1, <1>2, <1>3, ClockRanges
  <2>2. /\ room[d] # None /\ Leads(room[d], at, rooms) /\ evict[room[d]] = d /\ peers[room[d]] = {}
        /\ timer[d] = RoomTTL - idle[room[d]]
    <3>1. timer[d] >= 0
        BY <1>1, <2>1, ClockRanges
    <3> QED
        BY <3>1 DEF ClockInv
  <2>3. room[d] \in Conn /\ idle[room[d]] \in 0..RoomTTL /\ timer[d] \in -1..RoomTTL
      BY <1>1, <2>2, ClockRanges
  <2>4. idle[room[d]] < RoomTTL
      BY <1>1, <2>1, <2>2, <2>3, ClockRanges
  <2>5. idle'[room[d]] = idle[room[d]] + 1
      BY <1>2, <2>2, <2>3, <2>4
  <2>6. timer'[d] = RoomTTL - idle'[room[d]]
      BY <1>1, <2>1, <2>2, <2>3, <2>5, ClockRanges
  <2> QED
      BY <1>2, <2>2, <2>6 DEF Leads
<1>4. \A r \in Conn : peers'[r] # {} => idle'[r] = 0
    BY <1>2 DEF ClockInv
<1> QED
    BY <1>2, <1>3, <1>4 DEF ClockInv, InRoom

\* Every other step leaves rooms, peers and clocks alone.
LEMMA OthersKeepClocks ==
    ASSUME TypeInv, TypeInv', ClockInv, Sockets, NEW c \in Conn,
           \/ Serve(c) \/ Farewell(c) \/ Write(c)
           \/ PostBegins(c) \/ Clip(c) \/ RoomWide(c) \/ Answer(c) \/ Vanish(c)
           \/ \E p \in Conn : Forward(c, p)
           \/ \E wanted \in OriginId \cup {id[c]} : Hello(c, wanted)
           \/ \E wanted \in OriginId, renamed \in BOOLEAN : HelloTaken(c, wanted, renamed),
           ~Depart(c)
    PROVE  ClockInv' /\ UNCHANGED rooms
<1> USE DEF tables, clipVars, roomVars, connVars, coVars, wireVars, clientVars, retireVars
<1>1. TypeOK /\ KindOf[c] = "ws" /\ \A k \in Task : bad[k] = {}
    BY DEF TypeInv, Sockets, ClockInv
<1>2. ~(StreamEnds(c) \/ StreamOpens(c) \/ PostBegins(c) \/ StreamEnded(c) \/ WriteFails(c))
    BY <1>1 DEF StreamEnds, StreamOpens, PostBegins, StreamEnded, WriteFails, ClockInv, Sockets
<1>3. \A x \in {"serve", "leave"} : <<c, x>> \in Task
    BY DEF Task
<1>4. /\ UNCHANGED <<rooms, evict, idle, timer, at, room>>
      /\ line' = line \/ (line[c] = "up" /\ line' = [line EXCEPT ![c] = "closing"])
      /\ leave' = leave \/ leave' = [leave EXCEPT ![c] = "done"]
    BY <1>1, <1>2 DEF Serve, Farewell, Write, Welcomed, FanOutDone, ForwardDone, Answered, PostEnds,
           DepartureAnnounced, Deliver, Lost, Clip, RoomWide, Answer, Vanish, Forward, Hello,
           HelloTaken, ClockInv
<1>5. UNCHANGED peers
  <2>1. \A D : \A r \in Conn : D = {} /\ Drop(r, D) => UNCHANGED peers
      BY <1>1, ClockRanges DEF Drop, Without
  <2>2. CASE FanOutDone(c) \/ ForwardDone(c) \/ DepartureAnnounced(c)
    <3>1. room[c] \in Conn
        BY <2>2, Served DEF FanOutDone, ForwardDone, DepartureAnnounced
    <3> QED
        BY <1>1, <1>3, <2>1, <2>2, <3>1 DEF FanOutDone, ForwardDone, DepartureAnnounced
  <2>3. CASE ~(FanOutDone(c) \/ ForwardDone(c) \/ DepartureAnnounced(c))
      BY <1>2, <2>3 DEF Serve, Farewell, Write, Welcomed, Answered, PostEnds, Deliver, Lost,
             Clip, RoomWide, Answer, Vanish, Forward, Hello, HelloTaken
  <2> QED
      BY <2>2, <2>3
<1>6. \A k \in Task : bad'[k] = {}
  <2>1. \A k \in Task, T \in SUBSET Conn : \A f : FanOut(k, T, f) => \A j \in Task : bad'[j] = {}
      BY <1>1, FanOutReaches
  <2>2. CASE FanOutDone(c) \/ DepartureAnnounced(c)
      BY <1>1, <1>3, <2>2, ClockRanges DEF FanOutDone, DepartureAnnounced
  <2>3. CASE ForwardDone(c)
      BY <1>1, <1>3, <2>3 DEF ForwardDone
  <2>4. CASE Welcomed(c) \/ Answered(c)
    <3>1. room[c] \in Conn
        BY <2>4, Served DEF Welcomed, Answered
    <3>2. peers[room[c]] \in SUBSET Conn /\ peers[room[c]] \ {c} \in SUBSET Conn
        BY <1>1, <3>1, ClockRanges
    <3> QED
        BY <1>1, <1>3, <2>1, <2>4, <3>2, ClockRanges DEF Welcomed, Answered
  <2>5. CASE \/ Clip(c) \/ RoomWide(c) \/ Answer(c)
             \/ \E p \in Conn : Forward(c, p)
             \/ \E wanted \in OriginId \cup {id[c]} : Hello(c, wanted)
             \/ \E wanted \in OriginId, renamed \in BOOLEAN : HelloTaken(c, wanted, renamed)
    <3>1. room[c] \in Conn
        BY <2>5, Served DEF Clip, RoomWide, Answer, Forward, Hello, HelloTaken, Reading
    <3>2. peers[room[c]] \in SUBSET Conn /\ peers[room[c]] \ {c} \in SUBSET Conn
        BY <1>1, <3>1, ClockRanges
    <3>3. CASE Clip(c)
        BY <1>3, <2>1, <3>2, <3>3 DEF Clip
    <3>4. CASE RoomWide(c)
        BY <1>3, <2>1, <3>2, <3>4 DEF RoomWide
    <3>5. CASE Answer(c)
        BY <1>3, <2>1, <3>5 DEF Answer
    <3>6. CASE \E p \in Conn : Forward(c, p)
        BY <1>3, <2>1, <3>6 DEF Forward
    <3>7. CASE \E wanted \in OriginId \cup {id[c]} : Hello(c, wanted)
        BY <1>3, <2>1, <3>2, <3>7 DEF Hello
    <3>8. CASE \E wanted \in OriginId, renamed \in BOOLEAN : HelloTaken(c, wanted, renamed)
        BY <1>3, <2>1, <3>8 DEF HelloTaken
    <3> QED
        BY <2>5, <3>3, <3>4, <3>5, <3>6, <3>7, <3>8
  <2>6. CASE PostEnds(c) \/ Deliver(c) \/ Lost(c) \/ Vanish(c)
      BY <1>1, <2>6 DEF PostEnds, Deliver, Lost, Vanish
  <2> QED
      BY <1>2, <2>2, <2>3, <2>4, <2>5, <2>6 DEF Serve, Farewell, Write
<1>7. \A d \in Conn : /\ line'[d] # "opening" /\ leave'[d] # "due"
                      /\ line'[d] \in {"up", "closing"} => line[d] \in {"up", "closing"}
  <2>1. \A d \in Conn : line'[d] # "opening" /\ (line'[d] \in {"up", "closing"} => line[d] \in {"up", "closing"})
      BY <1>1, <1>4, ClockRanges DEF ClockInv
  <2>2. \A d \in Conn : leave'[d] # "due"
      BY <1>1, <1>4, ClockRanges DEF ClockInv
  <2> QED
      BY <2>1, <2>2
<1> QED
    BY <1>4, <1>5, <1>6, <1>7, StillClocks

\* Every step keeps the clocks, and forgets a room only when its time is up.
LEMMA ClockStep ==
    ASSUME TypeInv, TypeInv', Capless, ClockInv, Sockets, [Next]_vars
    PROVE  /\ ClockInv'
           /\ \A h \in Hash : rooms[h] # None /\ rooms'[h] # rooms[h]
                  => expired[rooms[h]] \/ idle[rooms[h]] = RoomTTL
<1> USE DEF tables, clipVars, roomVars, connVars, coVars, wireVars, clientVars, retireVars
<1>1. NameInv /\ NoOrphans /\ ~MayExpire /\ TypeOK
    BY DEF Capless, Sockets, TypeInv
<1>2. ASSUME NEW c \in Conn, NEW h \in Hash, Join(c, h) \/ JoinRefused(c, h)
      PROVE  ClockInv' /\ \A g \in Hash : rooms[g] # None => rooms'[g] = rooms[g]
  <2>1. CASE Join(c, h)
    <3>1. rooms[h] # None => ~expired[rooms[h]]
        BY <1>1 DEF NameInv, TypeOK
    <3>2. /\ pc[c] = "new" /\ at' = [at EXCEPT ![c] = h] /\ UNCHANGED <<bad, leave>>
          /\ Enter(c, h, rooms, line, peers, ipConns)
        BY <2>1, <3>1 DEF Join
    <3> QED
        BY <1>1, <3>2, JoinClocks
  <2>2. CASE JoinRefused(c, h)
      BY <1>1, <2>2, JoinClocks DEF JoinRefused
  <2> QED
      BY <1>2, <2>1, <2>2
<1>3. ASSUME NEW a \in Actor, Retire(a)  PROVE FALSE
    BY <1>1, <1>3, ActorsAre DEF Retire, RetireOne, JoinRetired, SweepRetired, NameInv
<1>4. ~Sweep /\ \A c \in Conn : ~Expire(c) /\ \A h \in Hash : ~JoinExpired(c, h)
    BY <1>1 DEF JoinExpired, Sweep, Expire, NameInv, TypeOK
<1>5. ASSUME NEW c \in Conn, Depart(c)  PROVE ClockInv' /\ UNCHANGED rooms
  <2>1. UNCHANGED rooms
      BY <1>5 DEF Depart
  <2> QED
      BY <1>1, <1>5, <2>1, DepartClocks
<1>6. CASE Tick
    BY <1>6, TickClocks DEF Tick
<1>7. CASE UNCHANGED vars
  <2>1. /\ UNCHANGED <<rooms, peers, timer, evict, idle, room, at, line, leave, bad>>
      BY <1>7 DEF vars
  <2> QED
      BY <2>1, StillClocks DEF ClockInv
<1>8. ASSUME NEW c \in Conn, Evict(c)
      PROVE  ClockInv' /\ \A h \in Hash : rooms[h] # None /\ rooms'[h] # rooms[h]
                              => idle[rooms[h]] = RoomTTL
    BY <1>1, <1>8, EvictClocks
<1>9. ASSUME NEW c \in Conn,
             \/ Serve(c) \/ Farewell(c) \/ Write(c)
             \/ PostBegins(c) \/ Clip(c) \/ RoomWide(c) \/ Answer(c) \/ Vanish(c)
             \/ \E p \in Conn : Forward(c, p)
             \/ \E wanted \in OriginId \cup {id[c]} : Hello(c, wanted)
             \/ \E wanted \in OriginId, renamed \in BOOLEAN : HelloTaken(c, wanted, renamed)
      PROVE  ClockInv' /\ UNCHANGED rooms
    BY <1>5, <1>9, OthersKeepClocks
<1> QED
    BY <1>2, <1>3, <1>4, <1>5, <1>6, <1>7, <1>8, <1>9 DEF Next, Environment, Actor

\* No clock runs to begin with.
LEMMA ClockInit == Init => ClockInv
BY DEF Init, ClockInv, Task

\* With sockets that answer and no lifetime cap, a room goes only after a whole
\* TTL with nobody in it: the next to enter stops its clock, and the last to
\* leave starts it anew (_join, _after_departure, _evict_later).
THEOREM SocketsOutlastTheTTL == Sockets /\ Spec => EvictedOnlyAfterTTL
<1> SUFFICES ASSUME Sockets  PROVE Spec => EvictedOnlyAfterTTL
    OBVIOUS
<1>1. TypeInv /\ TypeInv' /\ Capless /\ ClockInv /\ [Next]_vars
        => ClockInv' /\ [\A h \in Hash : rooms[h] # None /\ rooms'[h] # rooms[h]
                            => expired[rooms[h]] \/ idle[rooms[h]] = RoomTTL]_vars
    BY ClockStep
<1> QED
    BY <1>1, TypeInit, CaplessInit, ClockInit, TypeStep, CaplessStep, PTL
    DEF Spec, EvictedOnlyAfterTTL

-----------------------------------------------------------------------------
(* The clock a room knows of, whatever its peers are *)

\* A room knows a clock of its own; while that clock runs and the room's name
\* leads to it, the room is empty and the clock has no less to run than the
\* room has to be empty.
KnownClocks ==
    /\ \A r \in Conn : evict[r] # None => room[evict[r]] = r
    /\ \A c \in Conn : timer[c] >= 0 => room[c] # None
    /\ \A r \in Conn : evict[r] # None /\ timer[evict[r]] >= 0 /\ Live(r)
          => peers[r] = {} /\ timer[evict[r]] + idle[r] >= RoomTTL

\* Only a room that is past its lifetime is retired.
Condemned == \A a \in Actor : retiring[a] # None => expired[retiring[a]]

\* What may yet take a name from the room it leads to: a clock that the room
\* does not know of, for it was overwritten or belongs to an earlier room of
\* the name; or the retirement of such an earlier room.
Stray(h) ==
    \/ \E c \in Conn : at[c] = h /\ timer[c] = 0 /\ timer'[c] < 0 /\ evict[rooms[h]] # c
    \/ \E q \in Conn : /\ q \in sweep \cup {retiring[a] : a \in Actor}
                       /\ q # rooms[h] /\ at[q] = h /\ expired[q]

\* The types all this is about.
LEMMA TableRanges ==
    ASSUME TypeOK
    PROVE  /\ timer \in [Conn -> -1..RoomTTL] /\ idle \in [Conn -> 0..RoomTTL]
           /\ evict \in [Conn -> Conn \cup {None}] /\ room \in [Conn -> Conn \cup {None}]
           /\ at \in [Conn -> Hash \cup {None}] /\ rooms \in [Hash -> Conn \cup {None}]
           /\ peers \in [Conn -> SUBSET Conn] /\ RoomTTL \in Nat \ {0}
           /\ retiring \in [Actor -> Conn \cup {None}] /\ expired \in [Conn -> BOOLEAN]
           /\ None \notin Conn /\ None \notin Hash /\ Sweeper \notin Conn
BY ConstantsAssumption DEF TypeOK, ConstantsAssumption

\* Where nobody enters, no name comes to lead to a room.
LEMMA ThinLive ==
    ASSUME TypeInv, TypeInv', TrueToName, Thins, NEW r \in Conn, Live(r)'
    PROVE  Live(r)
<1>1. at'[r] \in Hash /\ rooms'[at'[r]] = r
    BY TableRanges, TableRanges DEF Live, TypeInv, TypeOK
<1>2. rooms[at'[r]] = r
    BY <1>1, ActorsAre DEF Thins
<1>3. at[r] = at'[r]
    BY <1>1, <1>2, ActorsAre DEF TrueToName
<1> QED
    BY <1>1, <1>2, <1>3, ActorsAre DEF Live

\* A step that lets nobody in and leaves the clocks alone.
LEMMA ThinClocks ==
    ASSUME TypeInv, TypeInv', TrueToName, KnownClocks, Thins, UNCHANGED <<timer, evict, idle>>
    PROVE  KnownClocks'
<1>1. /\ \A r \in Conn : Live(r)' => Live(r)
      /\ \A r \in Conn : peers'[r] \subseteq peers[r]
      /\ room' = room
    BY ThinLive DEF Thins
<1> QED
    BY <1>1 DEF KnownClocks

\* A departure that leaves its room empty starts the clock the room knows.
LEMMA StartClocks ==
    ASSUME TypeInv, TypeInv', TrueToName, KnownClocks, Thins, idle' = idle,
           NEW c \in Conn, room[c] # None, peers'[room[c]] = {},
           timer' = [timer EXCEPT ![c] = RoomTTL], evict' = [evict EXCEPT ![room[c]] = c]
    PROVE  KnownClocks'
<1>1. /\ \A r \in Conn : Live(r)' => Live(r)
      /\ \A r \in Conn : peers'[r] \subseteq peers[r]
      /\ room' = room /\ room[c] \in Conn
    BY ThinLive, TableRanges DEF Thins, TypeInv
<1>2. /\ timer'[c] = RoomTTL /\ \A d \in Conn \ {c} : timer'[d] = timer[d]
      /\ evict'[room[c]] = c /\ \A r \in Conn \ {room[c]} : evict'[r] = evict[r]
    BY <1>1, TableRanges DEF TypeInv
<1>3. \A r \in Conn : evict'[r] # None => room'[evict'[r]] = r
    BY <1>1, <1>2 DEF KnownClocks
<1>4. \A d \in Conn : timer'[d] >= 0 => room'[d] # None
    BY <1>1, <1>2 DEF KnownClocks
<1>5. ASSUME NEW r \in Conn, evict'[r] # None, timer'[evict'[r]] >= 0, Live(r)'
      PROVE  peers'[r] = {} /\ timer'[evict'[r]] + idle'[r] >= RoomTTL
  <2>1. CASE r = room[c]
    <3>1. idle[r] \in 0..RoomTTL /\ RoomTTL \in Nat
        BY TableRanges DEF TypeInv
    <3> QED
        BY <1>2, <2>1, <3>1
  <2>2. CASE r # room[c]
    <3>1. evict'[r] = evict[r] /\ evict[r] \in Conn /\ room[evict[r]] = r
        BY <1>2, <1>5, <2>2, TableRanges DEF TypeInv, KnownClocks
    <3>2. timer'[evict[r]] = timer[evict[r]]
        BY <1>2, <2>2, <3>1
    <3>3. peers[r] = {} /\ timer[evict[r]] + idle[r] >= RoomTTL
        BY <1>1, <1>5, <3>1, <3>2 DEF KnownClocks
    <3> QED
        BY <1>1, <3>1, <3>2, <3>3
  <2> QED
      BY <2>1, <2>2
<1> QED
    BY <1>3, <1>4, <1>5 DEF KnownClocks

\* A clock that runs out is no clock any more.
LEMMA StopClocks ==
    ASSUME TypeInv, TypeInv', TrueToName, KnownClocks, Thins, UNCHANGED <<evict, idle>>,
           NEW c \in Conn, timer' = [timer EXCEPT ![c] = -1]
    PROVE  KnownClocks'
<1>1. /\ \A r \in Conn : Live(r)' => Live(r)
      /\ \A r \in Conn : peers'[r] \subseteq peers[r]
      /\ room' = room
    BY ThinLive DEF Thins
<1>2. \A d \in Conn : timer'[d] >= 0 => timer'[d] = timer[d]
    BY TableRanges DEF TypeInv
<1>3. \A r \in Conn : evict[r] \in Conn \cup {None}
    BY TableRanges DEF TypeInv
<1> QED
    BY <1>1, <1>2, <1>3 DEF KnownClocks

\* A tick takes no more off a clock than it adds to the time its room is empty.
LEMMA PassClocks ==
    ASSUME TypeInv, TypeInv', KnownClocks, Tick
    PROVE  KnownClocks'
<1>1. /\ UNCHANGED <<rooms, peers, evict, at, room>>
      /\ \A d \in Conn : timer[d] # 0
      /\ timer' = [d \in Conn |-> IF timer[d] > 0 THEN timer[d] - 1 ELSE timer[d]]
      /\ idle' = [r \in Conn |-> IF Live(r) /\ peers[r] = {} /\ idle[r] < RoomTTL
                                 THEN idle[r] + 1 ELSE idle[r]]
    BY DEF Tick, Quiet, tables, connVars
<1>2. \A d \in Conn : timer[d] \in -1..RoomTTL /\ idle[d] \in 0..RoomTTL /\ RoomTTL \in Nat
    BY TableRanges DEF TypeInv
<1>3. \A d \in Conn : timer'[d] >= 0 => timer[d] > 0 /\ timer'[d] = timer[d] - 1
    BY <1>1, <1>2
<1>4. ASSUME NEW r \in Conn, evict'[r] # None, timer'[evict'[r]] >= 0, Live(r)'
      PROVE  peers'[r] = {} /\ timer'[evict'[r]] + idle'[r] >= RoomTTL
  <2> DEFINE d == evict[r]
  <2>1. d \in Conn /\ d # None /\ evict'[r] = d
      BY <1>1, <1>4, TableRanges DEF TypeInv
  <2> HIDE DEF d
  <2>2. timer[d] > 0 /\ timer'[d] = timer[d] - 1 /\ timer[d] \in -1..RoomTTL
      BY <1>2, <1>3, <1>4, <2>1
  <2>3. Live(r)
      BY <1>1, <1>4 DEF Live
  <2>4. timer[d] >= 0
      BY <2>2
  <2>5. peers[r] = {} /\ timer[d] + idle[r] >= RoomTTL
      BY <2>1, <2>3, <2>4 DEF KnownClocks, d
  <2>6. CASE idle[r] < RoomTTL
    <3>1. idle'[r] = idle[r] + 1
        BY <1>1, <2>3, <2>5, <2>6
    <3>2. timer'[d] + idle'[r] >= RoomTTL
        BY <1>2, <2>2, <2>5, <3>1
    <3> QED
        BY <1>1, <2>1, <2>5, <3>2
  <2>7. CASE ~(idle[r] < RoomTTL)
    <3>1. idle'[r] = idle[r] /\ idle[r] = RoomTTL
        BY <1>1, <1>2, <2>7
    <3>2. timer'[d] + idle'[r] >= RoomTTL
        BY <1>2, <2>2, <3>1
    <3> QED
        BY <1>1, <2>1, <2>5, <3>2
  <2> QED
      BY <2>6, <2>7
<1>5. \A d \in Conn : timer'[d] >= 0 => room'[d] # None
  <2>1. \A d \in Conn : timer'[d] >= 0 => timer[d] >= 0
      BY <1>2, <1>3
  <2> QED
      BY <1>1, <2>1 DEF KnownClocks
<1> QED
    BY <1>1, <1>4, <1>5 DEF KnownClocks

\* Whoever enters a room stops the clock it knows, if that runs.
LEMMA EntryClocks ==
    ASSUME TypeInv, TypeInv', TrueToName, KnownClocks,
           NEW c \in Conn, NEW h \in Hash, room[c] = None, at[c] = h \/ pc[c] = "new",
           NEW table \in [Hash -> Conn \cup {None}],
           \A g \in Hash : table[g] \in {None, rooms[g]},
           NEW l, NEW N,
           NEW P \in [Conn -> SUBSET Conn], \A q \in Conn : P[q] \subseteq peers[q],
           Enter(c, h, table, l, P, N), at' = [at EXCEPT ![c] = h],
           Thins \/ Enters(c, h)
    PROVE  KnownClocks'
<1> DEFINE r == IF table[h] = None THEN c ELSE table[h]
<1>1. r \in Conn /\ r # None /\ h # None
    BY ActorsAre
<1>2. at'[c] = h /\ \A d \in Conn \ {c} : at'[d] = at[d]
    BY TableRanges DEF TypeInv
<1>3. CASE rooms' = table /\ peers' = P /\ UNCHANGED <<room, timer, evict, idle>>
  <2>1. Thins
    <3>1. ASSUME Enters(c, h)  PROVE FALSE
      <4>1. room'[c] \in Conn
          BY <3>1 DEF Enters
      <4> QED
          BY <1>3, <4>1, ActorsAre
    <3> QED
        BY <3>1
  <2> QED
      BY <1>3, <2>1, ThinClocks
<1>4. CASE /\ rooms' = [table EXCEPT ![h] = r] /\ peers' = [P EXCEPT ![r] = @ \cup {c}]
           /\ room' = [room EXCEPT ![c] = r] /\ Awaken(r) /\ idle' = [idle EXCEPT ![r] = 0]
  <2> HIDE DEF r
  <2>1. /\ room'[c] = r /\ \A d \in Conn \ {c} : room'[d] = room[d]
        /\ \A q \in Conn \ {r} : idle'[q] = idle[q] /\ peers'[q] = P[q]
        /\ rooms'[h] = r /\ \A g \in Hash \ {h} : rooms'[g] = table[g]
      BY <1>1, <1>4, TableRanges DEF TypeInv
  <2>2. /\ \A q \in Conn : evict'[q] \in {None, evict[q]}
        /\ \A d \in Conn : timer'[d] >= 0 => timer'[d] = timer[d]
        /\ evict'[r] # None => ~(timer'[evict'[r]] >= 0)
    <3>1. CASE evict[r] # None /\ timer[evict[r]] >= 0
      <4>1. /\ evict[r] \in Conn
            /\ timer' = [timer EXCEPT ![evict[r]] = -1] /\ evict' = [evict EXCEPT ![r] = None]
          BY <1>1, <1>4, <3>1, TableRanges DEF Awaken, TypeInv
      <4> QED
          BY <1>1, <4>1, TableRanges DEF TypeInv
    <3>2. CASE ~(evict[r] # None /\ timer[evict[r]] >= 0)
      <4>1. UNCHANGED <<timer, evict>>
          BY <1>4, <3>2 DEF Awaken
      <4> QED
          BY <3>2, <4>1
    <3> QED
        BY <3>1, <3>2
  <2>3. \A q \in Conn : evict'[q] # None => evict'[q] \in Conn \ {c} /\ room'[evict'[q]] = q
      BY <2>1, <2>2, TableRanges DEF TypeInv, KnownClocks
  <2>4. \A d \in Conn : timer'[d] >= 0 => room'[d] # None
      BY <1>1, <2>1, <2>2 DEF KnownClocks
  <2>5. ASSUME NEW q \in Conn, evict'[q] # None, timer'[evict'[q]] >= 0, Live(q)'
        PROVE  peers'[q] = {} /\ timer'[evict'[q]] + idle'[q] >= RoomTTL
    <3>1. q # r
        BY <2>2, <2>5
    <3>2. q # c /\ at'[q] # h
        BY <1>2, <2>1, <2>5, <3>1 DEF Live
    <3>3. at'[q] = at[q] /\ at[q] \in Hash \ {h} /\ rooms'[at[q]] = q
        BY <1>2, <2>5, <3>2, TableRanges DEF Live, TypeInv
    <3>4. Live(q)
        BY <2>1, <3>3, ActorsAre DEF Live
    <3>5. evict'[q] = evict[q] /\ evict[q] \in Conn /\ timer'[evict[q]] = timer[evict[q]]
        BY <2>2, <2>3, <2>5
    <3>6. peers[q] = {} /\ timer[evict[q]] + idle[q] >= RoomTTL
        BY <2>5, <3>4, <3>5 DEF KnownClocks
    <3> QED
        BY <2>1, <3>1, <3>5, <3>6
  <2> QED
      BY <2>3, <2>4, <2>5 DEF KnownClocks
<1> QED
    BY <1>3, <1>4 DEF Enter

\* A step that seats nobody in a room thins the relay out.
LEMMA UnmovedThins ==
    ASSUME TypeInv, TrueToName, OwnRetired, [Next]_vars, room' = room
    PROVE  Thins
<1>1. ASSUME NEW c \in Conn, NEW h \in Hash, Enters(c, h)  PROVE FALSE
  <2>1. room[c] = None /\ room'[c] \in Conn
      BY <1>1 DEF Enters, TypeInv, Placed
  <2> QED
      BY <2>1, ActorsAre
<1> QED
    BY <1>1, ThinsOrEnters

\* What a departure does to the clocks.
LEMMA DepartureClocks ==
    ASSUME TypeInv, TypeInv', TrueToName, KnownClocks, Thins, idle' = idle,
           NEW c \in Conn, room[c] # None, AfterDeparture(c, peers'[room[c]])
    PROVE  KnownClocks'
<1>1. CASE peers'[room[c]] = {}
  <2>1. timer' = [timer EXCEPT ![c] = RoomTTL] /\ evict' = [evict EXCEPT ![room[c]] = c]
      BY <1>1 DEF AfterDeparture
  <2> QED
      BY <1>1, <2>1, StartClocks
<1>2. CASE peers'[room[c]] # {}
  <2>1. UNCHANGED <<timer, evict>>
      BY <1>2 DEF AfterDeparture
  <2> QED
      BY <2>1, ThinClocks
<1> QED
    BY <1>1, <1>2

\* Both ways into a room keep the clocks.
LEMMA ComersClocks ==
    ASSUME TypeInv, TypeInv', TrueToName, OwnRetired, KnownClocks, [Next]_vars, NEW c \in Conn,
           (\E h \in Hash : Join(c, h)) \/ \E p \in Conn : JoinRetired(c, p)
    PROVE  KnownClocks'
<1>1. /\ rooms \in [Hash -> Conn \cup {None}] /\ peers \in [Conn -> SUBSET Conn]
      /\ \A r : /\ Forget(r) \in [Hash -> Conn \cup {None}]
                /\ \A g \in Hash : Forget(r)[g] \in {None, rooms[g]}
    BY TableRanges DEF TypeInv, Forget, Forgotten
<1>2. ASSUME NEW d \in Conn, NEW g \in Hash, Enters(d, g), NEW h \in Hash,
             at' = [at EXCEPT ![c] = h], room[c] = None, \A x \in Conn \ {c} : room'[x] = room[x]
      PROVE  Enters(c, h)
  <2>1. room[d] = None /\ room'[d] \in Conn /\ at'[d] = g
      BY <1>2 DEF Enters, TypeInv, Placed
  <2>2. d = c
      BY <1>2, <2>1, ActorsAre
  <2>3. at'[c] = h
      BY <1>2, TableRanges DEF TypeInv
  <2> QED
      BY <1>2, <2>1, <2>2, <2>3
<1>3. ASSUME NEW h, NEW t, NEW l, NEW P, NEW N, Enter(c, h, t, l, P, N)
      PROVE  \A x \in Conn \ {c} : room'[x] = room[x]
    BY <1>3, TableRanges DEF Enter, TypeInv
<1>4. ASSUME NEW h \in Hash, Join(c, h)
      PROVE  KnownClocks'
  <2> DEFINE t == IF rooms[h] # None /\ expired[rooms[h]] THEN Forget(rooms[h]) ELSE rooms
  <2>1. Enter(c, h, t, line, peers, ipConns) /\ pc[c] = "new" /\ at' = [at EXCEPT ![c] = h]
      BY <1>4 DEF Join
  <2>2. t \in [Hash -> Conn \cup {None}] /\ \A g \in Hash : t[g] \in {None, rooms[g]}
      BY <1>1
  <2>3. room[c] = None
      BY <2>1 DEF TypeInv, Placed
  <2> HIDE DEF t
  <2>4. Thins \/ Enters(c, h)
      BY <1>2, <1>3, <2>1, <2>3, ThinsOrEnters
  <2> QED
      BY <1>1, <2>1, <2>2, <2>3, <2>4, EntryClocks
<1>5. ASSUME NEW p \in Conn, JoinRetired(c, p)
      PROVE  KnownClocks'
  <2> DEFINE r == retiring[c]
  <2>1. /\ todo[c] = {p} /\ at' = at
        /\ Enter(c, at[c], Forget(r), CutOff(p), Without(r, {p}), Uncharged(r, {p}))
      BY <1>5 DEF JoinRetired
  <2>2. at[c] \in Hash /\ room[c] = None
    <3>1. at[c] # None /\ pc[c] = "retiring"
        BY <2>1 DEF TypeInv, Underway
    <3> QED
        BY <3>1, TableRanges DEF TypeInv, Placed
  <2>3. at' = [at EXCEPT ![c] = at[c]]
      BY <2>1, TableRanges DEF TypeInv
  <2>4. /\ Without(r, {p}) \in [Conn -> SUBSET Conn]
        /\ \A q \in Conn : Without(r, {p})[q] \subseteq peers[q]
      BY <1>1 DEF Without
  <2> HIDE DEF r
  <2>5. Thins \/ Enters(c, at[c])
      BY <1>2, <1>3, <2>1, <2>2, <2>3, ThinsOrEnters
  <2> QED
      BY <1>1, <2>1, <2>2, <2>3, <2>4, <2>5, EntryClocks
<1> QED
    BY <1>4, <1>5

\* Every step keeps the clocks that rooms know of.
LEMMA KnownStep ==
    ASSUME TypeInv, TypeInv', TrueToName, OwnRetired, KnownClocks, [Next]_vars
    PROVE  KnownClocks'
<1> USE DEF tables, clipVars, roomVars, connVars, coVars, wireVars, clientVars, retireVars
<1>1. ASSUME room' = room, UNCHANGED <<timer, evict, idle>>
      PROVE  KnownClocks'
    BY <1>1, UnmovedThins, ThinClocks
<1>2. ASSUME NEW c \in Conn, Depart(c) \/ StreamEnded(c)
      PROVE  KnownClocks'
  <2>1. room[c] \in Conn /\ room[c] # None
      BY <1>2, Served, ActorsAre DEF Depart, StreamEnded
  <2>2. UNCHANGED <<room, idle>>
      BY <1>2 DEF Depart, StreamEnded
  <2>3. AfterDeparture(c, peers'[room[c]])
    <3>1. CASE Depart(c)
      <4>1. peers' = [peers EXCEPT ![room[c]] = @ \ {c}]
          BY <3>1 DEF Depart, Drop, Without
      <4>2. peers'[room[c]] = peers[room[c]] \ {c}
          BY <2>1, <4>1, TableRanges DEF TypeInv
      <4> QED
          BY <3>1, <4>2 DEF Depart
    <3>2. CASE StreamEnded(c)
      <4>1. peers' = peers
          BY <3>2 DEF StreamEnded
      <4> QED
          BY <3>2, <4>1 DEF StreamEnded
    <3> QED
        BY <1>2, <3>1, <3>2
  <2> QED
      BY <2>1, <2>2, <2>3, UnmovedThins, DepartureClocks
<1>3. ASSUME NEW c \in Conn, Serve(c) \/ Farewell(c) \/ Write(c), ~Depart(c), ~StreamEnded(c)
      PROVE  KnownClocks'
  <2>1. UNCHANGED <<room, timer, evict, idle>>
      BY <1>3 DEF Serve, Farewell, Write, Welcomed, FanOutDone, ForwardDone, Answered, PostEnds,
                  StreamOpens, StreamEnds, DepartureAnnounced, Deliver, Lost, WriteFails
  <2> QED
      BY <1>1, <2>1
<1>4. ASSUME NEW c \in Conn, Evict(c)
      PROVE  KnownClocks'
  <2>1. UNCHANGED <<room, evict, idle>> /\ timer' = [timer EXCEPT ![c] = -1]
      BY <1>4 DEF Evict
  <2> QED
      BY <2>1, UnmovedThins, StopClocks
<1>5. CASE Environment
  <2>1. PICK c \in Conn :
            \/ \E h \in Hash : JoinRefused(c, h) \/ Join(c, h) \/ JoinExpired(c, h)
            \/ PostBegins(c) \/ Clip(c) \/ RoomWide(c) \/ Answer(c)
            \/ \E p \in Conn : Forward(c, p)
            \/ \E wanted \in OriginId \cup {id[c]} : Hello(c, wanted)
            \/ \E wanted \in OriginId, renamed \in BOOLEAN : HelloTaken(c, wanted, renamed)
            \/ Vanish(c) \/ Expire(c)
      BY <1>5 DEF Environment
  <2>2. CASE \E h \in Hash : Join(c, h)
      BY <2>2, ComersClocks
  <2>3. CASE ~ \E h \in Hash : Join(c, h)
    <3>1. UNCHANGED <<room, timer, evict, idle>>
        BY <2>1, <2>3 DEF JoinRefused, JoinExpired, PostBegins, Clip, RoomWide, Answer, Forward,
                          Hello, HelloTaken, Vanish, Expire
    <3> QED
        BY <1>1, <3>1
  <2> QED
      BY <2>2, <2>3
<1>6. ASSUME NEW a \in Actor, Retire(a)
      PROVE  KnownClocks'
  <2>1. CASE a \in Conn /\ \E p \in Conn : JoinRetired(a, p)
      BY <2>1, ComersClocks
  <2>2. CASE ~(a \in Conn /\ \E p \in Conn : JoinRetired(a, p))
    <3>1. UNCHANGED <<room, timer, evict, idle>>
        BY <1>6, <2>2 DEF Retire, RetireOne, SweepRetired
    <3> QED
        BY <1>1, <3>1
  <2> QED
      BY <2>1, <2>2
<1>7. CASE Tick
    BY <1>7, PassClocks
<1>8. CASE Sweep \/ UNCHANGED vars
  <2>1. UNCHANGED <<room, timer, evict, idle>>
      BY <1>8 DEF Sweep, vars
  <2> QED
      BY <1>1, <2>1
<1> QED
    BY <1>2, <1>3, <1>4, <1>5, <1>6, <1>7, <1>8 DEF Next

\* Joins and the sweeper begin only with rooms past their lifetime, and a room
\* does not get its lifetime back.
LEMMA CondemnedStep ==
    ASSUME TypeInv, Condemned, [Next]_vars
    PROVE  Condemned'
<1> USE DEF tables, clipVars, roomVars, connVars, coVars, wireVars, clientVars, retireVars
<1>1. retiring \in [Actor -> Conn \cup {None}] /\ expired \in [Conn -> BOOLEAN] /\ None \notin Conn
    BY TableRanges DEF TypeInv
<1>2. ASSUME expired' = expired,
             \A a \in Actor : \/ retiring'[a] \in {None, retiring[a]}
                              \/ retiring'[a] \in Conn /\ expired[retiring'[a]]
      PROVE  Condemned'
    BY <1>2 DEF Condemned
<1>3. ASSUME UNCHANGED <<retiring, expired>>  PROVE Condemned'
    BY <1>2, <1>3
<1>4. ASSUME NEW c \in Conn, Serve(c) \/ Farewell(c) \/ Write(c) \/ Evict(c)
      PROVE  Condemned'
  <2>1. UNCHANGED <<retiring, expired>>
      BY <1>4 DEF Serve, Farewell, Write, Welcomed, FanOutDone, ForwardDone, Answered, PostEnds,
                  StreamOpens, Depart, StreamEnds, StreamEnded, DepartureAnnounced, Deliver,
                  Lost, WriteFails, Evict
  <2> QED
      BY <1>3, <2>1
<1>5. CASE Environment
  <2>1. PICK c \in Conn :
            \/ \E h \in Hash : JoinRefused(c, h) \/ Join(c, h) \/ JoinExpired(c, h)
            \/ PostBegins(c) \/ Clip(c) \/ RoomWide(c) \/ Answer(c)
            \/ \E p \in Conn : Forward(c, p)
            \/ \E wanted \in OriginId \cup {id[c]} : Hello(c, wanted)
            \/ \E wanted \in OriginId, renamed \in BOOLEAN : HelloTaken(c, wanted, renamed)
            \/ Vanish(c) \/ Expire(c)
      BY <1>5 DEF Environment
  <2>2. ASSUME NEW h \in Hash, JoinExpired(c, h)  PROVE Condemned'
    <3>1. /\ retiring' = [retiring EXCEPT ![c] = rooms[h]] /\ expired' = expired
          /\ rooms[h] # None /\ expired[rooms[h]]
        BY <2>2 DEF JoinExpired
    <3>2. rooms[h] \in Conn
        BY <3>1, TableRanges DEF TypeInv
    <3>3. \A a \in Actor : retiring'[a] = retiring[a] \/ retiring'[a] = rooms[h]
        BY <1>1, <3>1
    <3> QED
        BY <1>2, <3>1, <3>2, <3>3
  <2>3. CASE Expire(c)
    <3>1. retiring' = retiring /\ expired' = [expired EXCEPT ![c] = TRUE]
        BY <2>3 DEF Expire
    <3>2. \A r \in Conn : expired[r] => expired'[r]
        BY <1>1, <3>1
    <3> QED
        BY <1>1, <3>1, <3>2 DEF Condemned
  <2>4. CASE ~Expire(c) /\ ~ \E h \in Hash : JoinExpired(c, h)
    <3>1. UNCHANGED <<retiring, expired>>
        BY <2>1, <2>4 DEF JoinRefused, Join, PostBegins, Clip, RoomWide, Answer, Forward,
                          Hello, HelloTaken, Vanish
    <3> QED
        BY <1>3, <3>1
  <2> QED
      BY <2>2, <2>3, <2>4
<1>6. ASSUME NEW S, NEW t, NEW L, SweepOn(S, t, L), expired' = expired, S \subseteq Conn
      PROVE  Condemned'
  <2>1. \/ retiring' = [retiring EXCEPT ![Sweeper] = None]
        \/ \E r \in S : expired[r] /\ retiring' = [retiring EXCEPT ![Sweeper] = r]
      BY <1>6 DEF SweepOn
  <2>2. \A a \in Actor : \/ retiring'[a] \in {None, retiring[a]}
                         \/ retiring'[a] \in Conn /\ expired[retiring'[a]]
      BY <1>1, <1>6, <2>1
  <2> QED
      BY <1>2, <1>6, <2>2
<1>7. CASE Sweep
  <2>1. {rooms[h] : h \in Hash} \ {None} \subseteq Conn
      BY TableRanges DEF TypeInv
  <2> QED
      BY <1>6, <1>7, <2>1 DEF Sweep
<1>8. ASSUME NEW a \in Actor, Retire(a)
      PROVE  Condemned'
  <2>1. PICK p \in Conn : \/ RetireOne(a, p)
                          \/ a \in Conn /\ JoinRetired(a, p)
                          \/ a = Sweeper /\ SweepRetired(p)
      BY <1>8 DEF Retire
  <2>2. CASE RetireOne(a, p)
      BY <1>3, <2>2 DEF RetireOne
  <2>3. CASE JoinRetired(a, p)
    <3>1. retiring' = [retiring EXCEPT ![a] = None] /\ expired' = expired
        BY <2>3 DEF JoinRetired
    <3>2. \A b \in Actor : retiring'[b] \in {None, retiring[b]}
        BY <1>1, <3>1
    <3> QED
        BY <1>2, <3>1, <3>2
  <2>4. CASE SweepRetired(p)
    <3>1. sweep \subseteq Conn
        BY DEF TypeInv, TypeOK
    <3> QED
        BY <1>6, <2>4, <3>1 DEF SweepRetired
  <2> QED
      BY <2>1, <2>2, <2>3, <2>4
<1>9. CASE Tick \/ UNCHANGED vars
  <2>1. UNCHANGED <<retiring, expired>>
      BY <1>9 DEF Tick, vars
  <2> QED
      BY <1>3, <2>1
<1> QED
    BY <1>4, <1>5, <1>7, <1>8, <1>9 DEF Next

\* What becomes of the names the sweeper goes through.
LEMMA SweepLetsGo ==
    ASSUME NEW S, NEW t, NEW L, SweepOn(S, t, L), NEW h \in Hash, rooms'[h] # t[h]
    PROVE  \E q \in S : expired[q] /\ at[q] = h
BY DEF SweepOn, Skim, Forgotten

\* When and how a name stops leading to a room.
LEMMA RoomsGo ==
    ASSUME TypeInv, TypeInv', TrueToName, OwnRetired, KnownClocks, Condemned, [Next]_vars,
           NEW h \in Hash, rooms[h] # None, rooms'[h] # rooms[h]
    PROVE  expired[rooms[h]] \/ idle[rooms[h]] = RoomTTL \/ Stray(h)
<1> USE DEF tables, clipVars, roomVars, connVars, coVars, wireVars, clientVars, retireVars
<1>1. /\ rooms[h] \in Conn /\ at[rooms[h]] = h /\ Live(rooms[h])
      /\ \A g \in Hash : rooms[g] # None => at[rooms[g]] = g
    BY TableRanges DEF TypeInv, TrueToName, Live
<1>2. ASSUME NEW q \in Conn, at[q] = h, expired[q], q \in sweep \cup {retiring[a] : a \in Actor}
      PROVE  expired[rooms[h]] \/ Stray(h)
    BY <1>2 DEF Stray
<1>3. ASSUME NEW c \in Conn, Evict(c)
      PROVE  idle[rooms[h]] = RoomTTL \/ Stray(h)
  <2> DEFINE r == rooms[at[c]]
  <2>1. timer[c] = 0 /\ timer' = [timer EXCEPT ![c] = -1] /\ rooms' = Forget(r) /\ r # None
      BY <1>3 DEF Evict
  <2>2. at[c] \in Hash
    <3>1. room[c] # None
        BY <2>1 DEF KnownClocks
    <3> QED
        BY <3>1, TableRanges DEF TrueToName, TypeInv
  <2>3. at[r] = at[c] /\ at[r] = h
      BY <1>1, <2>1, <2>2 DEF Forget, Forgotten
  <2>4. at[c] = h
      BY <2>3
  <2>5. timer'[c] = -1
      BY <2>1, TableRanges DEF TypeInv
  <2>6. CASE evict[rooms[h]] = c
    <3>1. timer[c] + idle[rooms[h]] >= RoomTTL
        BY <1>1, <2>1, <2>6, ActorsAre DEF KnownClocks
    <3>2. idle[rooms[h]] \in 0..RoomTTL /\ RoomTTL \in Nat
        BY <1>1, TableRanges DEF TypeInv
    <3> QED
        BY <2>1, <3>1, <3>2
  <2>7. CASE evict[rooms[h]] # c
      BY <2>1, <2>4, <2>5, <2>7 DEF Stray
  <2> QED
      BY <2>6, <2>7
<1>4. ASSUME NEW c \in Conn, NEW g \in Hash, Join(c, g)
      PROVE  expired[rooms[h]]
  <2> DEFINE t == IF rooms[g] # None /\ expired[rooms[g]] THEN Forget(rooms[g]) ELSE rooms
  <2>1. Enter(c, g, t, line, peers, ipConns)
      BY <1>4 DEF Join
  <2>2. rooms' = t \/ rooms' = [t EXCEPT ![g] = IF t[g] = None THEN c ELSE t[g]]
      BY <2>1 DEF Enter
  <2>3. CASE rooms[g] # None /\ expired[rooms[g]]
    <3>1. t = Forget(rooms[g]) /\ at[rooms[g]] = g
        BY <1>1, <2>3
    <3>2. \A x \in Hash \ {g} : t[x] = rooms[x]
        BY <3>1 DEF Forget, Forgotten
    <3> HIDE DEF t
    <3>3. \A x \in Hash \ {g} : rooms'[x] = t[x]
        BY <2>2, <3>1 DEF Forget, Forgotten
    <3> QED
        BY <2>3, <3>2, <3>3
  <2>4. CASE ~(rooms[g] # None /\ expired[rooms[g]])
    <3>1. t = rooms
        BY <2>4
    <3>2. rooms'[h] = rooms[h]
        BY <2>2, <3>1, TableRanges DEF TypeInv
    <3> QED
        BY <3>2
  <2> QED
      BY <2>3, <2>4
<1>5. ASSUME NEW c \in Conn, NEW p \in Conn, JoinRetired(c, p)
      PROVE  expired[rooms[h]] \/ Stray(h)
  <2> DEFINE r == retiring[c]
  <2>1. /\ todo[c] = {p}
        /\ Enter(c, at[c], Forget(r), CutOff(p), Without(r, {p}), Uncharged(r, {p}))
      BY <1>5 DEF JoinRetired
  <2>2. r \in Conn /\ expired[r] /\ at[r] = at[c]
    <3>1. r # None /\ at[r] = at[c]
        BY <2>1 DEF TypeInv, Underway, OwnRetired, Actor
    <3> QED
        BY <3>1, TableRanges DEF TypeInv, Condemned, Actor
  <2>3. \/ rooms' = Forget(r)
        \/ rooms' = [Forget(r) EXCEPT ![at[c]] = IF Forget(r)[at[c]] = None THEN c
                                                 ELSE Forget(r)[at[c]]]
      BY <2>1 DEF Enter
  <2>4. \A x \in Hash : x # at[c] => rooms'[x] = rooms[x]
      BY <2>2, <2>3 DEF Forget, Forgotten
  <2>5. at[r] = h
      BY <2>2, <2>4
  <2> QED
      BY <1>2, <2>2, <2>5 DEF Actor
<1>6. CASE Sweep
  <2>1. PICK q \in {rooms[g] : g \in Hash} \ {None} : expired[q] /\ at[q] = h
      BY <1>6, SweepLetsGo DEF Sweep
  <2>2. q = rooms[h]
      BY <1>1, <2>1
  <2> QED
      BY <2>1, <2>2
<1>7. ASSUME NEW p \in Conn, SweepRetired(p)
      PROVE  expired[rooms[h]] \/ Stray(h)
  <2> DEFINE r == retiring[Sweeper]
  <2>1. SweepOn(sweep, Forget(r), [last EXCEPT ![r] = 0]) /\ todo[Sweeper] = {p}
      BY <1>7 DEF SweepRetired
  <2>2. r \in Conn /\ expired[r]
    <3>1. r # None
        BY <2>1 DEF TypeInv, Underway, Actor
    <3> QED
        BY <3>1, TableRanges DEF TypeInv, Condemned, Actor
  <2>3. CASE rooms'[h] # Forget(r)[h]
    <3>1. PICK q \in sweep : expired[q] /\ at[q] = h
        BY <2>1, <2>3, SweepLetsGo
    <3>2. q \in Conn
        BY <3>1 DEF TypeInv, TypeOK
    <3> QED
        BY <1>2, <3>1, <3>2
  <2>4. CASE rooms'[h] = Forget(r)[h]
    <3>1. at[r] = h
        BY <2>4 DEF Forget, Forgotten
    <3> QED
        BY <1>2, <2>2, <3>1 DEF Actor
  <2> QED
      BY <2>3, <2>4
<1>8. ASSUME NEW c \in Conn, Serve(c) \/ Farewell(c) \/ Write(c)
      PROVE  rooms' = rooms
    BY <1>8 DEF Serve, Farewell, Write, Welcomed, FanOutDone, ForwardDone, Answered, PostEnds,
                StreamOpens, Depart, StreamEnds, StreamEnded, DepartureAnnounced, Deliver,
                Lost, WriteFails
<1>9. ASSUME NEW c \in Conn, NEW g \in Hash, JoinRefused(c, g) \/ JoinExpired(c, g)
      PROVE  rooms' = rooms
    BY <1>9 DEF JoinRefused, JoinExpired
<1>10. ASSUME NEW c \in Conn,
              \/ PostBegins(c) \/ Clip(c) \/ RoomWide(c) \/ Answer(c)
              \/ \E p \in Conn : Forward(c, p)
              \/ \E wanted \in OriginId \cup {id[c]} : Hello(c, wanted)
              \/ \E wanted \in OriginId, renamed \in BOOLEAN : HelloTaken(c, wanted, renamed)
              \/ Vanish(c) \/ Expire(c)
       PROVE  rooms' = rooms
    BY <1>10 DEF PostBegins, Clip, RoomWide, Answer, Forward, Hello, HelloTaken, Vanish, Expire
<1>11. ASSUME NEW a \in Actor, NEW p \in Conn, RetireOne(a, p)
       PROVE  rooms' = rooms
    BY <1>11 DEF RetireOne
<1>12. Tick \/ UNCHANGED vars => rooms' = rooms
    BY DEF Tick, vars
<1> QED
    BY <1>3, <1>4, <1>5, <1>6, <1>7, <1>8, <1>9, <1>10, <1>11, <1>12
    DEF Next, Environment, Retire

\* No clock runs to begin with, and nothing is retired.
LEMMA KnownInit == Init => KnownClocks /\ Condemned
<1> SUFFICES ASSUME Init  PROVE KnownClocks /\ Condemned
    OBVIOUS
<1>1. \A c \in Conn : evict[c] = None /\ timer[c] = -1
    BY DEF Init
<1>2. \A a \in Actor : retiring[a] = None
    BY DEF Init
<1> QED
    BY <1>1, <1>2 DEF KnownClocks, Condemned

\* Whoever connects, by whatever transport, with or without a lifetime cap: a
\* room goes when it is past its lifetime, when it has been empty for a whole
\* TTL, or else by a stray.  So the clock a room knows of is never early,
\* however often it is stopped, started anew and overwritten; what is early is
\* a clock that was overwritten before it ran out, which nobody cancels any more
\* (main.py:1342), one that an earlier room of the name left behind, or
\* the end of such a room (_join, _after_departure, _evict_later, _retire).
THEOREM RoomsOutlastTheTTL ==
    Spec => [][\A h \in Hash : rooms[h] # None /\ rooms'[h] # rooms[h]
                  => expired[rooms[h]] \/ idle[rooms[h]] = RoomTTL \/ Stray(h)]_vars
<1> DEFINE Due == \A h \in Hash : rooms[h] # None /\ rooms'[h] # rooms[h]
                     => expired[rooms[h]] \/ idle[rooms[h]] = RoomTTL \/ Stray(h)
           Inv == TypeInv /\ TrueToName /\ OwnRetired /\ KnownClocks /\ Condemned
<1>1. Init => Inv
    BY TypeInit, TableInit, KnownInit
<1>2. Inv /\ [Next]_vars => Inv' /\ [Due]_vars
  <2> SUFFICES ASSUME Inv, [Next]_vars  PROVE Inv' /\ [Due]_vars
      OBVIOUS
  <2>1. TypeInv'
      BY TypeStep
  <2>2. TrueToName' /\ OwnRetired'
      BY <2>1, ThinsOrEnters, ThinStep, EntryStep
  <2>3. KnownClocks' /\ Condemned'
      BY <2>1, KnownStep, CondemnedStep
  <2>4. Due
      BY <2>1, RoomsGo
  <2> QED
      BY <2>1, <2>2, <2>3, <2>4
<1> HIDE DEF Due, Inv
<1>3. Spec => [][Due]_vars
    BY <1>1, <1>2, PTL DEF Spec
<1> QED
    BY <1>3 DEF Due

-----------------------------------------------------------------------------
(* What a queue of frames shows its reader *)

\* The frames that carry a roster, and those that carry a clip.
Rosters == {"peers", "welcome"}
Clips   == {"clip", "welcome"}

\* x is in the roster in force from frame j of the queue w on up to frame i,
\* where frame 0 stands for the roster t already shown.
Carries(w, t, x, j, i) ==
    /\ j = 0 => x \in t
    /\ j > 0 => w[j].t \in Rosters
    /\ \A k \in 1..i : k >= j /\ w[k].t \in Rosters => x \in w[k].list

\* The last frame of w of the kinds K, or 0 for none.
LastIs(w, K, j) ==
    /\ j > 0 => w[j].t \in K
    /\ \A k \in 1..Len(w) : k > j => w[k].t \notin K

\* What the reader has been shown once it has taken frame j.
Shown(w, t, j) == IF j = 0 THEN t ELSE w[j].list
Given(w, n, j) == IF j = 0 THEN n ELSE w[j].n

\* Where frame j is once the oldest has been taken.
Before(j) == IF j = 0 THEN 0 ELSE j - 1

\* A frame is appended.
LEMMA Appended ==
    ASSUME NEW S, NEW w \in Seq(S), NEW f \in S
    PROVE  /\ Append(w, f) \in Seq(S) /\ Len(Append(w, f)) = Len(w) + 1 /\ Len(w) \in Nat
           /\ \A k \in 1..Len(w) : Append(w, f)[k] = w[k]
           /\ Append(w, f)[Len(w) + 1] = f
           /\ DOMAIN w = 1..Len(w) /\ DOMAIN Append(w, f) = 1..(Len(w) + 1)
OBVIOUS

\* The oldest frame goes.
LEMMA Headless ==
    ASSUME NEW S, NEW w \in Seq(S), w # <<>>
    PROVE  /\ Tail(w) \in Seq(S) /\ Len(Tail(w)) = Len(w) - 1 /\ Len(w) \in Nat \ {0}
           /\ \A k \in 1..(Len(w) - 1) : Tail(w)[k] = w[k + 1]
           /\ Head(w) = w[1] /\ w[1] \in S
           /\ DOMAIN w = 1..Len(w) /\ DOMAIN Tail(w) = 1..(Len(w) - 1)
OBVIOUS

\* What is carried up to a frame is carried whatever is appended after it.
LEMMA CarriedOn ==
    ASSUME NEW w \in Seq(Frame), NEW f \in Frame, NEW t, NEW x,
           NEW i \in 0..Len(w), NEW j \in 0..i, Carries(w, t, x, j, i)
    PROVE  Carries(Append(w, f), t, x, j, i)
BY Appended DEF Carries

\* What is carried to the end is carried on by a roster that has it, and by
\* anything that is no roster.
LEMMA CarriedThrough ==
    ASSUME NEW w \in Seq(Frame), NEW f \in Frame, NEW t, NEW x, NEW j \in 0..Len(w),
           Carries(w, t, x, j, Len(w)), f.t \in Rosters => x \in f.list
    PROVE  Carries(Append(w, f), t, x, j, Len(w) + 1)
<1> DEFINE v == Append(w, f)
<1>1. /\ Len(w) \in Nat /\ \A k \in 1..Len(w) : v[k] = w[k]
      /\ v[Len(w) + 1] = f
    BY Appended
<1> HIDE DEF v
<1>2. ASSUME NEW k \in 1..(Len(w) + 1), k >= j, v[k].t \in Rosters
      PROVE  x \in v[k].list
  <2>1. CASE k = Len(w) + 1
      BY <1>1, <1>2, <2>1
  <2>2. CASE k \in 1..Len(w)
      BY <1>1, <1>2, <2>2 DEF Carries
  <2> QED
      BY <1>1, <2>1, <2>2
<1>3. j > 0 => v[j].t \in Rosters
    BY <1>1 DEF Carries
<1> QED
    BY <1>2, <1>3 DEF Carries, v

\* A roster carries whom it has.
LEMMA CarriedAfresh ==
    ASSUME NEW w \in Seq(Frame), NEW f \in Frame, NEW t, NEW x,
           f.t \in Rosters, x \in f.list
    PROVE  Carries(Append(w, f), t, x, Len(w) + 1, Len(w) + 1)
<1>1. Len(w) \in Nat /\ Append(w, f)[Len(w) + 1] = f
    BY Appended
<1>2. \A k \in 1..(Len(w) + 1) : k >= Len(w) + 1 => k = Len(w) + 1
    BY <1>1
<1> QED
    BY <1>1, <1>2 DEF Carries

\* Taking the oldest frame shows what it carries.
LEMMA CarriedHome ==
    ASSUME NEW w \in Seq(Frame), w # <<>>, NEW t, NEW x,
           NEW i \in 1..Len(w), NEW j \in 0..i, Carries(w, t, x, j, i)
    PROVE  Carries(Tail(w), IF Head(w).t \in Rosters THEN Head(w).list ELSE t, x,
                   Before(j), i - 1)
<1> DEFINE v == Tail(w)
<1>1. /\ Len(w) \in Nat \ {0} /\ \A k \in 1..(Len(w) - 1) : v[k] = w[k + 1]
      /\ Head(w) = w[1]
    BY Headless
<1> HIDE DEF v
<1>2. ASSUME NEW k \in 1..(i - 1), k >= Before(j), v[k].t \in Rosters
      PROVE  x \in v[k].list
  <2>1. k + 1 \in 1..i /\ k + 1 >= j /\ v[k] = w[k + 1]
      BY <1>1, <1>2 DEF Before
  <2> QED
      BY <1>2, <2>1 DEF Carries
<1>3. Before(j) > 0 => v[Before(j)].t \in Rosters
  <2>1. ASSUME Before(j) > 0  PROVE j > 0 /\ v[Before(j)] = w[j]
      BY <1>1, <2>1 DEF Before
  <2> QED
      BY <2>1 DEF Carries
<1>4. ASSUME Before(j) = 0
      PROVE  x \in (IF Head(w).t \in Rosters THEN Head(w).list ELSE t)
  <2>1. j \in {0, 1}
      BY <1>4 DEF Before
  <2>2. w[1].t \in Rosters => x \in w[1].list
      BY <2>1 DEF Carries
  <2>3. w[1].t \notin Rosters => x \in t
      BY <2>1 DEF Carries
  <2> QED
      BY <1>1, <2>2, <2>3
<1> QED
    BY <1>2, <1>3, <1>4 DEF Carries, v

\* Losing the oldest frame loses nothing that a later one or the reader has.
LEMMA CarriedPast ==
    ASSUME NEW w \in Seq(Frame), w # <<>>, NEW t, NEW x,
           NEW i \in 1..Len(w), NEW j \in 0..i, j # 1, Carries(w, t, x, j, i)
    PROVE  Carries(Tail(w), t, x, Before(j), i - 1)
<1> DEFINE v == Tail(w)
<1>1. /\ Len(w) \in Nat \ {0} /\ \A k \in 1..(Len(w) - 1) : v[k] = w[k + 1]
    BY Headless
<1> HIDE DEF v
<1>2. ASSUME NEW k \in 1..(i - 1), k >= Before(j), v[k].t \in Rosters
      PROVE  x \in v[k].list
  <2>1. k + 1 \in 1..i /\ k + 1 >= j /\ v[k] = w[k + 1]
      BY <1>1, <1>2 DEF Before
  <2> QED
      BY <1>2, <2>1 DEF Carries
<1>3. Before(j) > 0 => v[Before(j)].t \in Rosters
  <2>1. ASSUME Before(j) > 0  PROVE j > 0 /\ v[Before(j)] = w[j]
      BY <1>1, <2>1 DEF Before
  <2> QED
      BY <2>1 DEF Carries
<1>4. Before(j) = 0 => x \in t
    BY DEF Before, Carries
<1> QED
    BY <1>2, <1>3, <1>4 DEF Carries, v

\* The last of its kind, once a frame is appended.
LEMMA LastAppended ==
    ASSUME NEW w \in Seq(Frame), NEW f \in Frame, NEW K,
           NEW j \in 0..(Len(w) + 1), LastIs(Append(w, f), K, j)
    PROVE  \/ f.t \in K /\ j = Len(w) + 1
           \/ f.t \notin K /\ j \in 0..Len(w) /\ LastIs(w, K, j)
              /\ (j > 0 => Append(w, f)[j] = w[j])
<1> DEFINE v == Append(w, f)
<1>1. /\ Len(w) \in Nat /\ Len(v) = Len(w) + 1 /\ \A k \in 1..Len(w) : v[k] = w[k]
      /\ v[Len(w) + 1] = f
    BY Appended
<1>d. LastIs(v, K, j)
    OBVIOUS
<1> HIDE DEF v
<1>2. CASE j = Len(w) + 1
    BY <1>1, <1>d, <1>2 DEF LastIs
<1>3. CASE j \in 0..Len(w)
  <2>1. f.t \notin K
      BY <1>1, <1>d, <1>3 DEF LastIs
  <2>2. LastIs(w, K, j)
      BY <1>1, <1>d, <1>3 DEF LastIs
  <2>3. j > 0 => v[j] = w[j]
      BY <1>1, <1>3
  <2> QED
      BY <1>3, <2>1, <2>2, <2>3 DEF v
<1> QED
    BY <1>1, <1>2, <1>3

\* The last of its kind, once the oldest is gone.
LEMMA LastHeadless ==
    ASSUME NEW w \in Seq(Frame), w # <<>>, NEW K,
           NEW j \in 0..(Len(w) - 1), LastIs(Tail(w), K, j)
    PROVE  \/ j > 0 /\ LastIs(w, K, j + 1) /\ j + 1 \in 0..Len(w) /\ Tail(w)[j] = w[j + 1]
           \/ j = 0 /\ Head(w).t \in K /\ LastIs(w, K, 1) /\ 1 \in 0..Len(w) /\ Head(w) = w[1]
           \/ j = 0 /\ Head(w).t \notin K /\ LastIs(w, K, 0) /\ 0 \in 0..Len(w)
<1> DEFINE v == Tail(w)
<1>1. /\ Len(w) \in Nat \ {0} /\ Len(v) = Len(w) - 1
      /\ \A k \in 1..(Len(w) - 1) : v[k] = w[k + 1] /\ Head(w) = w[1]
    BY Headless
<1>d. LastIs(v, K, j) /\ Head(w) = w[1]
    BY Headless
<1> HIDE DEF v
<1>2. \A k \in 2..Len(w) : k > j + 1 => w[k].t \notin K
  <2> SUFFICES ASSUME NEW k \in 2..Len(w), k > j + 1  PROVE w[k].t \notin K
      OBVIOUS
  <2>1. k - 1 \in 1..(Len(w) - 1) /\ k - 1 > j
      BY <1>1
  <2>2. v[k - 1] = w[k]
      BY <1>1, <2>1
  <2> QED
      BY <1>1, <1>d, <2>1, <2>2 DEF LastIs
<1>3. CASE j > 0
  <2>1. w[j + 1].t \in K /\ v[j] = w[j + 1]
      BY <1>1, <1>d, <1>3 DEF LastIs
  <2>2. LastIs(w, K, j + 1)
      BY <1>1, <1>2, <1>3, <2>1 DEF LastIs
  <2> QED
      BY <1>1, <1>3, <2>1, <2>2 DEF v
<1>4. CASE j = 0 /\ Head(w).t \in K
  <2>1. LastIs(w, K, 1)
      BY <1>1, <1>d, <1>2, <1>4 DEF LastIs
  <2> QED
      BY <1>1, <1>d, <1>4, <2>1
<1>5. CASE j = 0 /\ Head(w).t \notin K
  <2>1. \A k \in 1..Len(w) : k > 0 => w[k].t \notin K
      BY <1>1, <1>d, <1>2, <1>5
  <2>2. LastIs(w, K, 0)
      BY <2>1 DEF LastIs
  <2> QED
      BY <1>1, <1>5, <2>2
<1> QED
    BY <1>3, <1>4, <1>5

-----------------------------------------------------------------------------
(* What is known of frames on their way *)

\* A line that is not closed, nor known to be.
Heard(p) == line[p] \in {"up", "opening"}

\* Task <<s, "serve">> or <<s, "leave">> is where it waits for frame f to be
\* written, given where the handlers q and the departures l are.
InHand(f, q, l) ==
    LET s == f.by[1] IN
    \/ f.by[2] = "leave" /\ f.t = "peers" /\ l[s] = "fanout"
    \/ f.by[2] = "serve" /\ f.t \in {"peers", "clip", "wide"} /\ q[s] = "fanout"
    \/ f.by[2] = "serve" /\ f.t = "direct" /\ q[s] = "forward"
    \/ f.by[2] = "serve" /\ f.t = "reply" /\ q[s] \in {"answer", "rename"}
    \/ f.by[2] = "serve" /\ f.t = "welcome" /\ q[s] = "welcome"

\* Frames, and failures to write them, stay in one room.
Aimed ==
    /\ \A p \in Conn : \A i \in 1..Len(writes[p]) :
           room[p] # None /\ room[writes[p][i].by[1]] = room[p]
    /\ \A s \in Conn, x \in {"serve", "leave"} : \A p \in bad[<<s, x>>] :
           room[p] # None /\ room[s] = room[p]

\* The task that wrote to a socket waits for it.
Awaited ==
    \A p \in Conn : KindOf[p] = "ws" =>
        \A i \in 1..Len(writes[p]) : InHand(writes[p][i], pc, leave)

\* Failures are kept no longer than the fan-out they are of.
Cleared ==
    \A s \in Conn :
        /\ pc[s] \notin {"fanout", "forward", "answer", "rename"} => bad[<<s, "serve">>] = {}
        /\ leave[s] # "fanout" => bad[<<s, "leave">>] = {}

\* Whoever departs has no line and is in no room; only streams open slowly.
Parting ==
    \A c \in Conn :
        /\ leave[c] # "no" => line[c] = "ended"
        /\ InRoom(c) => leave[c] = "no"
        /\ KindOf[c] = "ws" => line[c] # "opening"

\* A name leads to a room asked for by that name, whose maker is in it.
Founded ==
    /\ \A h \in Hash : rooms[h] # None => at[rooms[h]] = h /\ room[rooms[h]] = rooms[h]
    /\ \A c \in Conn : pc[c] = "new" => at[c] = None
    /\ \A r \in Conn : expired[r] => room[r] = r

\* Only an expired room is retired, and whoever is in it is yet to be cut off.
Retired ==
    \A a \in Actor : retiring[a] # None =>
        /\ expired[retiring[a]] /\ peers[retiring[a]] \subseteq todo[a]
        /\ a \in Conn => pc[a] = "retiring" /\ at[retiring[a]] = at[a]

\* A room that is not being retired keeps its newest clip for late joiners.
Replayed == \A r \in Conn : ~expired[r] \/ peers[r] # {} => last[r] = seq[r]

Delivery == Aimed /\ Awaited /\ Cleared /\ Parting /\ Founded /\ Retired /\ Replayed

\* s is not between two announcements that p was, or is to be, left out of.
Announced(s, p, q, b) ==
    /\ q[s] = "welcome" => s = p
    /\ ~(q[s] = "fanout" /\ p \in b[<<s, "serve">>])

\* p has been shown the id of s and keeps it, or is about to be shown it by its
\* own welcome or by an announcement that s itself waits for.
Meets(p, s) ==
    \E j \in 0..Len(writes[p]) :
        /\ Carries(writes[p], told[p], id[s], j, Len(writes[p]))
        /\ KindOf[p] = "ws" /\ j > 0 =>
               writes[p][j].t = "welcome" \/ writes[p][j].by = <<s, "serve">>

\* p meets everybody in its room, but for those about to be announced to it.
Acquainted(p) ==
    \A s \in Conn :
        InRoom(p) /\ InRoom(s) /\ room[p] = room[s] /\ Announced(s, p, pc, bad) => Meets(p, s)

\* The reader of frame i has been told of its sender when it comes to it.
Vouches(p, i) ==
    \E j \in 0..(i - 1) :
        /\ Carries(writes[p], told[p], writes[p][i].from, j, i - 1)
        /\ KindOf[p] = "ws" /\ j > 0 => writes[p][j].t = "welcome"

\* Whoever speaks to p from within its room is known to it by then.
Signed(p) ==
    \A i \in 1..Len(writes[p]) :
        writes[p][i].from # None /\ InRoom(writes[p][i].by[1]) => Vouches(p, i)

\* A fan-out that p did not get is under way, and will drop p.
Doomed(p, q, b) == \E s \in Conn :
    \/ p \in b[<<s, "serve">>] /\ q[s] \in {"fanout", "forward"}
    \/ p \in b[<<s, "leave">>]

\* Somebody of p's room has the id x, in the room or dropped without a word.
Present(p, x) == \E q \in Conn : room[q] = room[p] /\ id[q] = x /\ leave[q] \in {"no", "due"}

\* The last roster p is to be shown has nobody else in it.
NoStrangers(p) ==
    \A j \in 0..Len(writes[p]) : LastIs(writes[p], Rosters, j)
        => \A x \in Shown(writes[p], told[p], j) : Present(p, x)

\* The last clip p is to be shown is the newest of its room.
NewestComes(p) ==
    \A j \in 0..Len(writes[p]) : LastIs(writes[p], Clips, j)
        => Given(writes[p], held[p], j) = seq[room[p]]

\* What a reader that can be heard of is owed.
Briefed(p) ==
    Heard(p) => /\ Acquainted(p) /\ Signed(p)
                /\ InRoom(p) /\ ~Doomed(p, pc, bad)
                       => NoStrangers(p) /\ (author[room[p]] # p => NewestComes(p))

\* What every reader is owed.
Tidings == \A p \in Conn : Briefed(p)

\* The inductive invariant behind Informed.
Informing == Delivery /\ Tidings

\* What the queues, the tasks and the clients are typed with.
LEMMA WireTypes ==
    ASSUME TypeOK
    PROVE  /\ writes \in [Conn -> Seq(Frame)] /\ bad \in [Task -> SUBSET Conn]
           /\ told \in [Conn -> SUBSET PeerId] /\ held \in [Conn -> Nat]
           /\ pc \in [Conn -> Places] /\ leave \in [Conn -> {"no", "due", "fanout", "done"}]
           /\ room \in [Conn -> Conn \cup {None}] /\ id \in [Conn -> PeerId]
           /\ line \in [Conn -> Lines] /\ peers \in [Conn -> SUBSET Conn]
           /\ seq \in [Conn -> Nat] /\ last \in [Conn -> Nat]
           /\ author \in [Conn -> Conn \cup {None}] /\ None \notin Conn
BY ConstantsAssumption DEF TypeOK, ConstantsAssumption

\* Of these, where a connection is.
LEMMA RoomTypes ==
    ASSUME TypeOK
    PROVE  /\ room \in [Conn -> Conn \cup {None}] /\ peers \in [Conn -> SUBSET Conn]
           /\ None \notin Conn
BY WireTypes

\* A connection that is served is in a room, as both of its tasks are.
LEMMA ServedRoom ==
    ASSUME TypeInv, NEW c \in Conn,
           pc[c] \notin {"new", "retiring", "ended"} \/ leave[c] # "no" \/ line[c] # "down"
    PROVE  /\ room[c] \in Conn /\ room[c] # None /\ peers[room[c]] \in SUBSET Conn
           /\ \A x \in {"serve", "leave"} : <<c, x>> \in Task
<1>1. room[c] \in Conn /\ \A x \in {"serve", "leave"} : <<c, x>> \in Task
    BY Served
<1>2. TypeOK
    BY DEF TypeInv
<1> QED
    BY <1>1, <1>2, RoomTypes

\* The author of a frame is a connection, and its task one of two.
LEMMA ByTask ==
    ASSUME NEW f \in Frame
    PROVE  /\ f.by[1] \in Conn /\ f.by[2] \in {"serve", "leave"} /\ f.by \in Task
           /\ f.by = <<f.by[1], f.by[2]>>
           /\ f.t \in {"clip", "peers", "welcome", "wide", "direct", "reply"}
<1>1. f.by \in Task /\ f.t \in {"clip", "peers", "welcome", "wide", "direct", "reply"}
    BY DEF Frame
<1>2. \A k \in Task : k[1] \in Conn /\ k[2] \in {"serve", "leave"} /\ k = <<k[1], k[2]>>
    BY DEF Task
<1> QED
    BY <1>1, <1>2

\* The two tasks of a connection.
LEMMA TasksAre ==
    ASSUME NEW s \in Conn
    PROVE  /\ <<s, "serve">> \in Task /\ <<s, "leave">> \in Task
           /\ \A d \in Conn, x \in {"serve", "leave"}, y \in {"serve", "leave"} :
                  <<d, y>> = <<s, x>> <=> d = s /\ x = y
           /\ \A x : <<s, x>>[1] = s /\ <<s, x>>[2] = x
BY DEF Task

\* A task is known by its connection and its kind.
LEMMA TaskIs ==
    ASSUME NEW s \in Conn, NEW x \in {"serve", "leave"}
    PROVE  /\ <<s, x>> \in Task /\ <<s, x>>[1] = s /\ <<s, x>>[2] = x
           /\ \A k \in Task : k = <<s, x>> <=> k[1] = s /\ k[2] = x
BY DEF Task

-----------------------------------------------------------------------------
(* The kinds of steps *)

\* Rooms lose peers and lines close; nothing opens but what was opening.
Dwindles ==
    /\ \A d \in Conn : peers'[d] \subseteq peers[d]
    /\ \A d \in Conn : /\ line'[d] \in {"up", "opening"} => line[d] \in {"up", "opening"}
                       /\ line'[d] = "opening" => line[d] = "opening"
                       /\ line[d] = "ended" => line'[d] = "ended"

\* Nothing is written, read or waited for.
Muted ==
    /\ Dwindles /\ UNCHANGED <<writes, told, held, bad, id, room, leave, seq, author>>
    /\ \A d \in Conn : \/ pc'[d] = pc[d]
                       \/ room[d] = None /\ pc'[d] \in {"ended", "retiring"}

\* A handler that was reading starts to write a frame that is no roster.
Utters(c, T, f) ==
    LET k == <<c, "serve">> IN
    /\ Dwindles /\ UNCHANGED <<peers, told, id, room, leave>>
    /\ pc[c] = "read" /\ room[c] # None /\ Settled(k) /\ bad[k] = {}
    /\ f \in Frame /\ f.by = k /\ f.t \in {"clip", "wide", "direct", "reply"}
    /\ f.from = None \/ (f.from = id[c] /\ f.t \in {"wide", "direct"})
    /\ FanOut(k, T, f)
    /\ T \subseteq peers[room[c]] \/ (T = {c} /\ f.t = "reply")
    /\ \A d \in Conn \ {c} : pc'[d] = pc[d]
    /\ T = {} => pc'[c] = "read"
    /\ T # {} => InHand(f, pc', leave')
    /\ IF f.t = "clip"
       THEN /\ f.n = seq[room[c]] + 1 /\ T = peers[room[c]] \ {c}
            /\ seq' = [seq EXCEPT ![room[c]] = @ + 1]
            /\ author' = [author EXCEPT ![room[c]] = c]
            /\ \A d \in Conn \ {c} : held'[d] = held[d]
       ELSE UNCHANGED <<seq, author, held>>

\* A task announces who is in its room: to everybody there, but perhaps itself.
Announces(c, x, T) ==
    LET k == <<c, x>>  r == room[c] IN
    /\ Dwindles /\ UNCHANGED <<room, seq, author>>
    /\ r # None /\ Settled(k)
    /\ FanOut(k, T, PeersFrame(k, {id'[q] : q \in peers'[r]}))
    /\ T \subseteq peers'[r] /\ peers'[r] \ {c} \subseteq T
    /\ \A d \in Conn : line'[d] \in {"up", "opening"} => told'[d] = told[d] /\ held'[d] = held[d]
    /\ \A d \in Conn \ {c} : pc'[d] = pc[d] /\ leave'[d] = leave[d] /\ id'[d] = id[d]
    /\ \/ /\ x = "serve" /\ leave'[c] = leave[c]
          /\ pc[c] \in {"welcome", "read", "rename", "forward"} /\ pc'[c] = After(T)
          /\ id'[c] = id[c] \/ (T = peers'[r] /\ pc[c] = "read")
          /\ pc[c] = "forward" => bad[k] \cap peers'[r] = {}
       \/ /\ x = "leave" /\ id'[c] = id[c] /\ c \notin peers'[r] /\ line'[c] = "ended"
          /\ pc'[c] = pc[c] \/ (pc[c] = "read" /\ pc'[c] = "ended" /\ Settled(<<c, "serve">>))
          /\ bad[k] = {}
          /\ leave'[c] = IF T = {} THEN "done" ELSE "fanout"

\* A fan-out is over: whoever it failed is dropped, unless it was an answer.
Settles(c, x) ==
    LET k == <<c, x>> IN
    /\ Dwindles /\ UNCHANGED <<writes, told, held, id, room, seq, author>>
    /\ room[c] # None /\ Settled(k) /\ bad' = [bad EXCEPT ![k] = {}]
    /\ \/ /\ x = "serve" /\ leave' = leave /\ pc' = [pc EXCEPT ![c] = "read"]
          /\ \/ pc[c] = "answer"
             \/ pc[c] \in {"fanout", "forward"} /\ bad[k] \cap peers'[room[c]] = {}
       \/ /\ x = "leave" /\ pc' = pc /\ leave[c] = "fanout"
          /\ leave' = [leave EXCEPT ![c] = "done"] /\ bad[k] \cap peers'[room[c]] = {}

\* A connection enters room r, in which it finds the peers of X.
Admitted(c, r, X) ==
    /\ r \in Conn /\ X \subseteq peers[r] /\ room[c] = None
    /\ UNCHANGED <<told, held, bad, id, leave, seq, author>>
    /\ room' = [room EXCEPT ![c] = r]
    /\ \A d \in Conn : peers'[d] = IF d = r THEN X \cup {c} ELSE peers'[d] \cap peers[d]
    /\ pc' = [pc EXCEPT ![c] = "welcome"]
    /\ \E f \in Frame :
          /\ f.by = <<c, "serve">> /\ f.t = "welcome" /\ f.n = seq[r] /\ f.from = None
          /\ f.list = {id[q] : q \in X \cup {c}}
          /\ writes' = [writes EXCEPT ![c] = Append(@, f)]
    /\ \A d \in Conn \ {c} :
          /\ line'[d] \in {"up", "opening"} => line[d] \in {"up", "opening"}
          /\ line'[d] = "opening" => line[d] = "opening"
          /\ line[d] = "ended" => line'[d] = "ended"
    /\ line'[c] = IF KindOf[c] = "ws" THEN "up" ELSE "opening"

-----------------------------------------------------------------------------
(* Tasks and their frames *)

\* What a fan-out does to the queues and to the failures.
LEMMA FansOut ==
    ASSUME TypeOK, NEW k \in Task, NEW T, NEW f, FanOut(k, T, f)
    PROVE  /\ \A p \in Conn :
                 \/ p \in T /\ p \notin bad'[k] /\ writes'[p] = Append(writes[p], f)
                 \/ p \in T /\ p \in bad'[k] /\ KindOf[p] = "sse" /\ writes'[p] = writes[p]
                 \/ p \notin T /\ writes'[p] = writes[p]
           /\ \A p \in bad'[k] : p \in T
           /\ T = {} => bad'[k] = {}
           /\ \A j \in Task \ {k} : bad'[j] = bad[j]
<1>1. bad \in [Task -> SUBSET Conn]
    BY WireTypes
<1>2. bad'[k] = {p \in T : Full(p)} /\ \A j \in Task \ {k} : bad'[j] = bad[j]
    BY <1>1 DEF FanOut
<1>3. \A p \in Conn : writes'[p] = IF p \in T /\ ~Full(p) THEN Append(writes[p], f) ELSE writes[p]
    BY DEF FanOut
<1>4. \A p \in Conn : Full(p) => KindOf[p] = "sse"
    BY DEF Full
<1> QED
    BY <1>2, <1>3, <1>4

\* Frames and failures stay in their room if new ones are aimed at it.
LEMMA AimedOn ==
    ASSUME TypeOK, Aimed,
           \A d \in Conn : room[d] # None => room'[d] = room[d],
           \A p \in Conn : \A i \in 1..Len(writes'[p]) :
               \/ \E j \in 1..Len(writes[p]) : writes'[p][i] = writes[p][j]
               \/ room'[p] # None /\ room'[writes'[p][i].by[1]] = room'[p],
           \A s \in Conn, x \in {"serve", "leave"} : \A p \in bad'[<<s, x>>] :
               p \in Conn /\ (p \in bad[<<s, x>>] \/ (room'[p] # None /\ room'[s] = room'[p]))
    PROVE  Aimed'
<1>1. \A p \in Conn : \A j \in 1..Len(writes[p]) : writes[p][j].by[1] \in Conn
    BY WireTypes, ByTask
<1>2. \A p \in Conn : \A i \in 1..Len(writes'[p]) :
          room'[p] # None /\ room'[writes'[p][i].by[1]] = room'[p]
  <2> SUFFICES ASSUME NEW p \in Conn, NEW i \in 1..Len(writes'[p]),
                      NEW j \in 1..Len(writes[p]), writes'[p][i] = writes[p][j]
               PROVE  room'[p] # None /\ room'[writes'[p][i].by[1]] = room'[p]
      OBVIOUS
  <2> QED
      BY <1>1 DEF Aimed
<1>3. \A s \in Conn, x \in {"serve", "leave"} : \A p \in bad'[<<s, x>>] :
          room'[p] # None /\ room'[s] = room'[p]
  <2> TAKE s \in Conn, x \in {"serve", "leave"}
  <2> TAKE p \in bad'[<<s, x>>]
  <2>1. p \in Conn /\ (p \in bad[<<s, x>>] \/ (room'[p] # None /\ room'[s] = room'[p]))
      OBVIOUS
  <2>2. CASE p \in bad[<<s, x>>]
    <3>1. room[p] # None /\ room[s] = room[p]
        BY <2>2 DEF Aimed
    <3>2. room'[p] = room[p] /\ room'[s] = room[s]
        BY <2>1, <3>1
    <3> QED
        BY <3>1, <3>2
  <2> QED
      BY <2>1, <2>2
<1> QED
    BY <1>2, <1>3 DEF Aimed

\* A task that has not moved is still where it was.
LEMMA StillInHand ==
    ASSUME NEW f \in Frame, NEW q, NEW l, NEW q1, NEW l1, InHand(f, q, l),
           f.by[2] = "serve" => q1[f.by[1]] = q[f.by[1]],
           f.by[2] = "leave" => l1[f.by[1]] = l[f.by[1]]
    PROVE  InHand(f, q1, l1)
BY DEF InHand

\* Where a frame of task k is awaited, task k has not settled.
LEMMA NotSettled ==
    ASSUME TypeOK, NEW p \in Conn, KindOf[p] = "ws", NEW i \in 1..Len(writes[p])
    PROVE  ~Settled(writes[p][i].by)
<1>1. i \in DOMAIN writes[p]
    BY WireTypes
<1> QED
    BY <1>1 DEF Settled

\* Every task moved is done with its frames; new frames are of tasks that wait.
LEMMA AwaitedOn ==
    ASSUME TypeOK, Awaited,
           \A d \in Conn : /\ pc'[d] = pc[d] \/ Settled(<<d, "serve">>)
                           /\ leave'[d] = leave[d] \/ Settled(<<d, "leave">>),
           \A p \in Conn : KindOf[p] = "ws" => \A i \in 1..Len(writes'[p]) :
               \/ \E j \in 1..Len(writes[p]) : writes'[p][i] = writes[p][j]
               \/ InHand(writes'[p][i], pc', leave')
    PROVE  Awaited'
<1> SUFFICES ASSUME NEW p \in Conn, KindOf[p] = "ws", NEW i \in 1..Len(writes'[p])
             PROVE  InHand(writes'[p][i], pc', leave')
    BY DEF Awaited
<1>1. ASSUME NEW j \in 1..Len(writes[p]), writes'[p][i] = writes[p][j]
      PROVE  InHand(writes'[p][i], pc', leave')
  <2> DEFINE f == writes[p][j]
  <2>1. f \in Frame
      BY WireTypes
  <2>2. f.by[1] \in Conn /\ f.by = <<f.by[1], f.by[2]>>
      BY <2>1, ByTask
  <2>3. InHand(f, pc, leave) /\ ~Settled(f.by)
      BY NotSettled DEF Awaited
  <2> HIDE DEF f
  <2>4. f.by[2] = "serve" => pc'[f.by[1]] = pc[f.by[1]]
      BY <2>2, <2>3
  <2>5. f.by[2] = "leave" => leave'[f.by[1]] = leave[f.by[1]]
      BY <2>2, <2>3
  <2>6. InHand(f, pc', leave')
      BY <2>1, <2>3, <2>4, <2>5, StillInHand
  <2> QED
      BY <1>1, <2>6 DEF f
<1> QED
    BY <1>1

\* A handler that waits for no write has nothing written.
LEMMA Idle ==
    ASSUME TypeOK, Awaited, NEW c \in Conn
    PROVE  /\ pc[c] \notin {"fanout", "forward", "answer", "rename", "welcome"}
                  => Settled(<<c, "serve">>)
           /\ leave[c] # "fanout" => Settled(<<c, "leave">>)
<1> SUFFICES ASSUME NEW p \in Conn, KindOf[p] = "ws", NEW i \in DOMAIN writes[p]
             PROVE  /\ pc[c] \notin {"fanout", "forward", "answer", "rename", "welcome"}
                           => writes[p][i].by # <<c, "serve">>
                    /\ leave[c] # "fanout" => writes[p][i].by # <<c, "leave">>
    BY DEF Settled
<1>1. i \in 1..Len(writes[p])
    BY WireTypes
<1>2. InHand(writes[p][i], pc, leave)
    BY <1>1 DEF Awaited
<1> QED
    BY <1>2, TasksAre DEF InHand

\* The part of Delivery that is about frames and tasks.
Wire == Aimed /\ Awaited /\ Cleared /\ Parting

\* Peers that are lost and lines that close part nobody further.
LEMMA PartingOn ==
    ASSUME TypeOK, Parting, Dwindles, UNCHANGED room,
           \A d \in Conn : leave'[d] # leave[d] => /\ line'[d] = "ended"
                                                   /\ d \notin peers'[room[d]]
    PROVE  Parting'
<1>1. \A d \in Conn : leave'[d] # "no" => line'[d] = "ended"
    BY DEF Parting, Dwindles
<1>2. \A d \in Conn : room'[d] # None /\ d \in peers'[room'[d]] => leave'[d] = "no"
  <2>1. \A d \in Conn : room[d] # None => room[d] \in Conn
      BY WireTypes
  <2> QED
      BY <2>1 DEF Parting, Dwindles, InRoom
<1>3. \A d \in Conn : KindOf[d] = "ws" => line'[d] # "opening"
    BY DEF Parting, Dwindles
<1> QED
    BY <1>1, <1>2, <1>3 DEF Parting, InRoom

\* Nothing written or read: the wire stays sound.
LEMMA WireMuted ==
    ASSUME TypeInv, Wire, Muted
    PROVE  Wire'
<1>1. TypeOK /\ Aimed /\ Awaited /\ Cleared /\ Parting
    BY DEF TypeInv, Wire
<1>2. UNCHANGED <<writes, bad, room, leave>> /\ Dwindles
    BY DEF Muted
<1>3. \A d \in Conn : \/ pc'[d] = pc[d]
                      \/ pc[d] \in {"new", "retiring", "ended"} /\ pc'[d] \in {"ended", "retiring"}
    BY DEF Muted, TypeInv, Placed
<1>4. Aimed'
    BY <1>1, <1>2 DEF Aimed
<1>5. Awaited'
  <2>1. \A d \in Conn : pc'[d] = pc[d] \/ Settled(<<d, "serve">>)
      BY <1>1, <1>3, Idle
  <2> QED
      BY <1>1, <1>2, <2>1, AwaitedOn
<1>6. Cleared'
    BY <1>1, <1>2, <1>3 DEF Cleared
<1>7. Parting'
    BY <1>1, <1>2, PartingOn
<1> QED
    BY <1>4, <1>5, <1>6, <1>7 DEF Wire

\* A fan-out of task <<c, x>> to connections of the room of c.
LEMMA FanOutWire ==
    ASSUME TypeInv, Wire, NEW c \in Conn, NEW x \in {"serve", "leave"}, NEW T, NEW f,
           FanOut(<<c, x>>, T, f), f.by = <<c, x>>, UNCHANGED room,
           room[c] # None, \A p \in T : p \in Conn /\ room[p] = room[c],
           T # {} => InHand(f, pc', leave'),
           \A d \in Conn : /\ pc'[d] = pc[d] \/ Settled(<<d, "serve">>)
                           /\ leave'[d] = leave[d] \/ Settled(<<d, "leave">>)
    PROVE  Aimed' /\ Awaited'
<1> DEFINE k == <<c, x>>
<1>1. TypeOK /\ Aimed /\ Awaited
    BY DEF TypeInv, Wire
<1>2. k \in Task /\ f.by[1] = c
    BY DEF Task
<1> HIDE DEF k
<1>3. /\ \A p \in Conn : writes'[p] = writes[p] \/ (p \in T /\ writes'[p] = Append(writes[p], f))
      /\ \A p \in bad'[k] : p \in T
      /\ \A j \in Task \ {k} : bad'[j] = bad[j]
  <2>1. FanOut(k, T, f)
      BY DEF k
  <2> QED
      BY <1>1, <1>2, <2>1, FansOut
<1>4. \A p \in Conn : \A i \in 1..Len(writes'[p]) :
          \/ \E j \in 1..Len(writes[p]) : writes'[p][i] = writes[p][j]
          \/ p \in T /\ writes'[p][i] = f
  <2> SUFFICES ASSUME NEW p \in Conn, NEW i \in 1..Len(writes'[p]), p \in T,
                      writes'[p] = Append(writes[p], f)
               PROVE  \/ \E j \in 1..Len(writes[p]) : writes'[p][i] = writes[p][j]
                      \/ writes'[p][i] = f
      BY <1>3
  <2>1. writes[p] \in Seq(Frame)
      BY <1>1, WireTypes
  <2> QED
      BY <2>1
<1>5. Aimed'
  <2>1. \A p \in Conn : \A i \in 1..Len(writes'[p]) :
            \/ \E j \in 1..Len(writes[p]) : writes'[p][i] = writes[p][j]
            \/ room'[p] # None /\ room'[writes'[p][i].by[1]] = room'[p]
      BY <1>2, <1>4
  <2>2. \A s \in Conn, y \in {"serve", "leave"} : \A p \in bad'[<<s, y>>] :
            p \in Conn /\ (p \in bad[<<s, y>>] \/ (room'[p] # None /\ room'[s] = room'[p]))
    <3> SUFFICES ASSUME NEW s \in Conn, NEW y \in {"serve", "leave"}, NEW p \in bad'[<<s, y>>]
                 PROVE  p \in Conn /\ (p \in bad[<<s, y>>] \/ (room'[p] # None /\ room'[s] = room'[p]))
        OBVIOUS
    <3>1. CASE <<s, y>> = k
        BY <1>3, <3>1, TasksAre DEF k
    <3>2. CASE <<s, y>> # k
        <4>1. <<s, y>> \in Task
            BY TasksAre
        <4>2. bad'[<<s, y>>] = bad[<<s, y>>]
            BY <1>3, <3>2, <4>1
        <4>3. bad \in [Task -> SUBSET Conn]
            BY <1>1, WireTypes
        <4>4. bad[<<s, y>>] \subseteq Conn
            BY <4>1, <4>3
        <4> QED
            BY <4>2, <4>4
    <3> QED
        BY <3>1, <3>2
  <2> QED
      BY <1>1, <2>1, <2>2, AimedOn
<1>6. Awaited'
  <2>1. \A p \in Conn : KindOf[p] = "ws" => \A i \in 1..Len(writes'[p]) :
            \/ \E j \in 1..Len(writes[p]) : writes'[p][i] = writes[p][j]
            \/ InHand(writes'[p][i], pc', leave')
      BY <1>4
  <2> QED
      BY <1>1, <2>1, AwaitedOn
<1> QED
    BY <1>5, <1>6

\* The members of a room captured it.
LEMMA PeersHere ==
    ASSUME TypeOK, Bookkeeping, NEW r \in Conn, NEW p \in peers[r]
    PROVE  p \in Conn /\ room[p] = r /\ InRoom(p)
BY WireTypes DEF Bookkeeping, Apart, InRoom

\* A handler that starts to write waits for what it wrote.
LEMMA WireUtters ==
    ASSUME TypeInv, TypeInv', Bookkeeping, Wire, NEW c \in Conn, NEW T, NEW f, Utters(c, T, f)
    PROVE  Wire'
<1> DEFINE k == <<c, "serve">>
<1>1. TypeOK /\ TypeOK' /\ Aimed /\ Awaited /\ Cleared /\ Parting
    BY DEF TypeInv, Wire
<1>2. /\ Dwindles /\ UNCHANGED <<room, leave>> /\ room[c] # None /\ Settled(k)
      /\ f \in Frame /\ f.by = k /\ FanOut(k, T, f)
      /\ \A d \in Conn \ {c} : pc'[d] = pc[d]
      /\ T = {} => pc'[c] = "read"
      /\ T # {} => InHand(f, pc', leave')
      /\ f.t \in {"clip", "wide", "direct", "reply"}
    BY DEF Utters
<1>3. \A p \in T : p \in Conn /\ room[p] = room[c]
  <2>1. room[c] \in Conn
      BY <1>1, <1>2, WireTypes
  <2>2. T \subseteq peers[room[c]] \/ T = {c}
      BY DEF Utters
  <2> QED
      BY <1>1, <2>1, <2>2, PeersHere
<1>4. Aimed' /\ Awaited'
    BY <1>2, <1>3, FanOutWire
<1>5. Cleared'
  <2>1. k \in Task /\ f.by = k /\ k[1] = c /\ k[2] = "serve"
      BY <1>2 DEF Task
  <2>2. /\ T = {} => bad'[k] = {}
        /\ \A j \in Task \ {k} : bad'[j] = bad[j]
      BY <1>1, <1>2, <2>1, FansOut
  <2>3. T # {} => pc'[c] \in {"fanout", "forward", "answer", "rename"}
      BY <1>2, <2>1 DEF InHand
  <2>4. \A s \in Conn \ {c} : bad'[<<s, "serve">>] = bad[<<s, "serve">>]
      BY <2>2, TasksAre
  <2>5. \A s \in Conn : bad'[<<s, "leave">>] = bad[<<s, "leave">>]
      BY <2>2, TasksAre
  <2> QED
      BY <1>1, <1>2, <2>2, <2>3, <2>4, <2>5 DEF Cleared
<1>6. Parting'
    BY <1>1, <1>2, PartingOn
<1> QED
    BY <1>4, <1>5, <1>6 DEF Wire

\* The frame of an announcement, and who gets it.
LEMMA AnnouncedFrame ==
    ASSUME TypeInv, TypeInv', Bookkeeping, NEW c \in Conn, NEW x \in {"serve", "leave"}, NEW T,
           Announces(c, x, T),
           NEW k, k = <<c, x>>, NEW f, f = PeersFrame(k, {id'[q] : q \in peers'[room[c]]})
    PROVE  /\ k \in Task /\ f \in Frame /\ f.by = k /\ f.t = "peers" /\ f.from = None
           /\ f.list = {id'[q] : q \in peers'[room[c]]}
           /\ FanOut(k, T, f) /\ room[c] \in Conn
           /\ \A p \in T : p \in Conn /\ room[p] = room[c]
<1> DEFINE L == {id'[q] : q \in peers'[room[c]]}
<1>1. TypeOK /\ TypeOK'
    BY DEF TypeInv
<1>2. k \in Task /\ room[c] \in Conn
    BY <1>1, WireTypes DEF Task, Announces
<1>3. peers'[room[c]] \subseteq peers[room[c]] /\ T \subseteq peers'[room[c]]
    BY <1>2 DEF Announces, Dwindles
<1>4. \A p \in T : p \in Conn /\ room[p] = room[c]
    BY <1>1, <1>2, <1>3, PeersHere
<1>5. L \in SUBSET PeerId
  <2>1. id' \in [Conn -> PeerId] /\ peers'[room[c]] \subseteq Conn
      BY <1>1, <1>2 DEF TypeOK
  <2> QED
      BY <2>1
<1>6. FanOut(k, T, f)
    BY DEF Announces
<1> HIDE DEF L
<1>0. f = PeersFrame(k, L)
    BY DEF L
<1>7. f \in Frame /\ f.by = k /\ f.t = "peers" /\ f.from = None /\ f.list = L
    BY <1>0, <1>2, <1>5 DEF PeersFrame, Frame
<1> QED
    BY <1>2, <1>4, <1>6, <1>7 DEF L

\* So does a task that announces.
LEMMA WireAnnounces ==
    ASSUME TypeInv, TypeInv', Bookkeeping, Wire, NEW c \in Conn, NEW x \in {"serve", "leave"},
           NEW T, Announces(c, x, T)
    PROVE  Wire'
<1> DEFINE k == <<c, x>>
           f == PeersFrame(k, {id'[q] : q \in peers'[room[c]]})
<1>1. TypeOK /\ TypeOK' /\ Aimed /\ Awaited /\ Cleared /\ Parting
    BY DEF TypeInv, Wire
<1>0. k = <<c, x>> /\ f = PeersFrame(k, {id'[q] : q \in peers'[room[c]]})
    OBVIOUS
<1> HIDE DEF f, k
<1>2. /\ k \in Task /\ f \in Frame /\ f.by = k /\ f.t = "peers" /\ f.from = None
      /\ f.list = {id'[q] : q \in peers'[room[c]]}
      /\ FanOut(k, T, f) /\ room[c] \in Conn
      /\ \A p \in T : p \in Conn /\ room[p] = room[c]
    BY <1>0, AnnouncedFrame
<1>3. /\ Dwindles /\ UNCHANGED room /\ room[c] # None /\ Settled(k)
      /\ \A d \in Conn \ {c} : pc'[d] = pc[d] /\ leave'[d] = leave[d]
      /\ \/ /\ x = "serve" /\ leave'[c] = leave[c] /\ pc'[c] = After(T)
            /\ pc[c] \in {"welcome", "read", "rename", "forward"}
         \/ /\ x = "leave" /\ c \notin peers'[room[c]] /\ line'[c] = "ended"
            /\ pc'[c] = pc[c] \/ (pc[c] = "read" /\ pc'[c] = "ended" /\ Settled(<<c, "serve">>))
            /\ bad[k] = {}
            /\ leave'[c] = IF T = {} THEN "done" ELSE "fanout"
    BY DEF Announces, k
<1>4. f.by[1] = c /\ f.by[2] = x
    BY <1>2 DEF k
<1>5. T # {} => InHand(f, pc', leave')
    BY <1>2, <1>3, <1>4 DEF InHand, After
<1>6. \A d \in Conn : /\ pc'[d] = pc[d] \/ Settled(<<d, "serve">>)
                      /\ leave'[d] = leave[d] \/ Settled(<<d, "leave">>)
    BY <1>3 DEF k
<1>7. Aimed' /\ Awaited'
    BY <1>2, <1>3, <1>5, <1>6, FanOutWire DEF k
<1>8. Cleared'
  <2>1. /\ T = {} => bad'[k] = {}
        /\ \A j \in Task \ {k} : bad'[j] = bad[j]
      BY <1>1, <1>2, FansOut
  <2>2. ASSUME NEW s \in Conn, pc'[s] \notin {"fanout", "forward", "answer", "rename"}
        PROVE  bad'[<<s, "serve">>] = {}
    <3>1. CASE <<s, "serve">> = k
      <4>1. s = c /\ x = "serve"
          BY <3>1 DEF k
      <4>2. T = {}
          BY <1>3, <2>2, <4>1 DEF After
      <4> QED
          BY <2>1, <3>1, <4>2
    <3>2. CASE <<s, "serve">> # k
      <4>1. bad'[<<s, "serve">>] = bad[<<s, "serve">>]
          BY <2>1, <3>2, TasksAre
      <4>2. pc[s] \notin {"fanout", "forward", "answer", "rename"}
          BY <1>3, <2>2, <3>2 DEF k
      <4> QED
          BY <1>1, <4>1, <4>2 DEF Cleared
    <3> QED
        BY <3>1, <3>2
  <2>3. ASSUME NEW s \in Conn, leave'[s] # "fanout"
        PROVE  bad'[<<s, "leave">>] = {}
    <3>1. CASE <<s, "leave">> = k
      <4>1. s = c /\ x = "leave"
          BY <3>1 DEF k
      <4>2. T = {}
          BY <1>3, <2>3, <4>1
      <4> QED
          BY <2>1, <3>1, <4>2
    <3>2. CASE <<s, "leave">> # k
      <4>1. bad'[<<s, "leave">>] = bad[<<s, "leave">>]
          BY <2>1, <3>2, TasksAre
      <4>2. leave[s] # "fanout"
          BY <1>3, <2>3, <3>2 DEF k
      <4> QED
          BY <1>1, <4>1, <4>2 DEF Cleared
    <3> QED
        BY <3>1, <3>2
  <2> QED
      BY <2>2, <2>3 DEF Cleared
<1>9. Parting'
  <2>1. \A d \in Conn : leave'[d] # leave[d] => line'[d] = "ended" /\ d \notin peers'[room[d]]
      BY <1>3
  <2> QED
      BY <1>1, <1>3, <2>1, PartingOn
<1> QED
    BY <1>7, <1>8, <1>9 DEF Wire

\* A task that is done waits for nothing, and keeps no failures.
LEMMA WireSettles ==
    ASSUME TypeInv, Wire, NEW c \in Conn, NEW x \in {"serve", "leave"}, Settles(c, x)
    PROVE  Wire'
<1> DEFINE k == <<c, x>>
<1>1. TypeOK /\ Aimed /\ Awaited /\ Cleared /\ Parting
    BY DEF TypeInv, Wire
<1>2. /\ Dwindles /\ UNCHANGED <<writes, room>> /\ Settled(k) /\ k \in Task
      /\ bad' = [bad EXCEPT ![k] = {}]
      /\ \/ x = "serve" /\ leave' = leave /\ pc' = [pc EXCEPT ![c] = "read"]
         \/ x = "leave" /\ pc' = pc /\ leave[c] = "fanout" /\ leave' = [leave EXCEPT ![c] = "done"]
  <2>1. k \in Task
      BY DEF Task
  <2> QED
      BY <2>1 DEF Settles
<1>3. bad'[k] = {} /\ \A j \in Task \ {k} : bad'[j] = bad[j]
    BY <1>1, <1>2, WireTypes
<1>4. \A j \in Task : bad'[j] \subseteq bad[j]
    BY <1>3
<1>5. \A d \in Conn : /\ pc'[d] = pc[d] \/ (d = c /\ x = "serve")
                      /\ leave'[d] = leave[d] \/ (d = c /\ x = "leave")
  <2>1. pc \in [Conn -> Places] /\ leave \in [Conn -> {"no", "due", "fanout", "done"}]
      BY <1>1, WireTypes
  <2> QED
      BY <1>2, <2>1
<1>6. Aimed'
    BY <1>1, <1>2, <1>4, TasksAre DEF Aimed
<1>7. Awaited'
    BY <1>1, <1>2, <1>5, AwaitedOn
<1>8. Cleared'
  <2>1. \A s \in Conn : /\ bad'[<<s, "serve">>] = {} \/ (bad'[<<s, "serve">>] = bad[<<s, "serve">>] /\ <<s, "serve">> # k)
                        /\ bad'[<<s, "leave">>] = {} \/ (bad'[<<s, "leave">>] = bad[<<s, "leave">>] /\ <<s, "leave">> # k)
      BY <1>3, TasksAre
  <2> HIDE DEF k
  <2>2. \A s \in Conn : /\ <<s, "serve">> # k => pc'[s] = pc[s]
                        /\ <<s, "leave">> # k => leave'[s] = leave[s]
      BY <1>5 DEF k
  <2> QED
      BY <1>1, <2>1, <2>2 DEF Cleared
<1>9. Parting'
  <2>1. \A d \in Conn : leave'[d] # leave[d] => leave[d] # "no"
      BY <1>2, <1>5
  <2>2. \A d \in Conn : leave'[d] # "no" => line'[d] = "ended"
      BY <1>1, <1>2, <1>5 DEF Parting, Dwindles
  <2>3. \A d \in Conn : InRoom(d)' => leave'[d] = "no"
    <3>1. \A d \in Conn : InRoom(d)' => InRoom(d)
        BY <1>1, <1>2, WireTypes DEF InRoom, Dwindles
    <3> QED
        BY <1>1, <2>1, <3>1 DEF Parting
  <2> QED
      BY <1>1, <1>2, <2>2, <2>3 DEF Parting, Dwindles
<1> QED
    BY <1>6, <1>7, <1>8, <1>9 DEF Wire

\* The oldest frame of a queue is taken or lost.
Shortens(p) ==
    /\ writes[p] # <<>> /\ writes' = [writes EXCEPT ![p] = Tail(@)]
    /\ UNCHANGED <<peers, room, id, line, pc, leave, seq, author>>

\* The oldest frame of a queue goes, its failure noted or not.
LEMMA WireShortens ==
    ASSUME TypeInv, Wire, NEW p \in Conn, Shortens(p),
           \/ bad' = bad
           \/ /\ KindOf[p] = "ws" /\ Head(writes[p]).t \notin {"welcome", "reply"}
              /\ bad' = [bad EXCEPT ![Head(writes[p]).by] = @ \cup {p}]
    PROVE  Wire'
<1> DEFINE f == Head(writes[p])
<1>1. TypeOK /\ Aimed /\ Awaited /\ Cleared /\ Parting
    BY DEF TypeInv, Wire
<1>2. writes[p] \in Seq(Frame) /\ writes[p] # <<>>
    BY <1>1, WireTypes DEF Shortens
<1>3. /\ f = writes[p][1] /\ f \in Frame /\ 1 \in 1..Len(writes[p])
      /\ \A k \in 1..Len(Tail(writes[p])) : k + 1 \in 1..Len(writes[p])
                                            /\ Tail(writes[p])[k] = writes[p][k + 1]
    BY <1>2, Headless
<1>4. /\ \A q \in Conn : \A i \in 1..Len(writes'[q]) :
             \E j \in 1..Len(writes[q]) : writes'[q][i] = writes[q][j]
  <2>1. writes'[p] = Tail(writes[p]) /\ \A q \in Conn \ {p} : writes'[q] = writes[q]
      BY <1>1, WireTypes DEF Shortens
  <2> SUFFICES ASSUME NEW q \in Conn, NEW i \in 1..Len(writes'[q])
               PROVE  \E j \in 1..Len(writes[q]) : writes'[q][i] = writes[q][j]
      OBVIOUS
  <2>2. CASE q = p
    <3>1. writes'[q] = Tail(writes[q])
        BY <2>1, <2>2
    <3>2. i \in 1..Len(Tail(writes[p])) /\ writes'[q][i] = Tail(writes[p])[i]
        BY <2>2, <3>1
    <3>3. i + 1 \in 1..Len(writes[p]) /\ Tail(writes[p])[i] = writes[p][i + 1]
        BY <1>3, <3>2
    <3> QED
        BY <2>2, <3>2, <3>3
  <2>3. CASE q # p
    <3>1. writes'[q] = writes[q]
        BY <2>1, <2>3
    <3> QED
        BY <3>1
  <2> QED
      BY <2>2, <2>3
<1>5. UNCHANGED <<peers, room, line, pc, leave>>
    BY DEF Shortens
<1>6. /\ f.by[1] \in Conn /\ f.by[2] \in {"serve", "leave"} /\ f.by \in Task
      /\ f.by = <<f.by[1], f.by[2]>>
      /\ room[p] # None /\ room[f.by[1]] = room[p]
    BY <1>1, <1>3, ByTask DEF Aimed
<1>7. \A j \in Task : bad'[j] = bad[j] \/ (j = f.by /\ bad'[j] = bad[j] \cup {p})
    BY <1>1, <1>6, WireTypes
<1> HIDE DEF f
<1>8. Aimed'
  <2>1. \A s \in Conn, y \in {"serve", "leave"} : \A q \in bad'[<<s, y>>] :
            q \in Conn /\ (q \in bad[<<s, y>>] \/ (room'[q] # None /\ room'[s] = room'[q]))
    <3> SUFFICES ASSUME NEW s \in Conn, NEW y \in {"serve", "leave"}, NEW q \in bad'[<<s, y>>]
                 PROVE  q \in Conn /\ (q \in bad[<<s, y>>] \/ (room'[q] # None /\ room'[s] = room'[q]))
        OBVIOUS
    <3>1. <<s, y>> \in Task /\ <<s, y>>[1] = s
        BY DEF Task
    <3>2. CASE bad'[<<s, y>>] = bad[<<s, y>>]
        BY <1>1, <3>1, <3>2, WireTypes
    <3>3. CASE <<s, y>> = f.by /\ bad'[<<s, y>>] = bad[<<s, y>>] \cup {p}
      <4>1. s = f.by[1]
          BY <3>1, <3>3
      <4>2. q \in bad[<<s, y>>] \/ q = p
          BY <3>3
      <4>3. bad[<<s, y>>] \subseteq Conn
          BY <1>1, <3>1, WireTypes
      <4> QED
          BY <1>5, <1>6, <4>1, <4>2, <4>3
    <3> QED
        BY <1>7, <3>1, <3>2, <3>3
  <2> QED
      BY <1>1, <1>4, <1>5, <2>1, AimedOn
<1>9. Awaited'
    BY <1>1, <1>4, <1>5, AwaitedOn
<1>10. Cleared'
  <2>1. CASE bad' = bad
      BY <1>1, <1>5, <2>1 DEF Cleared
  <2>2. CASE KindOf[p] = "ws" /\ f.t \notin {"welcome", "reply"}
    <3>1. InHand(f, pc, leave)
        BY <1>1, <1>3, <2>2 DEF Awaited
    <3>2. /\ f.by[2] = "leave" => leave[f.by[1]] = "fanout"
          /\ f.by[2] = "serve" => pc[f.by[1]] \in {"fanout", "forward"}
        BY <2>2, <3>1 DEF InHand
    <3>3. ASSUME NEW s \in Conn, pc[s] \notin {"fanout", "forward", "answer", "rename"}
          PROVE  bad'[<<s, "serve">>] = {}
      <4>1. <<s, "serve">> \in Task /\ (f.by = <<s, "serve">> => f.by[1] = s /\ f.by[2] = "serve")
          BY DEF Task
      <4>2. <<s, "serve">> # f.by
          BY <3>2, <3>3, <4>1
      <4> QED
          BY <1>1, <1>7, <3>3, <4>1, <4>2 DEF Cleared
    <3>4. ASSUME NEW s \in Conn, leave[s] # "fanout"
          PROVE  bad'[<<s, "leave">>] = {}
      <4>1. /\ <<s, "leave">> \in Task
            /\ f.by = <<s, "leave">> => f.by[1] = s /\ f.by[2] = "leave"
          BY DEF Task
      <4>2. <<s, "leave">> # f.by
          BY <3>2, <3>4, <4>1
      <4> QED
          BY <1>1, <1>7, <3>4, <4>1, <4>2 DEF Cleared
    <3> QED
        BY <1>5, <3>3, <3>4 DEF Cleared
  <2> QED
      BY <2>1, <2>2 DEF f
<1>11. Parting'
    BY <1>1, <1>5 DEF Parting, InRoom
<1> QED
    BY <1>8, <1>9, <1>10, <1>11 DEF Wire

\* The generator of a stream closes, with whatever was queued for it.
Closes(c) ==
    /\ Dwindles /\ room[c] # None /\ c \notin peers'[room[c]] /\ line'[c] = "ended"
    /\ writes' = [writes EXCEPT ![c] = <<>>]
    /\ leave[c] = "no" /\ leave' = [leave EXCEPT ![c] = "due"]
    /\ \A d \in Conn \ {c} : told'[d] = told[d] /\ held'[d] = held[d]
    /\ UNCHANGED <<bad, id, room, pc, seq, author>>

\* A stream that closes takes its queue with it.
LEMMA WireCloses ==
    ASSUME TypeInv, Wire, NEW c \in Conn, Closes(c)
    PROVE  Wire'
<1>1. TypeOK /\ Aimed /\ Awaited /\ Cleared /\ Parting
    BY DEF TypeInv, Wire
<1>2. UNCHANGED <<bad, room, pc>> /\ Dwindles
    BY DEF Closes
<1>3. \A q \in Conn : \A i \in 1..Len(writes'[q]) :
          \E j \in 1..Len(writes[q]) : writes'[q][i] = writes[q][j]
  <2>1. writes'[c] = <<>> /\ \A q \in Conn \ {c} : writes'[q] = writes[q]
      BY <1>1, WireTypes DEF Closes
  <2> QED
      BY <2>1
<1>4. leave[c] = "no" /\ leave'[c] = "due" /\ \A d \in Conn \ {c} : leave'[d] = leave[d]
    BY <1>1, WireTypes DEF Closes
<1>5. Settled(<<c, "leave">>)
    BY <1>1, <1>4, Idle
<1>6. Aimed'
    BY <1>1, <1>2, <1>3, AimedOn, TasksAre, WireTypes
<1>7. Awaited'
    BY <1>1, <1>2, <1>3, <1>4, <1>5, AwaitedOn
<1>8. Cleared'
    BY <1>1, <1>2, <1>4 DEF Cleared
<1>9. Parting'
    BY <1>1, <1>4, PartingOn DEF Closes
<1> QED
    BY <1>6, <1>7, <1>8, <1>9 DEF Wire

\* The first frame of a queue is the welcome its own handler waits for.
LEMMA WireAdmitted ==
    ASSUME TypeInv, Wire, NEW c \in Conn, NEW r, NEW X, Admitted(c, r, X)
    PROVE  Wire'
<1>1. TypeOK /\ Aimed /\ Awaited /\ Cleared /\ Parting
    BY DEF TypeInv, Wire
<1>2. /\ r \in Conn /\ room[c] = None /\ leave[c] = "no" /\ pc[c] \in {"new", "retiring", "ended"}
      /\ UNCHANGED <<bad, leave>>
      /\ room'[c] = r /\ pc'[c] = "welcome"
      /\ \A d \in Conn \ {c} : room'[d] = room[d] /\ pc'[d] = pc[d]
  <2>1. room \in [Conn -> Conn \cup {None}] /\ pc \in [Conn -> Places]
      BY <1>1, WireTypes
  <2> QED
      BY <2>1 DEF Admitted, TypeInv, Placed
<1>3. PICK f \in Frame : /\ f.by = <<c, "serve">> /\ f.t = "welcome"
                         /\ writes' = [writes EXCEPT ![c] = Append(@, f)]
    BY DEF Admitted
<1>4. \A q \in Conn : \A i \in 1..Len(writes'[q]) :
          \/ \E j \in 1..Len(writes[q]) : writes'[q][i] = writes[q][j]
          \/ q = c /\ writes'[q][i] = f
  <2>1. writes'[c] = Append(writes[c], f) /\ \A q \in Conn \ {c} : writes'[q] = writes[q]
        /\ writes[c] \in Seq(Frame)
      BY <1>1, <1>3, WireTypes
  <2>2. \A i \in 1..Len(Append(writes[c], f)) : i \in 1..Len(writes[c]) \/ i = Len(writes[c]) + 1
      BY <2>1
  <2>3. \A i \in 1..Len(writes'[c]) : \/ \E j \in 1..Len(writes[c]) : writes'[c][i] = writes[c][j]
                                      \/ writes'[c][i] = f
      BY <2>1, <2>2, Appended
  <2> QED
      BY <2>1, <2>3
<1>5. f.by[1] = c /\ f.by[2] = "serve"
    BY <1>3
<1>6. Settled(<<c, "serve">>)
    BY <1>1, <1>2, Idle
<1>7. Aimed'
  <2>1. \A q \in Conn : \A i \in 1..Len(writes'[q]) :
            \/ \E j \in 1..Len(writes[q]) : writes'[q][i] = writes[q][j]
            \/ room'[q] # None /\ room'[writes'[q][i].by[1]] = room'[q]
    <3>1. room'[c] = r /\ r # None
        BY <1>1, <1>2, RoomTypes
    <3>2. \A q \in Conn : \A i \in 1..Len(writes'[q]) :
              q = c /\ writes'[q][i] = f => room'[q] # None /\ room'[writes'[q][i].by[1]] = room'[q]
        BY <1>5, <3>1
    <3> QED
        BY <1>4, <3>2
  <2>2. \A s \in Conn, y \in {"serve", "leave"} : \A p \in bad'[<<s, y>>] :
            p \in Conn /\ p \in bad[<<s, y>>]
    <3> SUFFICES ASSUME NEW s \in Conn, NEW y \in {"serve", "leave"}, NEW p \in bad'[<<s, y>>]
                 PROVE  p \in Conn /\ p \in bad[<<s, y>>]
        OBVIOUS
    <3>1. <<s, y>> \in Task /\ bad' = bad
        BY <1>2, TaskIs
    <3> QED
        BY <1>1, <3>1, WireTypes
  <2> QED
      BY <1>1, <1>2, <2>1, <2>2, AimedOn
<1>8. Awaited'
  <2>1. InHand(f, pc', leave')
      BY <1>2, <1>3, <1>5 DEF InHand
  <2> QED
      BY <1>1, <1>2, <1>4, <1>6, <2>1, AwaitedOn
<1>9. Cleared'
    BY <1>1, <1>2 DEF Cleared
<1>10. Parting'
  <2>1. \A d \in Conn : leave'[d] # "no" => line'[d] = "ended"
      BY <1>1, <1>2 DEF Parting, Admitted
  <2>2. ASSUME NEW d \in Conn, room'[d] # None, d \in peers'[room'[d]]
        PROVE  leave'[d] = "no"
    <3>1. CASE d = c
        BY <1>2, <3>1
    <3>2. CASE d # c
      <4>1. room'[d] = room[d] /\ room[d] \in Conn
          BY <1>1, <1>2, <2>2, <3>2, WireTypes
      <4>2. d \in peers[room[d]]
        <5>1. d \in peers'[room[d]]
            BY <2>2, <4>1
        <5>2. peers'[room[d]] \subseteq peers[room[d]] \cup {c}
            BY <4>1 DEF Admitted
        <5> QED
            BY <3>2, <5>1, <5>2
      <4> QED
          BY <1>1, <1>2, <2>2, <4>1, <4>2 DEF Parting, InRoom
    <3> QED
        BY <3>1, <3>2
  <2>3. \A d \in Conn : KindOf[d] = "ws" => line'[d] # "opening"
      BY <1>1 DEF Parting, Admitted
  <2> QED
      BY <2>1, <2>2, <2>3 DEF Parting, InRoom
<1> QED
    BY <1>7, <1>8, <1>9, <1>10 DEF Wire

-----------------------------------------------------------------------------
(* What the readers are shown, step by step *)

\* p meets s still if nothing is written to it, or a frame that has s if it is
\* a roster.
LEMMA MeetsOn ==
    ASSUME TypeOK, NEW p \in Conn, NEW s \in Conn, NEW f \in Frame, Meets(p, s),
           told'[p] = told[p], id'[s] = id[s],
           writes'[p] = writes[p] \/ writes'[p] = Append(writes[p], f),
           writes'[p] = Append(writes[p], f) /\ f.t \in Rosters => id[s] \in f.list
    PROVE  Meets(p, s)'
<1> DEFINE w == writes[p]
           v == writes'[p]
           x == id[s]
           t == told[p]
<1>1. w \in Seq(Frame)
    BY WireTypes
<1>2. PICK j \in 0..Len(w) : /\ Carries(w, t, x, j, Len(w))
                             /\ KindOf[p] = "ws" /\ j > 0 =>
                                    w[j].t = "welcome" \/ w[j].by = <<s, "serve">>
    BY DEF Meets
<1>3. CASE v = w
  <2>1. Carries(v, told'[p], id'[s], j, Len(v))
      BY <1>2, <1>3
  <2> QED
      BY <1>2, <1>3, <2>1 DEF Meets
<1>4. CASE v = Append(w, f)
  <2>1. /\ Len(v) = Len(w) + 1 /\ Len(w) \in Nat
        /\ \A k \in 1..Len(w) : v[k] = w[k]
      BY <1>1, <1>4, Appended
  <2>2. f.t \in Rosters => x \in f.list
      BY <1>4
  <2> HIDE DEF w, x, t
  <2>3. Carries(Append(w, f), t, x, j, Len(w) + 1)
      BY <1>1, <1>2, <2>2, CarriedThrough
  <2>4. Carries(v, told'[p], id'[s], j, Len(v))
      BY <1>4, <2>1, <2>3 DEF t, x
  <2>5. KindOf[p] = "ws" /\ j > 0 => v[j].t = "welcome" \/ v[j].by = <<s, "serve">>
      BY <1>2, <2>1
  <2>6. j \in 0..Len(v)
      BY <1>2, <2>1
  <2> QED
      BY <2>4, <2>5, <2>6 DEF Meets
<1> QED
    BY <1>3, <1>4

\* p meets s by a roster that has it: a welcome, or one that s waits for.
LEMMA MeetsAfresh ==
    ASSUME TypeOK, NEW p \in Conn, NEW s \in Conn, NEW f \in Frame,
           writes'[p] = Append(writes[p], f), f.t \in Rosters, id'[s] \in f.list,
           f.t = "welcome" \/ f.by = <<s, "serve">>
    PROVE  Meets(p, s)'
<1> DEFINE w == writes[p]
           v == writes'[p]
           j == Len(w) + 1
<1>1. w \in Seq(Frame)
    BY WireTypes
<1>2. Len(v) = j /\ j \in 0..Len(v) /\ v[j] = f /\ v = Append(w, f)
    BY <1>1, Appended
<1> HIDE DEF w
<1>3. Carries(v, told'[p], id'[s], j, Len(v))
    BY <1>1, <1>2, CarriedAfresh
<1> HIDE DEF j
<1>4. /\ Carries(v, told'[p], id'[s], j, Len(v))
      /\ KindOf[p] = "ws" /\ j > 0 => v[j].t = "welcome" \/ v[j].by = <<s, "serve">>
    BY <1>2, <1>3
<1> QED
    BY <1>2, <1>4 DEF Meets

\* A frame is vouched for still when another is written after it.
LEMMA VouchesOn ==
    ASSUME TypeOK, NEW p \in Conn, NEW f \in Frame, NEW i \in 1..Len(writes[p]), Vouches(p, i),
           told'[p] = told[p], writes'[p] = writes[p] \/ writes'[p] = Append(writes[p], f)
    PROVE  Vouches(p, i)'
<1> DEFINE w == writes[p]
           v == writes'[p]
           x == w[i].from
           t == told[p]
<1>1. w \in Seq(Frame) /\ Len(w) \in Nat
    BY WireTypes
<1>2. PICK j \in 0..(i - 1) : /\ Carries(w, t, x, j, i - 1)
                              /\ KindOf[p] = "ws" /\ j > 0 => w[j].t = "welcome"
    BY DEF Vouches
<1>3. CASE v = w
  <2>1. Carries(v, told'[p], v[i].from, j, i - 1) /\ (KindOf[p] = "ws" /\ j > 0 => v[j].t = "welcome")
      BY <1>2, <1>3
  <2> QED
      BY <2>1 DEF Vouches
<1>4. CASE v = Append(w, f)
  <2>1. v[i] = w[i] /\ (j > 0 => v[j] = w[j]) /\ i - 1 \in 0..Len(w)
      BY <1>1, <1>4, Appended
  <2> HIDE DEF w, x, t
  <2>2. Carries(Append(w, f), t, x, j, i - 1)
      BY <1>1, <1>2, <2>1, CarriedOn
  <2>3. Carries(v, told'[p], v[i].from, j, i - 1)
      BY <1>4, <2>1, <2>2 DEF t, x
  <2>4. KindOf[p] = "ws" /\ j > 0 => v[j].t = "welcome"
      BY <1>2, <2>1
  <2> QED
      BY <2>3, <2>4 DEF Vouches
<1> QED
    BY <1>3, <1>4

\* Whom the step leaves in the room of p is known there as before.
SameCompany(p) ==
    /\ room[p] # None => room'[p] = room[p]
    /\ \A s \in Conn : room[s] # None /\ InRoom(s)' => InRoom(s) /\ room'[s] = room[s]

\* A reader that nothing is shown, and who is told of nobody new.
LEMMA Unmoved ==
    ASSUME TypeInv, Wire, NEW p \in Conn, Briefed(p),
           writes'[p] = writes[p], told'[p] = told[p], held'[p] = held[p],
           room[p] # None, room'[p] = room[p], Heard(p)' => Heard(p), SameCompany(p),
           \A s \in Conn : room'[s] = room[p] /\ InRoom(s)' /\ InRoom(p)' =>
               /\ id'[s] = id[s]
               /\ Announced(s, p, pc', bad') => room[s] # None /\ Announced(s, p, pc, bad),
           InRoom(p)' /\ Doomed(p, pc, bad) => Doomed(p, pc', bad'),
           \A q \in Conn : room[q] = room[p] /\ leave[q] \in {"no", "due"} =>
               room'[q] = room[q] /\ id'[q] = id[q] /\ leave'[q] \in {"no", "due"},
           seq'[room[p]] = seq[room[p]], author'[room[p]] = author[room[p]]
    PROVE  Briefed(p)'
<1>1. TypeOK /\ Aimed
    BY DEF TypeInv, Wire
<1> SUFFICES ASSUME Heard(p)'
             PROVE  /\ Acquainted(p)' /\ Signed(p)'
                    /\ InRoom(p)' /\ ~Doomed(p, pc', bad')
                         => NoStrangers(p)' /\ (author'[room'[p]] # p => NewestComes(p)')
    BY DEF Briefed
<1>2. InRoom(p)' => InRoom(p)
    BY DEF SameCompany
<1>3. Acquainted(p)'
  <2> SUFFICES ASSUME NEW s \in Conn, InRoom(p)', InRoom(s)', room'[p] = room'[s],
                      Announced(s, p, pc', bad')
               PROVE  Meets(p, s)'
      BY DEF Acquainted
  <2>1. InRoom(s) /\ room[s] = room[p] /\ id'[s] = id[s] /\ Announced(s, p, pc, bad)
      BY DEF SameCompany
  <2>2. Meets(p, s)
      BY <1>2, <2>1 DEF Briefed, Acquainted
  <2> QED
      BY <2>1, <2>2 DEF Meets
<1>4. Signed(p)'
  <2> SUFFICES ASSUME NEW i \in 1..Len(writes[p]), writes[p][i].from # None,
                      InRoom(writes[p][i].by[1])'
               PROVE  Vouches(p, i)'
      BY DEF Signed
  <2>1. writes[p][i].by[1] \in Conn /\ room[writes[p][i].by[1]] # None
    <3>0. writes[p] \in Seq(Frame)
        BY <1>1, WireTypes
    <3>1. writes[p][i] \in Frame
        BY <3>0
    <3>2. writes[p][i].by[1] \in Conn
        BY <3>1, ByTask
    <3>3. room[p] # None /\ room[writes[p][i].by[1]] = room[p]
        BY <1>1 DEF Aimed
    <3> QED
        BY <3>2, <3>3
  <2>2. InRoom(writes[p][i].by[1])
      BY <2>1 DEF SameCompany
  <2>3. Vouches(p, i)
      BY <2>2 DEF Briefed, Signed
  <2> QED
      BY <2>3 DEF Vouches
<1>5. ASSUME InRoom(p)', ~Doomed(p, pc', bad')
      PROVE  NoStrangers(p)' /\ (author'[room'[p]] # p => NewestComes(p)')
  <2>1. NoStrangers(p) /\ (author[room[p]] # p => NewestComes(p))
      BY <1>2, <1>5 DEF Briefed
  <2>2. \A x : Present(p, x) => Present(p, x)'
      BY DEF Present
  <2>3. NoStrangers(p)'
      BY <2>1, <2>2 DEF NoStrangers
  <2>4. author'[room'[p]] # p => NewestComes(p)'
      BY <2>1 DEF NewestComes
  <2> QED
      BY <2>3, <2>4
<1> QED
    BY <1>3, <1>4, <1>5

\* Where rooms only lose peers, everybody's company is the same.
LEMMA DwindlingCompany ==
    ASSUME TypeOK, Dwindles, UNCHANGED room, NEW p \in Conn
    PROVE  SameCompany(p) /\ (Heard(p)' => Heard(p))
<1>1. \A s \in Conn : InRoom(s)' => InRoom(s)
    BY WireTypes DEF InRoom, Dwindles
<1> QED
    BY <1>1 DEF SameCompany, Heard, Dwindles

\* Somebody without a room has nothing to be told.
LEMMA NobodysReader ==
    ASSUME TypeInv, NEW p \in Conn, room[p] = None
    PROVE  ~Heard(p) /\ line[p] = "down"
BY DEF TypeInv, Placed, Heard

\* A step that writes nothing and reads nothing.
LEMMA TidingsUnmoved ==
    ASSUME TypeInv, Wire, Tidings, Dwindles, UNCHANGED <<writes, told, held, id, room, seq, author>>,
           \A s \in Conn, p \in Conn : InRoom(s) /\ room[s] = room[p] /\ InRoom(p)' =>
               (Announced(s, p, pc', bad') => Announced(s, p, pc, bad)),
           \A p \in Conn : InRoom(p)' /\ Doomed(p, pc, bad) => Doomed(p, pc', bad'),
           \A q \in Conn : leave[q] \in {"no", "due"} => leave'[q] \in {"no", "due"}
    PROVE  Tidings'
<1> SUFFICES ASSUME NEW p \in Conn  PROVE Briefed(p)'
    BY DEF Tidings
<1>1. TypeOK /\ Briefed(p)
    BY DEF TypeInv, Tidings
<1>2. SameCompany(p) /\ (Heard(p)' => Heard(p))
    BY <1>1, DwindlingCompany
<1>3. CASE room[p] = None
    BY <1>2, <1>3, NobodysReader DEF Briefed
<1>4. CASE room[p] # None
  <2>1. \A s \in Conn : room'[s] = room[p] /\ InRoom(s)' /\ InRoom(p)' =>
            /\ id'[s] = id[s]
            /\ Announced(s, p, pc', bad') => room[s] # None /\ Announced(s, p, pc, bad)
      BY <1>2, <1>4 DEF SameCompany
  <2> QED
      BY <1>1, <1>2, <1>4, <2>1, Unmoved
<1> QED
    BY <1>3, <1>4

\* Nothing said, nothing missed.
LEMMA TidingsMuted ==
    ASSUME TypeInv, Wire, Tidings, Muted
    PROVE  Tidings'
<1>1. TypeOK /\ Aimed
    BY DEF TypeInv, Wire
<1>2. /\ Dwindles /\ UNCHANGED <<writes, told, held, id, room, seq, author>>
      /\ bad' = bad /\ leave' = leave
      /\ \A d \in Conn : room[d] # None => pc'[d] = pc[d]
    BY DEF Muted
<1>3. \A s \in Conn, p \in Conn : InRoom(s) /\ room[s] = room[p] /\ InRoom(p)' =>
          (Announced(s, p, pc', bad') => Announced(s, p, pc, bad))
    BY <1>2 DEF Announced, InRoom
<1>4. \A p \in Conn : InRoom(p)' /\ Doomed(p, pc, bad) => Doomed(p, pc', bad')
  <2>1. \A s \in Conn : \A p \in bad[<<s, "serve">>] : room[s] # None
      BY <1>1 DEF Aimed
  <2> QED
      BY <1>2, <2>1 DEF Doomed
<1> QED
    BY <1>2, <1>3, <1>4, TidingsUnmoved

\* When a fan-out is over, whoever missed it is out of the room.
LEMMA TidingsSettles ==
    ASSUME TypeInv, Wire, Tidings, NEW c \in Conn, NEW x \in {"serve", "leave"}, Settles(c, x)
    PROVE  Tidings'
<1> DEFINE k == <<c, x>>
<1>1. TypeOK /\ Aimed
    BY DEF TypeInv, Wire
<1>2. /\ Dwindles /\ UNCHANGED <<writes, told, held, id, room, seq, author>>
      /\ room[c] # None /\ bad' = [bad EXCEPT ![k] = {}]
      /\ \/ /\ x = "serve" /\ leave' = leave /\ pc' = [pc EXCEPT ![c] = "read"]
            /\ \/ pc[c] = "answer"
               \/ pc[c] \in {"fanout", "forward"} /\ bad[k] \cap peers'[room[c]] = {}
         \/ /\ x = "leave" /\ pc' = pc /\ leave[c] = "fanout"
            /\ leave' = [leave EXCEPT ![c] = "done"] /\ bad[k] \cap peers'[room[c]] = {}
    BY DEF Settles
<1>3. k \in Task /\ bad'[k] = {} /\ \A j \in Task \ {k} : bad'[j] = bad[j]
  <2>1. k \in Task
      BY TaskIs
  <2>2. bad \in [Task -> SUBSET Conn]
      BY <1>1, WireTypes
  <2> HIDE DEF k
  <2> QED
      BY <1>2, <2>1, <2>2
<1>4. /\ \A d \in Conn : pc'[d] = pc[d] \/ (d = c /\ x = "serve" /\ pc[c] \in {"answer", "fanout", "forward"})
      /\ \A d \in Conn : leave'[d] = leave[d] \/ (d = c /\ leave[c] = "fanout")
  <2>1. pc \in [Conn -> Places] /\ leave \in [Conn -> {"no", "due", "fanout", "done"}]
      BY <1>1, WireTypes
  <2> QED
      BY <1>2, <2>1
<1>5. \A s \in Conn : <<s, "serve">> # k => bad'[<<s, "serve">>] = bad[<<s, "serve">>]
    BY <1>3, TasksAre
<1>6. \A s \in Conn : <<s, "leave">> # k => bad'[<<s, "leave">>] = bad[<<s, "leave">>]
    BY <1>3, TasksAre
<1>7. \A p \in bad[k] : room[p] = room[c]
    BY <1>1 DEF Aimed
<1>8. \A s \in Conn, y \in {"serve", "leave"} : <<s, y>> = k => s = c /\ x = y
    OBVIOUS
<1>9. \A p \in Conn : InRoom(p)' /\ p \in bad[k] => x = "serve" /\ pc[c] = "answer"
  <2> SUFFICES ASSUME NEW p \in Conn, InRoom(p)', p \in bad[k], ~(x = "serve" /\ pc[c] = "answer")
               PROVE  FALSE
      OBVIOUS
  <2>1. bad[k] \cap peers'[room[c]] = {}
      BY <1>2
  <2>2. p \in peers'[room[c]]
      BY <1>2, <1>7 DEF InRoom
  <2> QED
      BY <2>1, <2>2
<1> HIDE DEF k
<1>10. \A s \in Conn, p \in Conn : InRoom(s) /\ room[s] = room[p] /\ InRoom(p)' =>
          (Announced(s, p, pc', bad') => Announced(s, p, pc, bad))
  <2> SUFFICES ASSUME NEW s \in Conn, NEW p \in Conn, InRoom(p)', Announced(s, p, pc', bad')
               PROVE  Announced(s, p, pc, bad)
      OBVIOUS
  <2>1. CASE <<s, "serve">> = k
    <3>1. s = c /\ x = "serve"
        BY <1>8, <2>1
    <3>2. pc[s] # "welcome"
        BY <1>2, <3>1
    <3>3. ~(pc[s] = "fanout" /\ p \in bad[<<s, "serve">>])
        BY <1>9, <2>1, <3>1
    <3> QED
        BY <3>2, <3>3 DEF Announced
  <2>2. CASE <<s, "serve">> # k
    <3>1. pc'[s] = pc[s]
        BY <1>4, <2>2 DEF k
    <3> QED
        BY <1>5, <2>2, <3>1 DEF Announced
  <2> QED
      BY <2>1, <2>2
<1>11. \A p \in Conn : InRoom(p)' /\ Doomed(p, pc, bad) => Doomed(p, pc', bad')
  <2> SUFFICES ASSUME NEW p \in Conn, InRoom(p)', NEW s \in Conn,
                      \/ p \in bad[<<s, "serve">>] /\ pc[s] \in {"fanout", "forward"}
                      \/ p \in bad[<<s, "leave">>]
               PROVE  Doomed(p, pc', bad')
      BY DEF Doomed
  <2>1. CASE p \in bad[<<s, "serve">>] /\ pc[s] \in {"fanout", "forward"}
    <3>1. <<s, "serve">> # k
        BY <1>8, <1>9, <2>1
    <3>2. pc'[s] = pc[s]
        BY <1>4, <3>1 DEF k
    <3> QED
        BY <1>5, <2>1, <3>1, <3>2 DEF Doomed
  <2>2. CASE p \in bad[<<s, "leave">>]
    <3>1. <<s, "leave">> # k
        BY <1>8, <1>9, <2>2
    <3> QED
        BY <1>6, <2>2, <3>1 DEF Doomed
  <2> QED
      BY <2>1, <2>2
<1>12. \A q \in Conn : leave[q] \in {"no", "due"} => leave'[q] \in {"no", "due"}
    BY <1>4
<1> QED
    BY <1>2, <1>10, <1>11, <1>12, TidingsUnmoved

\* What was said of a frame of a queue still is when a frame follows it.
LEMMA SignedOn ==
    ASSUME TypeInv, Wire, NEW p \in Conn, NEW f \in Frame, Signed(p), SameCompany(p),
           told'[p] = told[p], writes'[p] = writes[p] \/ writes'[p] = Append(writes[p], f),
           \A i : /\ writes'[p] = Append(writes[p], f) /\ i = Len(writes[p]) + 1
                  /\ f.from # None /\ InRoom(f.by[1])'
                  => Vouches(p, i)'
    PROVE  Signed(p)'
<1>1. TypeOK /\ Aimed
    BY DEF TypeInv, Wire
<1>2. writes[p] \in Seq(Frame) /\ Len(writes[p]) \in Nat
    BY <1>1, WireTypes
<1>3. ASSUME NEW i \in 1..Len(writes[p]), writes'[p][i] = writes[p][i],
             writes[p][i].from # None, InRoom(writes[p][i].by[1])'
      PROVE  Vouches(p, i)'
  <2>1. writes[p][i].by[1] \in Conn /\ room[writes[p][i].by[1]] # None
    <3>0. writes[p] \in Seq(Frame)
        BY <1>1, WireTypes
    <3>1. writes[p][i] \in Frame
        BY <3>0
    <3>2. writes[p][i].by[1] \in Conn
        BY <3>1, ByTask
    <3>3. room[p] # None /\ room[writes[p][i].by[1]] = room[p]
        BY <1>1 DEF Aimed
    <3> QED
        BY <3>2, <3>3
  <2>2. InRoom(writes[p][i].by[1])
      BY <1>3, <2>1 DEF SameCompany
  <2>3. Vouches(p, i)
      BY <1>3, <2>2 DEF Signed
  <2> QED
      BY <1>1, <2>3, VouchesOn
<1>4. CASE writes'[p] = writes[p]
    BY <1>3, <1>4 DEF Signed
<1>5. CASE writes'[p] = Append(writes[p], f)
  <2>1. /\ Len(writes'[p]) = Len(writes[p]) + 1 /\ writes'[p][Len(writes[p]) + 1] = f
        /\ \A i \in 1..Len(writes[p]) : writes'[p][i] = writes[p][i]
      BY <1>2, <1>5, Appended
  <2> SUFFICES ASSUME NEW i \in 1..Len(writes'[p]), writes'[p][i].from # None,
                      InRoom(writes[p][i].by[1])'
               PROVE  Vouches(p, i)'
      BY DEF Signed
  <2>2. CASE i \in 1..Len(writes[p])
      BY <1>3, <2>1, <2>2
  <2>3. CASE i = Len(writes[p]) + 1
    <3>1. InRoom(f.by[1])'
        BY <2>1, <2>3 DEF InRoom
    <3> QED
        BY <1>5, <2>1, <2>3, <3>1
  <2> QED
      BY <1>2, <2>1, <2>2, <2>3
<1> QED
    BY <1>4, <1>5

\* The last of a kind is the same one when nothing of the kind is written.
LEMMA LastOn ==
    ASSUME TypeOK, NEW p \in Conn, NEW f \in Frame, NEW K, NEW j \in 0..Len(writes'[p]),
           LastIs(writes'[p], K, j),
           writes'[p] = writes[p] \/ (writes'[p] = Append(writes[p], f) /\ f.t \notin K)
    PROVE  /\ j \in 0..Len(writes[p]) /\ LastIs(writes[p], K, j)
           /\ j > 0 => writes'[p][j] = writes[p][j]
<1>1. writes[p] \in Seq(Frame) /\ Len(writes[p]) \in Nat
    BY WireTypes
<1>2. CASE writes'[p] = writes[p]
    BY <1>2
<1>3. CASE writes'[p] = Append(writes[p], f) /\ f.t \notin K
  <2>1. j \in 0..(Len(writes[p]) + 1) /\ LastIs(Append(writes[p], f), K, j)
      BY <1>1, <1>3, Appended
  <2> QED
      BY <1>1, <1>3, <2>1, LastAppended
<1> QED
    BY <1>2, <1>3

\* The last of a kind is the one that is written now.
LEMMA LastAfresh ==
    ASSUME TypeOK, NEW p \in Conn, NEW f \in Frame, NEW K, NEW j \in 0..Len(writes'[p]),
           LastIs(writes'[p], K, j), writes'[p] = Append(writes[p], f), f.t \in K
    PROVE  j > 0 /\ writes'[p][j] = f
<1>1. writes[p] \in Seq(Frame) /\ Len(writes[p]) \in Nat
    BY WireTypes
<1>2. j \in 0..(Len(writes[p]) + 1) /\ LastIs(Append(writes[p], f), K, j)
    BY <1>1, Appended
<1>3. j = Len(writes[p]) + 1
    BY <1>1, <1>2, LastAppended
<1> QED
    BY <1>1, <1>3, Appended

\* A frame appended keeps strangers out of the last roster.
LEMMA StrangersOn ==
    ASSUME TypeOK, NEW p \in Conn, NEW f \in Frame, NoStrangers(p), told'[p] = told[p],
           writes'[p] = writes[p] \/ (writes'[p] = Append(writes[p], f) /\ f.t \notin Rosters),
           \A x : Present(p, x) => Present(p, x)'
    PROVE  NoStrangers(p)'
<1> SUFFICES ASSUME NEW j \in 0..Len(writes'[p]), LastIs(writes'[p], Rosters, j),
                    NEW x \in Shown(writes'[p], told'[p], j)
             PROVE  Present(p, x)'
    BY DEF NoStrangers
<1>1. /\ j \in 0..Len(writes[p]) /\ LastIs(writes[p], Rosters, j)
      /\ j > 0 => writes'[p][j] = writes[p][j]
    BY LastOn
<1>2. x \in Shown(writes[p], told[p], j)
    BY <1>1 DEF Shown
<1> QED
    BY <1>1, <1>2 DEF NoStrangers

\* So does a first frame that is a roster.
LEMMA StrangersAfresh ==
    ASSUME TypeOK, NEW p \in Conn, NEW f \in Frame, f.t \in Rosters,
           writes'[p] = Append(writes[p], f), \A x \in f.list : Present(p, x)'
    PROVE  NoStrangers(p)'
<1> SUFFICES ASSUME NEW j \in 0..Len(writes'[p]), LastIs(writes'[p], Rosters, j),
                    NEW x \in Shown(writes'[p], told'[p], j)
             PROVE  Present(p, x)'
    BY DEF NoStrangers
<1>1. j > 0 /\ writes'[p][j] = f
    BY LastAfresh
<1> QED
    BY <1>1 DEF Shown

\* A frame appended keeps the newest clip the last.
LEMMA NewestOn ==
    ASSUME TypeOK, NEW p \in Conn, NEW f \in Frame, NewestComes(p), held'[p] = held[p],
           writes'[p] = writes[p] \/ (writes'[p] = Append(writes[p], f) /\ f.t \notin Clips),
           room'[p] = room[p], seq'[room[p]] = seq[room[p]]
    PROVE  NewestComes(p)'
<1> SUFFICES ASSUME NEW j \in 0..Len(writes'[p]), LastIs(writes'[p], Clips, j)
             PROVE  Given(writes'[p], held'[p], j) = seq'[room'[p]]
    BY DEF NewestComes
<1>1. /\ j \in 0..Len(writes[p]) /\ LastIs(writes[p], Clips, j)
      /\ j > 0 => writes'[p][j] = writes[p][j]
    BY LastOn
<1>2. Given(writes'[p], held'[p], j) = Given(writes[p], held[p], j)
    BY <1>1 DEF Given
<1> QED
    BY <1>1, <1>2 DEF NewestComes

\* So does a first frame that carries it.
LEMMA NewestAfresh ==
    ASSUME TypeOK, NEW p \in Conn, NEW f \in Frame, f.t \in Clips,
           writes'[p] = Append(writes[p], f), f.n = seq'[room'[p]]
    PROVE  NewestComes(p)'
<1> SUFFICES ASSUME NEW j \in 0..Len(writes'[p]), LastIs(writes'[p], Clips, j)
             PROVE  Given(writes'[p], held'[p], j) = seq'[room'[p]]
    BY DEF NewestComes
<1>1. j > 0 /\ writes'[p][j] = f
    BY LastAfresh
<1> QED
    BY <1>1 DEF Given

\* A frame that is no roster: a clip is the newest, a stamp is of a peer already met.
LEMMA TidingsUtters ==
    ASSUME TypeInv, TypeInv', Bookkeeping, Wire, Tidings, NEW c \in Conn, NEW T, NEW f,
           Utters(c, T, f)
    PROVE  Tidings'
<1> DEFINE k == <<c, "serve">>
<1>1. TypeOK /\ Aimed /\ TypeOK'
    BY DEF TypeInv, Wire
<1>2. /\ Dwindles /\ UNCHANGED <<peers, told, id, room, leave>>
      /\ pc[c] = "read" /\ room[c] # None /\ Settled(k) /\ bad[k] = {} /\ FanOut(k, T, f)
      /\ f \in Frame /\ f.by = k /\ f.t \in {"clip", "wide", "direct", "reply"}
      /\ f.from = None \/ (f.from = id[c] /\ f.t \in {"wide", "direct"})
      /\ T \subseteq peers[room[c]] \/ (T = {c} /\ f.t = "reply")
      /\ \A d \in Conn \ {c} : pc'[d] = pc[d]
      /\ T # {} => InHand(f, pc', leave')
    BY DEF Utters
<1>3. IF f.t = "clip"
      THEN /\ f.n = seq[room[c]] + 1 /\ T = peers[room[c]] \ {c}
           /\ seq' = [seq EXCEPT ![room[c]] = @ + 1]
           /\ author' = [author EXCEPT ![room[c]] = c]
           /\ \A d \in Conn \ {c} : held'[d] = held[d]
      ELSE UNCHANGED <<seq, author, held>>
    BY DEF Utters
<1>4. k \in Task /\ k[1] = c /\ k[2] = "serve" /\ room[c] \in Conn
  <2>1. k \in Task /\ k[1] = c /\ k[2] = "serve"
      BY DEF Task
  <2> QED
      BY <1>1, <1>2, <2>1, WireTypes
<1>5. /\ \A p \in Conn :
            \/ p \in T /\ p \notin bad'[k] /\ writes'[p] = Append(writes[p], f)
            \/ p \in T /\ p \in bad'[k] /\ KindOf[p] = "sse" /\ writes'[p] = writes[p]
            \/ p \notin T /\ writes'[p] = writes[p]
      /\ \A p \in bad'[k] : p \in T
      /\ \A j \in Task \ {k} : bad'[j] = bad[j]
    BY <1>1, <1>2, <1>4, FansOut
<1>6. /\ \A s \in Conn \ {c} : bad'[<<s, "serve">>] = bad[<<s, "serve">>]
      /\ \A s \in Conn : bad'[<<s, "leave">>] = bad[<<s, "leave">>]
    BY <1>5, TasksAre
<1> SUFFICES ASSUME NEW p \in Conn, Heard(p)'
             PROVE  /\ Acquainted(p)' /\ Signed(p)'
                    /\ InRoom(p)' /\ ~Doomed(p, pc', bad')
                         => NoStrangers(p)' /\ (author'[room'[p]] # p => NewestComes(p)')
    BY DEF Tidings, Briefed
<1>7. /\ SameCompany(p) /\ Heard(p) /\ Briefed(p) /\ told'[p] = told[p] /\ room[p] # None
      /\ room[p] \in Conn
  <2>1. SameCompany(p) /\ Heard(p) /\ Briefed(p)
      BY <1>1, <1>2, DwindlingCompany DEF Tidings
  <2>2. room[p] # None
      BY <2>1, NobodysReader
  <2> QED
      BY <1>1, <1>2, <2>1, <2>2, WireTypes
<1>8. writes'[p] = writes[p] \/ (writes'[p] = Append(writes[p], f) /\ p \in T)
    BY <1>5
<1> HIDE DEF k
<1>9. InRoom(p)' => InRoom(p) /\ \A s \in Conn : InRoom(s)' => InRoom(s)
    BY <1>2 DEF InRoom
<1>10. Acquainted(p)'
  <2> SUFFICES ASSUME NEW s \in Conn, InRoom(p)', InRoom(s)', room'[p] = room'[s],
                      Announced(s, p, pc', bad')
               PROVE  Meets(p, s)'
      BY DEF Acquainted
  <2>1. Announced(s, p, pc, bad)
      BY <1>2, <1>6 DEF Announced
  <2>2. Meets(p, s)
      BY <1>2, <1>7, <1>9, <2>1 DEF Briefed, Acquainted
  <2>3. f.t \notin Rosters
      BY <1>2 DEF Rosters
  <2>4. id'[s] = id[s]
      BY <1>2
  <2> QED
      BY <1>1, <1>2, <1>7, <1>8, <2>2, <2>3, <2>4, MeetsOn
<1>11. Signed(p)'
  <2>1. ASSUME NEW i, writes'[p] = Append(writes[p], f), i = Len(writes[p]) + 1, f.from # None,
               InRoom(f.by[1])'
        PROVE  Vouches(p, i)'
    <3>1. f.from = id[c] /\ f.t # "reply" /\ InRoom(c) /\ f.by[1] = c
        BY <1>2, <1>4, <2>1 DEF InRoom
    <3>2. writes[p] \in Seq(Frame) /\ Len(writes[p]) \in Nat
        BY <1>1, WireTypes
    <3>3. p \in T
      <4>1. Append(writes[p], f) # writes[p]
          BY <1>2, <3>2
      <4> QED
          BY <1>8, <2>1, <4>1
    <3>4. p \in peers[room[c]] /\ room[p] = room[c] /\ InRoom(p)
      <4>1. T \subseteq peers[room[c]]
          BY <1>2, <3>1
      <4> QED
          BY <1>1, <1>4, <3>3, <4>1, PeersHere
    <3>5. Meets(p, c)
        BY <1>2, <1>7, <3>1, <3>4 DEF Briefed, Acquainted, Announced
    <3>6. PICK j \in 0..Len(writes[p]) :
              /\ Carries(writes[p], told[p], id[c], j, Len(writes[p]))
              /\ KindOf[p] = "ws" /\ j > 0 =>
                     writes[p][j].t = "welcome" \/ writes[p][j].by = <<c, "serve">>
        BY <3>5 DEF Meets
    <3>7. KindOf[p] = "ws" /\ j > 0 => writes[p][j].t = "welcome"
      <4> SUFFICES ASSUME KindOf[p] = "ws", j > 0  PROVE writes[p][j].by # k
          BY <3>6 DEF k
      <4>1. j \in DOMAIN writes[p]
          BY <3>2, <3>6
      <4> QED
          BY <1>2, <4>1 DEF Settled
    <3>8. /\ writes'[p][i].from = id[c] /\ (j > 0 => writes'[p][j] = writes[p][j])
          /\ j \in 0..(i - 1) /\ i - 1 = Len(writes[p])
        BY <1>2, <2>1, <3>1, <3>2, <3>6, Appended
    <3>9. Carries(writes'[p], told'[p], writes'[p][i].from, j, i - 1)
      <4>1. Carries(Append(writes[p], f), told[p], id[c], j, Len(writes[p]))
          BY <1>2, <3>2, <3>6, CarriedOn
      <4> QED
          BY <1>7, <2>1, <3>8, <4>1
    <3>10. /\ j \in 0..(i - 1) /\ Carries(writes'[p], told'[p], writes'[p][i].from, j, i - 1)
           /\ KindOf[p] = "ws" /\ j > 0 => writes'[p][j].t = "welcome"
        BY <3>7, <3>8, <3>9
    <3> QED
        BY <3>10 DEF Vouches
  <2>2. Signed(p)
      BY <1>7 DEF Briefed
  <2> QED
      BY <1>2, <1>7, <1>8, <2>1, <2>2, SignedOn
<1>12. ASSUME InRoom(p)', ~Doomed(p, pc', bad')
       PROVE  NoStrangers(p)' /\ (author'[room'[p]] # p => NewestComes(p)')
  <2>1. ~Doomed(p, pc, bad)
    <3> SUFFICES ASSUME NEW s \in Conn,
                        \/ p \in bad[<<s, "serve">>] /\ pc[s] \in {"fanout", "forward"}
                        \/ p \in bad[<<s, "leave">>]
                 PROVE  FALSE
        BY DEF Doomed
    <3>1. CASE p \in bad[<<s, "leave">>]
        BY <1>6, <1>12, <3>1 DEF Doomed
    <3>2. CASE p \in bad[<<s, "serve">>] /\ pc[s] \in {"fanout", "forward"}
        BY <1>2, <1>6, <1>12, <3>2 DEF Doomed
    <3> QED
        BY <3>1, <3>2
  <2>2. NoStrangers(p) /\ (author[room[p]] # p => NewestComes(p))
      BY <1>7, <1>9, <1>12, <2>1 DEF Briefed
  <2>3. NoStrangers(p)'
    <3>1. \A x : Present(p, x) => Present(p, x)'
        BY <1>2 DEF Present
    <3>2. f.t \notin Rosters
        BY <1>2 DEF Rosters
    <3> QED
        BY <1>1, <1>2, <1>7, <1>8, <2>2, <3>1, <3>2, StrangersOn
  <2>4. ASSUME author'[room'[p]] # p
        PROVE  NewestComes(p)'
    <3>0. seq \in [Conn -> Nat] /\ author \in [Conn -> Conn \cup {None}]
        BY <1>1, WireTypes
    <3>1. CASE f.t # "clip"
      <4>1. f.t \notin Clips /\ UNCHANGED <<seq, author, held>> /\ room'[p] = room[p]
          BY <1>2, <1>3, <3>1 DEF Clips
      <4> QED
          BY <1>1, <1>2, <1>8, <2>2, <2>4, <4>1, NewestOn
    <3>2. CASE f.t = "clip" /\ room[p] = room[c]
      <4>1. p # c
          BY <1>2, <1>3, <1>4, <2>4, <3>0, <3>2
      <4>2. p \in T
          BY <1>2, <1>3, <1>9, <1>12, <3>2, <4>1 DEF InRoom
      <4>3. pc'[c] = "fanout"
          BY <1>2, <1>4, <3>2, <4>2 DEF InHand
      <4>4. p \notin bad'[k]
          BY <1>12, <4>3 DEF Doomed, k
      <4>5. writes'[p] = Append(writes[p], f)
          BY <1>5, <4>2, <4>4 DEF k
      <4>6. f.n = seq'[room'[p]] /\ f.t \in Clips
          BY <1>2, <1>3, <1>4, <3>0, <3>2 DEF Clips
      <4> QED
          BY <1>1, <1>2, <4>5, <4>6, NewestAfresh
    <3>3. CASE f.t = "clip" /\ room[p] # room[c]
      <4>1. p # c
          BY <3>3
      <4>2. p \notin T
          BY <1>1, <1>3, <1>4, <3>3, PeersHere
      <4>3. writes'[p] = writes[p] /\ held'[p] = held[p]
          BY <1>3, <1>5, <3>3, <4>1, <4>2
      <4>4. seq'[room[p]] = seq[room[p]] /\ author'[room[p]] = author[room[p]] /\ room'[p] = room[p]
          BY <1>2, <1>3, <1>4, <1>7, <3>0, <3>3
      <4> QED
          BY <1>1, <1>2, <2>2, <2>4, <4>3, <4>4, NewestOn
    <3> QED
        BY <3>1, <3>2, <3>3
  <2> QED
      BY <2>3, <2>4
<1> QED
    BY <1>10, <1>11, <1>12

\* A roster meets everybody it reaches with everybody in it.
LEMMA TidingsAnnounces ==
    ASSUME TypeInv, TypeInv', Bookkeeping, Wire, Wire', Tidings, NEW c \in Conn,
           NEW x \in {"serve", "leave"}, NEW T, Announces(c, x, T)
    PROVE  Tidings'
<1> DEFINE k == <<c, x>>
           f == PeersFrame(k, {id'[q] : q \in peers'[room[c]]})
<1>1. TypeOK /\ Aimed /\ TypeOK' /\ Parting'
    BY DEF TypeInv, Wire
<1>0. k = <<c, x>> /\ f = PeersFrame(k, {id'[q] : q \in peers'[room[c]]})
    OBVIOUS
<1> HIDE DEF f, k
<1>2. /\ k \in Task /\ f \in Frame /\ f.by = k /\ f.t = "peers" /\ f.from = None
      /\ f.list = {id'[q] : q \in peers'[room[c]]}
      /\ FanOut(k, T, f) /\ room[c] \in Conn
      /\ \A p \in T : p \in Conn /\ room[p] = room[c]
    BY <1>0, AnnouncedFrame
<1> USE DEF f, k
<1>3. /\ Dwindles /\ UNCHANGED <<room, seq, author>> /\ room[c] # None
      /\ T \subseteq peers'[room[c]] /\ peers'[room[c]] \ {c} \subseteq T
      /\ \A d \in Conn : line'[d] \in {"up", "opening"} => told'[d] = told[d] /\ held'[d] = held[d]
      /\ \A d \in Conn \ {c} : pc'[d] = pc[d] /\ leave'[d] = leave[d] /\ id'[d] = id[d]
    BY DEF Announces
<1>4. \/ /\ x = "serve" /\ leave'[c] = leave[c]
         /\ pc[c] \in {"welcome", "read", "rename", "forward"} /\ pc'[c] = After(T)
         /\ id'[c] = id[c] \/ (T = peers'[room[c]] /\ pc[c] = "read")
         /\ pc[c] = "forward" => bad[k] \cap peers'[room[c]] = {}
      \/ /\ x = "leave" /\ id'[c] = id[c] /\ c \notin peers'[room[c]]
         /\ pc'[c] = pc[c] \/ (pc[c] = "read" /\ pc'[c] = "ended")
         /\ bad[k] = {}
    BY DEF Announces
<1>5. /\ \A p \in Conn :
            \/ p \in T /\ p \notin bad'[k] /\ writes'[p] = Append(writes[p], f)
            \/ p \in T /\ p \in bad'[k] /\ writes'[p] = writes[p]
            \/ p \notin T /\ writes'[p] = writes[p]
      /\ \A p \in bad'[k] : p \in T
      /\ \A j \in Task \ {k} : bad'[j] = bad[j]
  <2> HIDE DEF f, k
  <2> QED
      BY <1>1, <1>2, FansOut
<1>6. \A s \in Conn, y \in {"serve", "leave"} : s # c \/ y # x => bad'[<<s, y>>] = bad[<<s, y>>]
  <2> SUFFICES ASSUME NEW s \in Conn, NEW y \in {"serve", "leave"}, s # c \/ y # x
               PROVE  <<s, y>> \in Task \ {k}
      BY <1>5
  <2> QED
      BY DEF Task
<1>7. \A d \in Conn : InRoom(d)' => InRoom(d)
    BY <1>1, <1>3, WireTypes DEF InRoom, Dwindles
<1> SUFFICES ASSUME NEW p \in Conn, Heard(p)'
             PROVE  /\ Acquainted(p)' /\ Signed(p)'
                    /\ InRoom(p)' /\ ~Doomed(p, pc', bad')
                         => NoStrangers(p)' /\ (author'[room'[p]] # p => NewestComes(p)')
    BY DEF Tidings, Briefed
<1>8. /\ SameCompany(p) /\ Heard(p) /\ Briefed(p) /\ told'[p] = told[p] /\ held'[p] = held[p]
      /\ room[p] # None
  <2>1. SameCompany(p) /\ Heard(p) /\ Briefed(p)
      BY <1>1, <1>3, DwindlingCompany DEF Tidings
  <2>2. room[p] # None
      BY <2>1, NobodysReader
  <2>3. told'[p] = told[p] /\ held'[p] = held[p]
      BY <1>3 DEF Heard
  <2> QED
      BY <2>1, <2>2, <2>3
<1>9. writes'[p] = writes[p] \/ (writes'[p] = Append(writes[p], f) /\ p \in T)
    BY <1>5
<1> HIDE DEF f
<1>10. Acquainted(p)'
  <2> SUFFICES ASSUME NEW s \in Conn, InRoom(p)', InRoom(s)', room'[p] = room'[s],
                      Announced(s, p, pc', bad')
               PROVE  Meets(p, s)'
      BY DEF Acquainted
  <2>1. InRoom(p) /\ InRoom(s) /\ room[p] = room[s]
      BY <1>3, <1>7
  <2>2. writes'[p] = Append(writes[p], f) => id'[s] \in f.list
    <3> SUFFICES ASSUME writes'[p] = Append(writes[p], f)  PROVE s \in peers'[room[c]]
        BY <1>2
    <3>1. writes[p] \in Seq(Frame) /\ Append(writes[p], f) # writes[p]
        BY <1>1, <1>2, WireTypes, Appended
    <3>2. room[p] = room[c]
        BY <1>2, <1>9, <3>1
    <3> QED
        BY <1>3, <2>1, <3>2 DEF InRoom
  <2>3. ASSUME Announced(s, p, pc, bad), id'[s] = id[s]
        PROVE  Meets(p, s)'
    <3>1. Meets(p, s)
        BY <1>8, <2>1, <2>3 DEF Briefed, Acquainted
    <3> QED
        BY <1>1, <1>2, <1>8, <1>9, <2>2, <2>3, <3>1, MeetsOn
  <2>4. CASE s # c
    <3>1. Announced(s, p, pc, bad)
        BY <1>3, <1>6, <2>4 DEF Announced
    <3> QED
        BY <1>3, <2>3, <2>4, <3>1
  <2>5. CASE s = c
    <3>1. x = "serve" /\ pc[c] \in {"welcome", "read", "rename", "forward"} /\ pc'[c] = After(T)
      <4>1. c \in peers'[room[c]]
          BY <1>3, <2>5 DEF InRoom
      <4> QED
          BY <1>4, <4>1
    <3>2. CASE p \in T /\ p \notin bad'[k]
      <4>1. writes'[p] = Append(writes[p], f)
          BY <1>5, <3>2 DEF f
      <4>2. f.t \in Rosters /\ f.by = <<s, "serve">>
          BY <1>2, <2>5, <3>1 DEF Rosters
      <4> QED
          BY <1>1, <1>2, <2>2, <4>1, <4>2, MeetsAfresh
    <3>3. CASE p \in T /\ p \in bad'[k]
      <4>1. pc'[s] = "fanout" /\ p \in bad'[<<s, "serve">>]
          BY <2>5, <3>1, <3>3 DEF After
      <4> QED
          BY <4>1 DEF Announced
    <3>4. CASE p \notin T
      <4>1. p = c
          BY <1>3, <2>1, <2>5, <3>4 DEF InRoom
      <4>2. id'[s] = id[s]
          BY <1>3, <1>4, <2>1, <2>5, <3>1, <3>4, <4>1 DEF InRoom
      <4>3. Announced(s, p, pc, bad)
          BY <2>5, <3>1, <4>1 DEF Announced
      <4> QED
          BY <2>3, <4>2, <4>3
    <3> QED
        BY <3>2, <3>3, <3>4
  <2> QED
      BY <2>4, <2>5
<1>11. Signed(p)'
  <2>1. Signed(p)
      BY <1>8 DEF Briefed
  <2> QED
      BY <1>2, <1>8, <1>9, <2>1, SignedOn
<1>12. ASSUME InRoom(p)', ~Doomed(p, pc', bad')
       PROVE  NoStrangers(p)' /\ (author'[room'[p]] # p => NewestComes(p)')
  <2>1. ~Doomed(p, pc, bad)
    <3> SUFFICES ASSUME NEW s \in Conn,
                        \/ p \in bad[<<s, "serve">>] /\ pc[s] \in {"fanout", "forward"}
                        \/ p \in bad[<<s, "leave">>]
                 PROVE  FALSE
        BY DEF Doomed
    <3>1. CASE p \in bad[<<s, "leave">>]
      <4>1. ~(s = c /\ x = "leave")
          BY <1>4, <3>1
      <4> QED
          BY <1>6, <1>12, <3>1, <4>1 DEF Doomed
    <3>2. CASE p \in bad[<<s, "serve">>] /\ pc[s] \in {"fanout", "forward"}
      <4>1. CASE s = c /\ x = "serve"
        <5>1. pc[c] = "forward" /\ p \notin peers'[room[c]]
            BY <1>4, <3>2, <4>1
        <5>2. room[p] = room[c]
            BY <1>1, <3>2, <4>1 DEF Aimed
        <5> QED
            BY <1>3, <1>12, <5>1, <5>2 DEF InRoom
      <4>2. CASE s = c /\ x = "leave"
        <5>1. pc'[s] = pc[s]
            BY <1>4, <3>2, <4>2
        <5> QED
            BY <1>6, <1>12, <3>2, <4>2, <5>1 DEF Doomed
      <4>3. CASE s # c
          BY <1>3, <1>6, <1>12, <3>2, <4>3 DEF Doomed
      <4> QED
          BY <4>1, <4>2, <4>3
    <3> QED
        BY <3>1, <3>2
  <2>2. NoStrangers(p) /\ (author[room[p]] # p => NewestComes(p))
      BY <1>7, <1>8, <1>12, <2>1 DEF Briefed
  <2>3. author'[room'[p]] # p => NewestComes(p)'
    <3>1. f.t \notin Clips
        BY <1>2 DEF Clips
    <3>2. seq'[room[p]] = seq[room[p]] /\ room'[p] = room[p] /\ author' = author
        BY <1>3
    <3> QED
        BY <1>1, <1>2, <1>8, <1>9, <2>2, <3>1, <3>2, NewestOn
  <2>4. CASE p \in T /\ p \notin bad'[k]
    <3>1. writes'[p] = Append(writes[p], f) /\ f.t \in Rosters
        BY <1>2, <1>5, <2>4 DEF f, Rosters
    <3>2. \A y \in f.list : Present(p, y)'
      <4> SUFFICES ASSUME NEW q \in peers'[room[c]]  PROVE Present(p, id[q])'
          BY <1>2
      <4>1. q \in Conn /\ room[q] = room[c] /\ room[c] = room[p]
          BY <1>1, <1>2, <1>3, <2>4, PeersHere DEF Dwindles
      <4>2. leave'[q] = "no"
          BY <1>1, <1>3, <4>1 DEF Parting, InRoom
      <4> QED
          BY <1>3, <4>1, <4>2 DEF Present
    <3> QED
        BY <1>1, <1>2, <2>3, <3>1, <3>2, StrangersAfresh
  <2>5. CASE p \in T /\ p \in bad'[k]
    <3>1. x = "serve" => pc'[c] = "fanout"
        BY <1>4, <2>5 DEF After
    <3> QED
        BY <1>12, <2>5, <3>1 DEF Doomed
  <2>6. CASE p \notin T
    <3>1. writes'[p] = writes[p]
        BY <1>5, <2>6
    <3>2. \A q \in Conn : room[q] = room[p] /\ leave[q] \in {"no", "due"} =>
              id'[q] = id[q] /\ leave'[q] \in {"no", "due"}
      <4>1. room[p] = room[c] => p = c /\ p \in peers'[room[c]]
          BY <1>3, <1>12, <2>6 DEF InRoom
      <4>2. room[p] = room[c] => id'[c] = id[c] /\ leave'[c] = leave[c]
          BY <1>4, <2>6, <4>1
      <4> QED
          BY <1>3, <4>2
    <3>3. \A y : Present(p, y) => Present(p, y)'
        BY <1>3, <3>2 DEF Present
    <3>4. NoStrangers(p)'
        BY <1>1, <1>2, <1>8, <2>2, <3>1, <3>3, StrangersOn
    <3> QED
        BY <2>3, <3>4
  <2> QED
      BY <2>4, <2>5, <2>6
<1> QED
    BY <1>10, <1>11, <1>12

\* The client takes the oldest frame of its queue.
Takes(p) ==
    LET f == Head(writes[p]) IN
    /\ Shortens(p) /\ bad' = bad
    /\ told' = IF f.t \in Rosters THEN [told EXCEPT ![p] = f.list] ELSE told
    /\ held' = IF f.t \in Clips THEN [held EXCEPT ![p] = f.n] ELSE held

\* The oldest frame of a socket is lost; on a live one, which never loses its
\* welcome, the loss is noted unless it is of an answer.
Loses(p) ==
    LET f == Head(writes[p]) IN
    /\ Shortens(p) /\ KindOf[p] = "ws" /\ UNCHANGED <<told, held>>
    /\ \/ bad' = bad
       \/ f.t \notin {"welcome", "reply"} /\ bad' = [bad EXCEPT ![f.by] = @ \cup {p}]
    /\ line[p] = "up" => f.t # "welcome" /\ (f.t # "reply" => p \in bad'[f.by])

\* A reader whose queue is left alone while another's is shortened.
LEMMA OthersRead ==
    ASSUME TypeInv, Wire, Tidings, NEW c \in Conn, Shortens(c), NEW p \in Conn, p # c,
           told'[p] = told[p], held'[p] = held[p],
           \A k \in Task : bad[k] \subseteq bad'[k]
    PROVE  Briefed(p)'
<1>1. TypeOK /\ Briefed(p)
    BY DEF TypeInv, Tidings
<1>2. /\ UNCHANGED <<peers, room, id, line, pc, leave, seq, author>>
      /\ writes' = [writes EXCEPT ![c] = Tail(@)]
    BY DEF Shortens
<1>3. writes'[p] = writes[p]
    BY <1>1, <1>2, WireTypes
<1>4. SameCompany(p) /\ (Heard(p)' <=> Heard(p))
    BY <1>2 DEF SameCompany, InRoom, Heard
<1>5. \A s \in Conn : /\ bad[<<s, "serve">>] \subseteq bad'[<<s, "serve">>]
                      /\ bad[<<s, "leave">>] \subseteq bad'[<<s, "leave">>]
    BY TasksAre
<1>6. \A s \in Conn : Announced(s, p, pc', bad') => Announced(s, p, pc, bad)
    BY <1>2, <1>5 DEF Announced
<1>7. Doomed(p, pc, bad) => Doomed(p, pc', bad')
    BY <1>2, <1>5 DEF Doomed
<1>8. CASE room[p] = None
    BY <1>4, <1>8, NobodysReader DEF Briefed
<1>9. CASE room[p] # None
    BY <1>1, <1>2, <1>3, <1>4, <1>6, <1>7, <1>9, Unmoved
<1> QED
    BY <1>8, <1>9

\* The reader takes its oldest frame.
LEMMA TidingsTakes ==
    ASSUME TypeInv, Wire, Tidings, NEW p \in Conn, Takes(p)
    PROVE  Tidings'
<1> DEFINE w == writes[p]
           v == Tail(w)
           f == Head(w)
<1>1. TypeOK
    BY DEF TypeInv
<1>2. /\ UNCHANGED <<peers, room, id, line, pc, leave, seq, author, bad>>
      /\ w # <<>> /\ writes' = [writes EXCEPT ![p] = Tail(@)] /\ Shortens(p)
      /\ told' = IF f.t \in Rosters THEN [told EXCEPT ![p] = f.list] ELSE told
      /\ held' = IF f.t \in Clips THEN [held EXCEPT ![p] = f.n] ELSE held
    BY DEF Takes, Shortens
<1>3. /\ w \in Seq(Frame) /\ writes'[p] = v
      /\ told'[p] = IF f.t \in Rosters THEN f.list ELSE told[p]
      /\ held'[p] = IF f.t \in Clips THEN f.n ELSE held[p]
      /\ \A q \in Conn \ {p} : told'[q] = told[q] /\ held'[q] = held[q]
    BY <1>1, <1>2, WireTypes
<1>4. /\ Len(v) = Len(w) - 1 /\ Len(w) \in Nat \ {0}
      /\ \A k \in 1..(Len(w) - 1) : v[k] = w[k + 1]
      /\ f = w[1]
    BY <1>2, <1>3, Headless
<1>5. \A q \in Conn \ {p} : Briefed(q)'
    BY <1>1, <1>2, <1>3, OthersRead
<1>6. Briefed(p)'
  <2> SUFFICES ASSUME Heard(p)'
               PROVE  /\ Acquainted(p)' /\ Signed(p)'
                      /\ InRoom(p)' /\ ~Doomed(p, pc', bad')
                           => NoStrangers(p)' /\ (author'[room'[p]] # p => NewestComes(p)')
      BY DEF Briefed
  <2>1. Heard(p) /\ Briefed(p)
      BY <1>2 DEF Heard, Tidings
  <2> HIDE DEF v, f
  <2>2. Acquainted(p)'
    <3> SUFFICES ASSUME NEW s \in Conn, InRoom(p)', InRoom(s)', room'[p] = room'[s],
                        Announced(s, p, pc', bad')
                 PROVE  Meets(p, s)'
        BY DEF Acquainted
    <3>1. Meets(p, s)
        BY <1>2, <2>1 DEF Briefed, Acquainted, InRoom
    <3>2. PICK j \in 0..Len(w) : /\ Carries(w, told[p], id[s], j, Len(w))
                                 /\ KindOf[p] = "ws" /\ j > 0 =>
                                        w[j].t = "welcome" \/ w[j].by = <<s, "serve">>
        BY <3>1 DEF Meets
    <3>3. Carries(v, told'[p], id[s], Before(j), Len(w) - 1)
      <4>1. Len(w) \in 1..Len(w) /\ j \in 0..Len(w)
          BY <1>4
      <4> HIDE DEF w
      <4> QED
          BY <1>2, <1>3, <3>2, <4>1, CarriedHome DEF v, f
    <3>4. Before(j) \in 0..Len(v) /\ (Before(j) > 0 => j > 0 /\ v[Before(j)] = w[j])
        BY <1>4, <3>2 DEF Before
    <3>5. /\ Carries(writes'[p], told'[p], id'[s], Before(j), Len(writes'[p]))
          /\ KindOf[p] = "ws" /\ Before(j) > 0 =>
                 writes'[p][Before(j)].t = "welcome" \/ writes'[p][Before(j)].by = <<s, "serve">>
        BY <1>2, <1>3, <1>4, <3>2, <3>3, <3>4
    <3> QED
        BY <1>3, <3>4, <3>5 DEF Meets
  <2>3. Signed(p)'
    <3> SUFFICES ASSUME NEW i \in 1..Len(v), v[i].from # None, InRoom(writes[p][i].by[1])'
                 PROVE  Vouches(p, i)'
        BY <1>3 DEF Signed
    <3>1. i + 1 \in 1..Len(w) /\ v[i] = w[i + 1] /\ i \in Nat
        BY <1>4
    <3>2. InRoom(w[i + 1].by[1])
        BY <1>2, <1>3, <3>1 DEF InRoom
    <3>3. Vouches(p, i + 1)
        BY <2>1, <3>1, <3>2 DEF Briefed, Signed
    <3>4. PICK j \in 0..i : /\ Carries(w, told[p], v[i].from, j, i)
                            /\ KindOf[p] = "ws" /\ j > 0 => w[j].t = "welcome"
        BY <3>1, <3>3 DEF Vouches
    <3>5. Carries(v, told'[p], v[i].from, Before(j), i - 1)
      <4>1. i \in 1..Len(w) /\ j \in 0..i
          BY <1>4, <3>1
      <4> HIDE DEF w
      <4> DEFINE y == v[i].from
      <4>2. Carries(w, told[p], y, j, i)
          BY <3>4
      <4> HIDE DEF y
      <4>3. Carries(v, told'[p], y, Before(j), i - 1)
          BY <1>2, <1>3, <4>1, <4>2, CarriedHome DEF v, f
      <4> QED
          BY <4>3 DEF y
    <3>6. Before(j) \in 0..(i - 1) /\ (Before(j) > 0 => j > 0 /\ v[Before(j)] = w[j])
        BY <1>4, <3>1, <3>4 DEF Before
    <3> QED
        BY <1>3, <3>4, <3>5, <3>6 DEF Vouches
  <2>4. ASSUME InRoom(p)', ~Doomed(p, pc', bad')
        PROVE  NoStrangers(p)' /\ (author'[room'[p]] # p => NewestComes(p)')
    <3>1. NoStrangers(p) /\ (author[room[p]] # p => NewestComes(p))
        BY <1>2, <2>1, <2>4 DEF Briefed, InRoom
    <3>2. NoStrangers(p)'
      <4> SUFFICES ASSUME NEW j \in 0..Len(v), LastIs(v, Rosters, j),
                          NEW x \in Shown(v, told'[p], j)
                   PROVE  Present(p, x)'
          BY <1>3 DEF NoStrangers
      <4>1. \/ j > 0 /\ LastIs(w, Rosters, j + 1) /\ j + 1 \in 0..Len(w) /\ v[j] = w[j + 1]
            \/ j = 0 /\ f.t \in Rosters /\ LastIs(w, Rosters, 1) /\ 1 \in 0..Len(w)
            \/ j = 0 /\ f.t \notin Rosters /\ LastIs(w, Rosters, 0) /\ 0 \in 0..Len(w)
        <5>1. j \in 0..(Len(w) - 1)
            BY <1>4
        <5> HIDE DEF w
        <5> QED
            BY <1>2, <1>3, <5>1, LastHeadless DEF v, f
      <4>2. \E i \in 0..Len(w) : LastIs(w, Rosters, i) /\ x \in Shown(w, told[p], i)
        <5>1. CASE j > 0 /\ LastIs(w, Rosters, j + 1) /\ j + 1 \in 0..Len(w) /\ v[j] = w[j + 1]
          <6>1. x \in Shown(w, told[p], j + 1)
              BY <5>1 DEF Shown
          <6> QED
              BY <5>1, <6>1
        <5>2. CASE j = 0 /\ f.t \in Rosters /\ LastIs(w, Rosters, 1) /\ 1 \in 0..Len(w)
          <6>1. x \in Shown(w, told[p], 1)
              BY <1>3, <1>4, <5>2 DEF Shown
          <6> QED
              BY <5>2, <6>1
        <5>3. CASE j = 0 /\ f.t \notin Rosters /\ LastIs(w, Rosters, 0) /\ 0 \in 0..Len(w)
          <6>1. x \in Shown(w, told[p], 0)
              BY <1>3, <5>3 DEF Shown
          <6> QED
              BY <5>3, <6>1
        <5> QED
            BY <4>1, <5>1, <5>2, <5>3
      <4>3. Present(p, x)
          BY <3>1, <4>2 DEF NoStrangers
      <4> QED
          BY <1>2, <4>3 DEF Present
    <3>3. ASSUME author'[room'[p]] # p
          PROVE  NewestComes(p)'
      <4> SUFFICES ASSUME NEW j \in 0..Len(v), LastIs(v, Clips, j)
                   PROVE  Given(v, held'[p], j) = seq[room[p]]
          BY <1>2, <1>3 DEF NewestComes
      <4>1. \/ j > 0 /\ LastIs(w, Clips, j + 1) /\ j + 1 \in 0..Len(w) /\ v[j] = w[j + 1]
            \/ j = 0 /\ f.t \in Clips /\ LastIs(w, Clips, 1) /\ 1 \in 0..Len(w)
            \/ j = 0 /\ f.t \notin Clips /\ LastIs(w, Clips, 0) /\ 0 \in 0..Len(w)
        <5>1. j \in 0..(Len(w) - 1)
            BY <1>4
        <5> HIDE DEF w
        <5> QED
            BY <1>2, <1>3, <5>1, LastHeadless DEF v, f
      <4>2. \E i \in 0..Len(w) : LastIs(w, Clips, i) /\ Given(v, held'[p], j) = Given(w, held[p], i)
        <5>1. CASE j > 0 /\ LastIs(w, Clips, j + 1) /\ j + 1 \in 0..Len(w) /\ v[j] = w[j + 1]
          <6>1. Given(v, held'[p], j) = Given(w, held[p], j + 1)
              BY <5>1 DEF Given
          <6> QED
              BY <5>1, <6>1
        <5>2. CASE j = 0 /\ f.t \in Clips /\ LastIs(w, Clips, 1) /\ 1 \in 0..Len(w)
          <6>1. Given(v, held'[p], j) = Given(w, held[p], 1)
              BY <1>3, <1>4, <5>2 DEF Given
          <6> QED
              BY <5>2, <6>1
        <5>3. CASE j = 0 /\ f.t \notin Clips /\ LastIs(w, Clips, 0) /\ 0 \in 0..Len(w)
          <6>1. Given(v, held'[p], j) = Given(w, held[p], 0)
              BY <1>3, <5>3 DEF Given
          <6> QED
              BY <5>3, <6>1
        <5> QED
            BY <4>1, <5>1, <5>2, <5>3
      <4>3. author[room[p]] # p
          BY <1>2, <3>3
      <4> QED
          BY <3>1, <4>2, <4>3 DEF NewestComes
    <3> QED
        BY <3>2, <3>3
  <2> QED
      BY <2>2, <2>3, <2>4
<1> QED
    BY <1>5, <1>6 DEF Tidings

\* The oldest frame of a socket is lost, and its reader dropped for it if it lives.
LEMMA TidingsLoses ==
    ASSUME TypeInv, Wire, Tidings, NEW p \in Conn, Loses(p)
    PROVE  Tidings'
<1> DEFINE w == writes[p]
           v == Tail(w)
           f == Head(w)
<1>1. TypeOK /\ Awaited /\ Parting
    BY DEF TypeInv, Wire
<1>2. /\ UNCHANGED <<peers, room, id, line, pc, leave, seq, author, told, held>>
      /\ w # <<>> /\ writes' = [writes EXCEPT ![p] = Tail(@)] /\ Shortens(p) /\ KindOf[p] = "ws"
      /\ \/ bad' = bad
         \/ bad' = [bad EXCEPT ![f.by] = @ \cup {p}]
      /\ line[p] = "up" => f.t # "welcome" /\ (f.t # "reply" => p \in bad'[f.by])
    BY DEF Loses, Shortens
<1>3. w \in Seq(Frame) /\ writes'[p] = v
    BY <1>1, <1>2, WireTypes
<1>4. /\ Len(v) = Len(w) - 1 /\ Len(w) \in Nat \ {0}
      /\ \A k \in 1..(Len(w) - 1) : v[k] = w[k + 1]
      /\ f = w[1] /\ f \in Frame
    BY <1>2, <1>3, Headless
<1>5. \A k \in Task : bad[k] \subseteq bad'[k]
    BY <1>1, <1>2, WireTypes
<1>6. \A q \in Conn \ {p} : Briefed(q)'
    BY <1>1, <1>2, <1>5, OthersRead
<1>7. /\ f.by[1] \in Conn /\ f.by[2] \in {"serve", "leave"} /\ f.by = <<f.by[1], f.by[2]>>
      /\ f.t \in {"clip", "peers", "welcome", "wide", "direct", "reply"}
    BY <1>4, ByTask
<1>8. InHand(f, pc, leave)
    BY <1>1, <1>2, <1>4 DEF Awaited
<1>9. Briefed(p)'
  <2> SUFFICES ASSUME Heard(p)'
               PROVE  /\ Acquainted(p)' /\ Signed(p)'
                      /\ InRoom(p)' /\ ~Doomed(p, pc', bad')
                           => NoStrangers(p)' /\ (author'[room'[p]] # p => NewestComes(p)')
      BY DEF Briefed
  <2>1. Heard(p) /\ Briefed(p) /\ f.t # "welcome" /\ (f.t # "reply" => p \in bad'[f.by])
      BY <1>1, <1>2 DEF Heard, Tidings, Parting
  <2> HIDE DEF v, f
  <2>2. \A s \in Conn : /\ bad[<<s, "serve">>] \subseteq bad'[<<s, "serve">>]
                        /\ bad[<<s, "leave">>] \subseteq bad'[<<s, "leave">>]
      BY <1>5, TasksAre
  <2>3. Acquainted(p)'
    <3> SUFFICES ASSUME NEW s \in Conn, InRoom(p)', InRoom(s)', room'[p] = room'[s],
                        Announced(s, p, pc', bad')
                 PROVE  Meets(p, s)'
        BY DEF Acquainted
    <3>1. Meets(p, s)
      <4>1. Announced(s, p, pc, bad)
          BY <1>2, <2>2 DEF Announced
      <4> QED
          BY <1>2, <2>1, <4>1 DEF Briefed, Acquainted, InRoom
    <3>2. PICK j \in 0..Len(w) : /\ Carries(w, told[p], id[s], j, Len(w))
                                 /\ KindOf[p] = "ws" /\ j > 0 =>
                                        w[j].t = "welcome" \/ w[j].by = <<s, "serve">>
        BY <3>1 DEF Meets
    <3>3. ASSUME j = 1
          PROVE  FALSE
      <4>1. f.t = "peers" /\ f.by = <<s, "serve">>
        <5>1. w[1].t \in Rosters
            BY <3>2, <3>3 DEF Carries
        <5> QED
            BY <1>2, <1>4, <2>1, <3>2, <3>3, <5>1 DEF Rosters
      <4>2. pc[s] = "fanout"
          BY <1>8, <4>1 DEF InHand
      <4>3. p \in bad'[<<s, "serve">>]
          BY <2>1, <4>1
      <4> QED
          BY <1>2, <4>2, <4>3 DEF Announced
    <3>4. Carries(v, told[p], id[s], Before(j), Len(w) - 1)
      <4>1. Len(w) \in 1..Len(w) /\ j \in 0..Len(w) /\ j # 1
          BY <1>4, <3>3
      <4> HIDE DEF w
      <4> QED
          BY <1>2, <1>3, <3>2, <4>1, CarriedPast DEF v
    <3>5. Before(j) \in 0..Len(v) /\ (Before(j) > 0 => j > 0 /\ v[Before(j)] = w[j])
        BY <1>4, <3>2 DEF Before
    <3>6. /\ Carries(writes'[p], told'[p], id'[s], Before(j), Len(writes'[p]))
          /\ KindOf[p] = "ws" /\ Before(j) > 0 =>
                 writes'[p][Before(j)].t = "welcome" \/ writes'[p][Before(j)].by = <<s, "serve">>
        BY <1>2, <1>3, <1>4, <3>2, <3>4, <3>5
    <3> QED
        BY <1>3, <3>5, <3>6 DEF Meets
  <2>4. Signed(p)'
    <3> SUFFICES ASSUME NEW i \in 1..Len(v), v[i].from # None, InRoom(writes[p][i].by[1])'
                 PROVE  Vouches(p, i)'
        BY <1>3 DEF Signed
    <3>1. i + 1 \in 1..Len(w) /\ v[i] = w[i + 1] /\ i \in Nat
        BY <1>4
    <3>2. InRoom(w[i + 1].by[1])
        BY <1>2, <1>3, <3>1 DEF InRoom
    <3>3. Vouches(p, i + 1)
        BY <2>1, <3>1, <3>2 DEF Briefed, Signed
    <3>4. PICK j \in 0..i : /\ Carries(w, told[p], v[i].from, j, i)
                            /\ KindOf[p] = "ws" /\ j > 0 => w[j].t = "welcome"
        BY <3>1, <3>3 DEF Vouches
    <3>5. Carries(v, told[p], v[i].from, Before(j), i - 1)
      <4>1. i \in 1..Len(w) /\ j \in 0..i /\ j # 1
          BY <1>2, <1>4, <2>1, <3>1, <3>4
      <4> HIDE DEF w
      <4> DEFINE y == v[i].from
      <4>2. Carries(w, told[p], y, j, i)
          BY <3>4
      <4> HIDE DEF y
      <4>3. Carries(v, told[p], y, Before(j), i - 1)
          BY <1>2, <1>3, <4>1, <4>2, CarriedPast DEF v
      <4> QED
          BY <4>3 DEF y
    <3>6. Before(j) \in 0..(i - 1) /\ (Before(j) > 0 => j > 0 /\ v[Before(j)] = w[j])
        BY <1>4, <3>1, <3>4 DEF Before
    <3> QED
        BY <1>2, <1>3, <3>4, <3>5, <3>6 DEF Vouches
  <2>5. ASSUME InRoom(p)', ~Doomed(p, pc', bad')
        PROVE  NoStrangers(p)' /\ (author'[room'[p]] # p => NewestComes(p)')
    <3>1. f.t = "reply"
      <4> SUFFICES ASSUME f.t # "reply"  PROVE FALSE
          OBVIOUS
      <4>1. p \in bad'[<<f.by[1], f.by[2]>>]
          BY <1>7, <2>1
      <4>2. f.by[2] = "serve" => pc[f.by[1]] \in {"fanout", "forward"}
          BY <1>7, <1>8, <2>1 DEF InHand
      <4> QED
          BY <1>2, <1>7, <2>5, <4>1, <4>2 DEF Doomed
    <3>2. ~Doomed(p, pc, bad)
        BY <1>2, <2>2, <2>5 DEF Doomed
    <3>3. NoStrangers(p) /\ (author[room[p]] # p => NewestComes(p))
        BY <1>2, <2>1, <2>5, <3>2 DEF Briefed, InRoom
    <3>4. ASSUME NEW K, "reply" \notin K, NEW j \in 0..Len(v), LastIs(v, K, j)
          PROVE  \E i \in 0..Len(w) : /\ LastIs(w, K, i)
                                      /\ j = 0 => i = 0
                                      /\ j > 0 => i > 0 /\ v[j] = w[i]
      <4>1. \/ j > 0 /\ LastIs(w, K, j + 1) /\ j + 1 \in 0..Len(w) /\ v[j] = w[j + 1]
            \/ j = 0 /\ LastIs(w, K, 0) /\ 0 \in 0..Len(w)
        <5>1. j \in 0..(Len(w) - 1) /\ f.t \notin K
            BY <1>4, <3>1, <3>4
        <5> HIDE DEF w
        <5> QED
            BY <1>2, <1>3, <3>4, <5>1, LastHeadless DEF v, f
      <4> QED
          BY <4>1
    <3>5. NoStrangers(p)'
      <4> SUFFICES ASSUME NEW j \in 0..Len(v), LastIs(v, Rosters, j),
                          NEW x \in Shown(v, told[p], j)
                   PROVE  Present(p, x)'
          BY <1>2, <1>3 DEF NoStrangers
      <4>1. PICK i \in 0..Len(w) : /\ LastIs(w, Rosters, i)
                                   /\ j = 0 => i = 0
                                   /\ j > 0 => i > 0 /\ v[j] = w[i]
          BY <3>4 DEF Rosters
      <4>2. x \in Shown(w, told[p], i)
          BY <4>1 DEF Shown
      <4>3. Present(p, x)
          BY <3>3, <4>1, <4>2 DEF NoStrangers
      <4> QED
          BY <1>2, <4>3 DEF Present
    <3>6. ASSUME author'[room'[p]] # p
          PROVE  NewestComes(p)'
      <4> SUFFICES ASSUME NEW j \in 0..Len(v), LastIs(v, Clips, j)
                   PROVE  Given(v, held[p], j) = seq[room[p]]
          BY <1>2, <1>3 DEF NewestComes
      <4>1. PICK i \in 0..Len(w) : /\ LastIs(w, Clips, i)
                                   /\ j = 0 => i = 0
                                   /\ j > 0 => i > 0 /\ v[j] = w[i]
          BY <3>4 DEF Clips
      <4>2. Given(v, held[p], j) = Given(w, held[p], i)
          BY <4>1 DEF Given
      <4> QED
          BY <1>2, <3>3, <3>6, <4>1, <4>2 DEF NewestComes
    <3> QED
        BY <3>5, <3>6
  <2> QED
      BY <2>3, <2>4, <2>5
<1> QED
    BY <1>6, <1>9 DEF Tidings

\* A stream closes: its reader is gone, the others keep their queues.
LEMMA TidingsCloses ==
    ASSUME TypeInv, Wire, Tidings, NEW c \in Conn, Closes(c)
    PROVE  Tidings'
<1>1. TypeOK
    BY DEF TypeInv
<1>2. /\ Dwindles /\ room[c] # None /\ c \notin peers'[room[c]] /\ line'[c] = "ended"
      /\ leave[c] = "no" /\ \A d \in Conn \ {c} : told'[d] = told[d] /\ held'[d] = held[d]
      /\ UNCHANGED <<bad, id, room, pc, seq, author>>
    BY DEF Closes
<1>3. /\ \A d \in Conn \ {c} : writes'[d] = writes[d] /\ leave'[d] = leave[d]
      /\ leave'[c] = "due"
    BY <1>1, WireTypes DEF Closes
<1> SUFFICES ASSUME NEW p \in Conn  PROVE Briefed(p)'
    BY DEF Tidings
<1>4. SameCompany(p) /\ (Heard(p)' => Heard(p)) /\ Briefed(p)
    BY <1>1, <1>2, DwindlingCompany DEF Tidings
<1>5. CASE p = c
    BY <1>2, <1>5 DEF Briefed, Heard
<1>6. CASE p # c /\ room[p] = None
    BY <1>4, <1>6, NobodysReader DEF Briefed
<1>7. CASE p # c /\ room[p] # None
  <2>1. \A q \in Conn : leave[q] \in {"no", "due"} => leave'[q] \in {"no", "due"}
      BY <1>3
  <2> QED
      BY <1>2, <1>3, <1>4, <1>7, <2>1, Unmoved
<1> QED
    BY <1>5, <1>6, <1>7

\* The welcome names everybody in the room and carries its newest clip.
LEMMA TidingsAdmitted ==
    ASSUME TypeInv, TypeInv', Bookkeeping, Wire, Wire', Tidings, NEW c \in Conn, NEW r, NEW X,
           Admitted(c, r, X)
    PROVE  Tidings'
<1>1. TypeOK /\ Aimed /\ TypeOK' /\ Parting'
    BY DEF TypeInv, Wire
<1>2. /\ r \in Conn /\ X \subseteq peers[r] /\ room[c] = None /\ room'[c] = r /\ pc'[c] = "welcome"
      /\ UNCHANGED <<told, held, bad, id, leave, seq, author>>
      /\ \A d \in Conn \ {c} : room'[d] = room[d] /\ pc'[d] = pc[d]
      /\ \A d \in Conn : peers'[d] = IF d = r THEN X \cup {c} ELSE peers'[d] \cap peers[d]
      /\ \A d \in Conn \ {c} : line'[d] \in {"up", "opening"} => line[d] \in {"up", "opening"}
  <2>1. room \in [Conn -> Conn \cup {None}] /\ pc \in [Conn -> Places]
      BY <1>1, WireTypes
  <2> QED
      BY <2>1 DEF Admitted
<1>3. PICK f \in Frame : /\ f.by = <<c, "serve">> /\ f.t = "welcome" /\ f.n = seq[r]
                         /\ f.from = None /\ f.list = {id[q] : q \in X \cup {c}}
                         /\ writes' = [writes EXCEPT ![c] = Append(@, f)]
    BY DEF Admitted
<1>4. writes'[c] = Append(writes[c], f) /\ \A q \in Conn \ {c} : writes'[q] = writes[q]
    BY <1>1, <1>3, WireTypes
<1>5. \A s \in Conn \ {c} : InRoom(s)' => InRoom(s)
  <2>1. \A s \in Conn \ {c} : room[s] # None => room[s] \in Conn
      BY <1>1, WireTypes
  <2> QED
      BY <1>2, <2>1 DEF InRoom
<1>6. \A p \in Conn \ {c} : SameCompany(p)
    BY <1>2, <1>5 DEF SameCompany
<1> SUFFICES ASSUME NEW p \in Conn  PROVE Briefed(p)'
    BY DEF Tidings
<1>7. CASE p = c
  <2>1. Signed(p)'
    <3>1. writes[c] \in Seq(Frame) /\ Len(writes[c]) \in Nat /\ 1..Len(writes[c]) = {}
      <4>1. writes[c] \in Seq(Frame) /\ Len(writes[c]) \in Nat
          BY <1>1, WireTypes
      <4>2. \A i \in 1..Len(writes[c]) : FALSE
          BY <1>1, <1>2 DEF Aimed
      <4> QED
          BY <4>1, <4>2
    <3>2. \A i \in 1..Len(writes'[c]) : writes'[c][i] = f
        BY <1>3, <1>4, <3>1, Appended
    <3> QED
        BY <1>3, <1>7, <3>2 DEF Signed
  <2>2. Acquainted(p)'
    <3> SUFFICES ASSUME NEW s \in Conn, InRoom(s)', room'[p] = room'[s]
                 PROVE  Meets(p, s)'
        BY DEF Acquainted
    <3>1. s \in X \cup {c}
        BY <1>2, <1>7 DEF InRoom
    <3>2. id'[s] \in f.list /\ f.t \in Rosters
        BY <1>2, <1>3, <3>1 DEF Rosters
    <3> QED
        BY <1>1, <1>3, <1>4, <1>7, <3>2, MeetsAfresh
  <2>3. NoStrangers(p)'
    <3>1. \A x \in f.list : Present(p, x)'
      <4> SUFFICES ASSUME NEW q \in X \cup {c}  PROVE Present(p, id[q])'
          BY <1>2, <1>3
      <4>1. q \in Conn /\ room'[q] = r
        <5>1. q \in X => q \in Conn /\ room[q] = r
            BY <1>1, <1>2, PeersHere
        <5> QED
            BY <1>2, <5>1
      <4>2. leave'[q] = "no"
        <5>1. q \in peers'[r] /\ r # None
            BY <1>1, <1>2, WireTypes
        <5> QED
            BY <1>1, <4>1, <5>1 DEF Parting, InRoom
      <4> QED
          BY <1>2, <1>7, <4>1, <4>2 DEF Present
    <3>2. f.t \in Rosters
        BY <1>3 DEF Rosters
    <3> QED
        BY <1>1, <1>3, <1>4, <1>7, <3>1, <3>2, StrangersAfresh
  <2>4. NewestComes(p)'
    <3>1. f.n = seq'[room'[p]] /\ f.t \in Clips
        BY <1>2, <1>3, <1>7 DEF Clips
    <3> QED
        BY <1>1, <1>3, <1>4, <1>7, <3>1, NewestAfresh
  <2> QED
      BY <2>1, <2>2, <2>3, <2>4 DEF Briefed
<1>8. CASE p # c
  <2>1. /\ Heard(p)' => Heard(p)
        /\ SameCompany(p) /\ Briefed(p) /\ writes'[p] = writes[p] /\ room'[p] = room[p]
      BY <1>2, <1>4, <1>6, <1>8 DEF Heard, Tidings
  <2>2. CASE room[p] = None
      BY <2>1, <2>2, NobodysReader DEF Briefed
  <2>3. CASE room[p] # None
    <3>1. \A s \in Conn : room'[s] = room[p] /\ Announced(s, p, pc', bad') =>
              room[s] # None /\ Announced(s, p, pc, bad)
      <4> SUFFICES ASSUME NEW s \in Conn, room'[s] = room[p], Announced(s, p, pc', bad')
                   PROVE  room[s] # None /\ Announced(s, p, pc, bad)
          OBVIOUS
      <4>1. s # c
          BY <1>2, <1>8 DEF Announced
      <4>2. room'[s] = room[s] /\ pc'[s] = pc[s] /\ bad' = bad
          BY <1>2, <4>1
      <4> QED
          BY <2>3, <4>2 DEF Announced
    <3>2. Doomed(p, pc, bad) => Doomed(p, pc', bad')
      <4>1. \A s \in Conn : pc[s] \in {"fanout", "forward"} => s # c
          BY <1>2 DEF TypeInv, Placed
      <4> QED
          BY <1>2, <4>1 DEF Doomed
    <3>3. \A q \in Conn : room[q] = room[p] => room'[q] = room[q]
        BY <1>2, <2>3
    <3>4. \A q \in Conn : room[q] = room[p] /\ leave[q] \in {"no", "due"} =>
              room'[q] = room[q] /\ id'[q] = id[q] /\ leave'[q] \in {"no", "due"}
        BY <1>2, <3>3
    <3>5. \A s \in Conn : room'[s] = room[p] /\ InRoom(s)' /\ InRoom(p)' =>
              /\ id'[s] = id[s]
              /\ Announced(s, p, pc', bad') => room[s] # None /\ Announced(s, p, pc, bad)
        BY <1>2, <3>1
    <3>6. /\ told'[p] = told[p] /\ held'[p] = held[p]
          /\ seq'[room[p]] = seq[room[p]] /\ author'[room[p]] = author[room[p]]
        BY <1>2
    <3> QED
        BY <1>1, <2>1, <2>3, <3>2, <3>4, <3>5, <3>6, Unmoved
  <2> QED
      BY <2>2, <2>3
<1> QED
    BY <1>7, <1>8

-----------------------------------------------------------------------------
(* Rooms and their names, step by step *)

\* The part of Delivery that is about rooms.
Founding == Founded /\ Retired /\ Replayed

\* What the tables are typed with.
LEMMA TableTypes ==
    ASSUME TypeOK
    PROVE  /\ rooms \in [Hash -> Conn \cup {None}] /\ at \in [Conn -> Hash \cup {None}]
           /\ room \in [Conn -> Conn \cup {None}] /\ peers \in [Conn -> SUBSET Conn]
           /\ expired \in [Conn -> BOOLEAN] /\ pc \in [Conn -> Places]
           /\ retiring \in [Actor -> Conn \cup {None}] /\ todo \in [Actor -> SUBSET Conn]
           /\ seq \in [Conn -> Nat] /\ last \in [Conn -> Nat]
           /\ None \notin Conn /\ None \notin Hash
BY ActorsAre DEF TypeOK

\* Rooms are forgotten, peers lost and clips numbered.
LEMMA FoundingCalm ==
    ASSUME TypeInv, Founding, UNCHANGED <<at, room, retiring, todo, expired>>,
           \A d \in Conn : peers'[d] \subseteq peers[d],
           \A h \in Hash : rooms'[h] \in {rooms[h], None},
           \A d \in Conn : \/ pc'[d] = pc[d]
                           \/ pc[d] \notin {"new", "retiring"} /\ pc'[d] # "new",
           \A r \in Conn : last[r] = seq[r] => last'[r] = seq'[r]
    PROVE  Founding'
<1>1. TypeOK /\ Founded /\ Retired /\ Replayed
    BY DEF TypeInv, Founding
<1>2. Founded'
    BY <1>1, TableTypes DEF Founded
<1>3. Retired'
  <2> SUFFICES ASSUME NEW a \in Actor, retiring[a] # None
               PROVE  /\ expired[retiring[a]] /\ peers'[retiring[a]] \subseteq todo[a]
                      /\ a \in Conn => pc'[a] = "retiring" /\ at[retiring[a]] = at[a]
      BY DEF Retired
  <2>1. retiring[a] \in Conn
      BY <1>1, TableTypes
  <2> QED
      BY <1>1, <2>1 DEF Retired
<1>4. Replayed'
  <2> SUFFICES ASSUME NEW r \in Conn, ~expired[r] \/ peers'[r] # {}
               PROVE  last'[r] = seq'[r]
      BY DEF Replayed
  <2> QED
      BY <1>1 DEF Replayed
<1> QED
    BY <1>2, <1>3, <1>4 DEF Founding

\* A connection that has asked for nothing is no room, and retires none.
LEMMA NewcomerIs ==
    ASSUME TypeInv, Founding, NEW c \in Conn, pc[c] = "new"
    PROVE  /\ room[c] = None /\ at[c] = None /\ ~expired[c] /\ retiring[c] = None
           /\ c \notin {rooms[h] : h \in Hash}
           /\ \A a \in Actor : retiring[a] # c
<1>1. TypeOK /\ room[c] = None /\ at[c] = None
    BY DEF TypeInv, Founding, Founded, Placed
<1>2. ~expired[c]
    BY <1>1, TableTypes DEF Founding, Founded
<1>3. retiring[c] = None
    BY ActorsAre DEF Founding, Retired
<1>4. \A h \in Hash : rooms[h] # c
    BY <1>1, TableTypes DEF Founding, Founded
<1>5. \A a \in Actor : retiring[a] # c
    BY <1>1, <1>2, TableTypes DEF Founding, Retired
<1> QED
    BY <1>1, <1>2, <1>3, <1>4, <1>5

\* A name is asked for, and nothing else is done but to wait or to give up.
LEMMA FoundingAsked ==
    ASSUME TypeInv, Founding, NEW c \in Conn, NEW h \in Hash,
           JoinRefused(c, h) \/ JoinExpired(c, h)
    PROVE  Founding'
<1>1. TypeOK /\ Founded /\ Retired /\ Replayed
    BY DEF TypeInv, Founding
<1>2. /\ pc[c] = "new" /\ at' = [at EXCEPT ![c] = h]
      /\ UNCHANGED <<rooms, room, expired, peers, last, seq>>
  <2>1. CASE JoinRefused(c, h)
      BY <2>1 DEF JoinRefused, tables, clipVars, roomVars, retireVars
  <2>2. CASE JoinExpired(c, h)
      BY <2>2 DEF JoinExpired, tables, clipVars, roomVars
  <2> QED
      BY <2>1, <2>2
<1>3. /\ room[c] = None /\ at[c] = None /\ ~expired[c] /\ retiring[c] = None
      /\ c \notin {rooms[g] : g \in Hash} /\ \A a \in Actor : retiring[a] # c
    BY <1>2, NewcomerIs
<1>4. at'[c] = h /\ \A d \in Conn \ {c} : at'[d] = at[d]
    BY <1>1, <1>2, TableTypes
<1>5. pc'[c] \in {"ended", "retiring"} /\ \A d \in Conn \ {c} : pc'[d] = pc[d]
    BY <1>1, TableTypes DEF JoinRefused, JoinExpired
<1>6. Founded'
    BY <1>1, <1>2, <1>3, <1>4, <1>5, TableTypes DEF Founded
<1>7. Replayed'
    BY <1>1, <1>2 DEF Replayed
<1>8. Retired'
  <2> SUFFICES ASSUME NEW a \in Actor, retiring'[a] # None
               PROVE  /\ expired[retiring'[a]] /\ peers[retiring'[a]] \subseteq todo'[a]
                      /\ a \in Conn => pc'[a] = "retiring" /\ at'[retiring'[a]] = at'[a]
      BY <1>2 DEF Retired
  <2>1. CASE retiring'[a] = retiring[a] /\ todo'[a] = todo[a] /\ a # c
    <3>1. retiring[a] \in Conn \ {c}
        BY <1>1, <1>3, <2>1, TableTypes
    <3> QED
        BY <1>1, <1>4, <1>5, <2>1, <3>1 DEF Retired
  <2>2. CASE JoinRefused(c, h)
    <3>1. retiring' = retiring /\ todo' = todo
        BY <2>2 DEF JoinRefused, retireVars
    <3>2. a # c
        BY <1>3, <3>1
    <3> QED
        BY <2>1, <3>1, <3>2
  <2>3. CASE JoinExpired(c, h) /\ a # c
      BY <1>1, <2>1, <2>3, TableTypes DEF JoinExpired
  <2>4. CASE JoinExpired(c, h) /\ a = c
    <3>1. /\ retiring'[c] = rooms[h] /\ todo'[c] = peers[rooms[h]] /\ rooms[h] # None
          /\ expired[rooms[h]] /\ pc'[c] = "retiring"
        BY <1>1, <2>4, TableTypes DEF JoinExpired
    <3>2. rooms[h] \in Conn \ {c} /\ at[rooms[h]] = h
        BY <1>1, <1>3, <3>1, TableTypes DEF Founded
    <3> QED
        BY <1>4, <2>4, <3>1, <3>2
  <2> QED
      BY <2>2, <2>3, <2>4
<1> QED
    BY <1>6, <1>7, <1>8 DEF Founding

\* A room goes past its lifetime.
LEMMA FoundingExpires ==
    ASSUME TypeInv, Founding, NEW r \in Conn, Expire(r)
    PROVE  Founding'
<1>1. TypeOK /\ Founded /\ Retired /\ Replayed
    BY DEF TypeInv, Founding
<1>2. /\ Live(r) /\ expired' = [expired EXCEPT ![r] = TRUE]
      /\ UNCHANGED <<rooms, at, room, retiring, todo, peers, pc, last, seq>>
    BY DEF Expire, tables, clipVars, roomVars, connVars, coVars
<1>3. \A d \in Conn : /\ expired[d] => expired'[d]
                      /\ expired'[d] => expired[d] \/ d = r
    BY <1>1, <1>2, TableTypes
<1>4. room[r] = r
    BY <1>1, <1>2, TableTypes DEF Live, Founded
<1>5. Founded'
    BY <1>1, <1>2, <1>3, <1>4 DEF Founded
<1>6. Retired'
  <2>1. \A a \in Actor : retiring[a] \in Conn \cup {None}
      BY <1>1, TableTypes
  <2> QED
      BY <1>1, <1>2, <1>3, <2>1 DEF Retired
<1>7. Replayed'
    BY <1>1, <1>2, <1>3 DEF Replayed
<1> QED
    BY <1>5, <1>6, <1>7 DEF Founding

\* What the sweeper does to the tables: rooms with nobody in them go, and it
\* stops at one that is expired, with everybody in it to be disconnected.
LEMMA SweepFinds ==
    ASSUME TypeOK, NEW S \in SUBSET Conn, NEW table, NEW L, SweepOn(S, table, L)
    PROVE  /\ \A h \in Hash : rooms'[h] \in {table[h], None}
           /\ \A r \in Conn : last'[r] = L[r] \/ (expired[r] /\ peers[r] = {})
           /\ \A a \in Conn : retiring'[a] = retiring[a] /\ todo'[a] = todo[a]
           /\ \/ retiring'[Sweeper] = None
              \/ /\ retiring'[Sweeper] \in Conn /\ expired[retiring'[Sweeper]]
                 /\ todo'[Sweeper] = peers[retiring'[Sweeper]]
<1>1. /\ retiring \in [Actor -> Conn \cup {None}] /\ todo \in [Actor -> SUBSET Conn]
      /\ peers \in [Conn -> SUBSET Conn]
      /\ Sweeper \in Actor /\ Sweeper \notin Conn /\ Conn \subseteq Actor
    BY TableTypes, ActorsAre
<1>2. CASE /\ {r \in S : expired[r] /\ peers[r] # {}} = {} /\ Skim(S, table, L)
           /\ retiring' = [retiring EXCEPT ![Sweeper] = None]
           /\ todo' = [todo EXCEPT ![Sweeper] = {}]
  <2>1. \A r \in S : expired[r] => peers[r] = {}
      BY <1>2
  <2>2. \A h \in Hash : rooms'[h] \in {table[h], None}
      BY <1>2 DEF Skim, Forgotten
  <2>3. \A r \in Conn : last'[r] = L[r] \/ (expired[r] /\ peers[r] = {})
      BY <1>2, <2>1 DEF Skim
  <2> QED
      BY <1>1, <1>2, <2>2, <2>3
<1>3. ASSUME NEW y \in {r \in S : expired[r] /\ peers[r] # {}},
             NEW D \in SUBSET (S \ {r \in S : expired[r] /\ peers[r] # {}}),
             Skim(D, table, L), retiring' = [retiring EXCEPT ![Sweeper] = y],
             todo' = [todo EXCEPT ![Sweeper] = peers[y]]
      PROVE  /\ \A h \in Hash : rooms'[h] \in {table[h], None}
             /\ \A r \in Conn : last'[r] = L[r] \/ (expired[r] /\ peers[r] = {})
             /\ \A a \in Conn : retiring'[a] = retiring[a] /\ todo'[a] = todo[a]
             /\ retiring'[Sweeper] \in Conn /\ expired[retiring'[Sweeper]]
             /\ todo'[Sweeper] = peers[retiring'[Sweeper]]
  <2>1. \A r \in D : expired[r] => peers[r] = {}
      BY <1>3
  <2>2. \A h \in Hash : rooms'[h] \in {table[h], None}
      BY <1>3 DEF Skim, Forgotten
  <2>3. \A r \in Conn : last'[r] = L[r] \/ (expired[r] /\ peers[r] = {})
      BY <1>3, <2>1 DEF Skim
  <2>4. y \in Conn /\ expired[y]
      BY <1>3
  <2> QED
      BY <1>1, <1>3, <2>2, <2>3, <2>4
<1> QED
    BY <1>2, <1>3 DEF SweepOn

\* The sweeper goes over rooms, having dropped the last peer of one, or none.
LEMMA FoundingSweeps ==
    ASSUME TypeInv, Founding, NEW S \in SUBSET Conn, NEW table, NEW L, SweepOn(S, table, L),
           UNCHANGED <<at, room, expired, pc, seq>>,
           \A h \in Hash : table[h] \in {rooms[h], None},
           \A d \in Conn : peers'[d] \subseteq peers[d],
           \A r \in Conn : L[r] = last[r] \/ (expired[r] /\ peers'[r] = {})
    PROVE  Founding'
<1>1. TypeOK /\ Founded /\ Retired /\ Replayed
    BY DEF TypeInv, Founding
<1>2. /\ \A h \in Hash : rooms'[h] \in {rooms[h], None}
      /\ \A r \in Conn : last'[r] = L[r] \/ (expired[r] /\ peers[r] = {})
      /\ \A a \in Conn : retiring'[a] = retiring[a] /\ todo'[a] = todo[a]
      /\ \/ retiring'[Sweeper] = None
         \/ /\ retiring'[Sweeper] \in Conn /\ expired[retiring'[Sweeper]]
            /\ todo'[Sweeper] = peers[retiring'[Sweeper]]
  <2>1. /\ \A h \in Hash : rooms'[h] \in {table[h], None}
        /\ \A r \in Conn : last'[r] = L[r] \/ (expired[r] /\ peers[r] = {})
        /\ \A a \in Conn : retiring'[a] = retiring[a] /\ todo'[a] = todo[a]
        /\ \/ retiring'[Sweeper] = None
           \/ /\ retiring'[Sweeper] \in Conn /\ expired[retiring'[Sweeper]]
              /\ todo'[Sweeper] = peers[retiring'[Sweeper]]
      BY <1>1, SweepFinds
  <2> QED
      BY <2>1
<1>3. Founded'
    BY <1>1, <1>2, TableTypes DEF Founded
<1>4. Retired'
  <2> SUFFICES ASSUME NEW a \in Actor, retiring'[a] # None
               PROVE  /\ expired[retiring'[a]] /\ peers'[retiring'[a]] \subseteq todo'[a]
                      /\ a \in Conn => pc[a] = "retiring" /\ at[retiring'[a]] = at[a]
      BY DEF Retired
  <2>1. CASE a \in Conn
    <3>1. retiring'[a] = retiring[a] /\ todo'[a] = todo[a] /\ retiring[a] \in Conn
        BY <1>1, <1>2, <2>1, TableTypes
    <3>2. peers'[retiring[a]] \subseteq peers[retiring[a]]
        BY <3>1
    <3> QED
        BY <1>1, <2>1, <3>1, <3>2 DEF Retired
  <2>2. CASE a = Sweeper
      BY <1>2, <2>2, ActorsAre
  <2> QED
      BY <2>1, <2>2 DEF Actor
<1>5. Replayed'
  <2> SUFFICES ASSUME NEW r \in Conn, ~expired[r] \/ peers'[r] # {}
               PROVE  last'[r] = seq[r]
      BY DEF Replayed
  <2>1. peers'[r] \subseteq peers[r]
      OBVIOUS
  <2> QED
      BY <1>1, <1>2, <2>1 DEF Replayed
<1> QED
    BY <1>3, <1>4, <1>5 DEF Founding

\* What a drop does to the rooms.
LEMMA DropsTo ==
    ASSUME TypeOK, NEW r, NEW D, Drop(r, D)
    PROVE  /\ \A d \in Conn : peers'[d] \subseteq peers[d] /\ (d # r => peers'[d] = peers[d])
           /\ r \in Conn => peers'[r] = peers[r] \ D
BY TableTypes DEF Drop, Without

\* A peer of a room that is retired is dropped.
LEMMA FoundingRetires ==
    ASSUME TypeInv, Founding, NEW p \in Conn,
           (\E a \in Actor : RetireOne(a, p)) \/ SweepRetired(p)
    PROVE  Founding'
<1>1. TypeOK /\ Founded /\ Retired /\ Replayed
    BY DEF TypeInv, Founding
<1>2. ASSUME NEW a \in Actor, RetireOne(a, p)
      PROVE  Founding'
  <2>1. /\ p \in todo[a] /\ todo' = [todo EXCEPT ![a] = @ \ {p}] /\ Drop(retiring[a], {p})
        /\ UNCHANGED <<rooms, at, room, expired, pc, retiring, last, seq>>
      BY <1>2 DEF RetireOne, clipVars, coVars
  <2>2. retiring[a] \in Conn
      BY <1>1, <2>1, TableTypes DEF TypeInv, Underway
  <2>3. /\ \A d \in Conn : peers'[d] \subseteq peers[d]
        /\ peers'[retiring[a]] = peers[retiring[a]] \ {p}
      BY <1>1, <2>1, <2>2, DropsTo
  <2>4. todo'[a] = todo[a] \ {p} /\ \A b \in Actor \ {a} : todo'[b] = todo[b]
      BY <1>1, <2>1, TableTypes
  <2>5. Founded'
      BY <1>1, <2>1 DEF Founded
  <2>6. Retired'
    <3> SUFFICES ASSUME NEW b \in Actor, retiring[b] # None
                 PROVE  /\ expired[retiring[b]] /\ peers'[retiring[b]] \subseteq todo'[b]
                        /\ b \in Conn => pc[b] = "retiring" /\ at[retiring[b]] = at[b]
        BY <2>1 DEF Retired
    <3>1. retiring[b] \in Conn
        BY <1>1, TableTypes
    <3>2. peers'[retiring[b]] \subseteq todo'[b]
        BY <1>1, <2>3, <2>4, <3>1 DEF Retired
    <3> QED
        BY <1>1, <3>2 DEF Retired
  <2>7. Replayed'
      BY <1>1, <2>1, <2>3 DEF Replayed
  <2> QED
      BY <2>5, <2>6, <2>7 DEF Founding
<1>3. CASE SweepRetired(p)
  <2> DEFINE q == retiring[Sweeper]
             L == [last EXCEPT ![q] = 0]
  <2>1. /\ todo[Sweeper] = {p} /\ Drop(q, {p}) /\ SweepOn(sweep, Forget(q), L)
        /\ UNCHANGED <<at, room, expired, pc, seq>>
      BY <1>3 DEF SweepRetired, clipVars, coVars
  <2>2. Sweeper \in Actor /\ q \in Conn /\ sweep \in SUBSET Conn
    <3>1. Sweeper \in Actor /\ q # None
        BY <2>1, ActorsAre DEF TypeInv, Underway
    <3>2. sweep \in SUBSET Conn
        BY <1>1 DEF TypeOK
    <3> QED
        BY <1>1, <3>1, <3>2, TableTypes
  <2>3. /\ \A d \in Conn : peers'[d] \subseteq peers[d]
        /\ peers'[q] = peers[q] \ {p}
      BY <1>1, <2>1, <2>2, DropsTo
  <2>4. expired[q] /\ peers'[q] = {}
    <3>1. expired[q] /\ peers[q] \subseteq {p}
        BY <1>1, <2>1, <2>2, TableTypes DEF Retired
    <3> QED
        BY <2>3, <3>1
  <2>5. \A h \in Hash : Forget(q)[h] \in {rooms[h], None}
      BY DEF Forget, Forgotten
  <2>6. \A r \in Conn : L[r] = last[r] \/ (expired[r] /\ peers'[r] = {})
      BY <1>1, <2>4, TableTypes
  <2> HIDE DEF q, L
  <2> QED
      BY <2>1, <2>2, <2>3, <2>5, <2>6, FoundingSweeps
<1> QED
    BY <1>2, <1>3

\* A room is found or made, and joined.
LEMMA FoundingEntered ==
    ASSUME TypeInv, Founding, NEW c \in Conn, NEW h \in Hash,
           room[c] = None, pc[c] \in {"new", "retiring"},
           NEW table, \A g \in Hash : table[g] \in {rooms[g], None},
           NEW r \in Conn, r = (IF table[h] = None THEN c ELSE table[h]),
           ~expired[r],
           rooms' = [table EXCEPT ![h] = r] \/ rooms' = table,
           rooms' # table => room' = [room EXCEPT ![c] = r],
           room' = room \/ room' = [room EXCEPT ![c] = r],
           at' = [at EXCEPT ![c] = h] \/ (at' = at /\ at[c] = h),
           pc'[c] \notin {"new", "retiring"}, \A d \in Conn \ {c} : pc'[d] = pc[d],
           \A d \in Conn : d # r => peers'[d] \subseteq peers[d],
           \A d \in Conn : last'[d] = last[d] \/ (expired[d] /\ peers'[d] = {}),
           UNCHANGED <<expired, seq>>,
           retiring'[c] = None,
           \A a \in Actor \ {c} : retiring'[a] = retiring[a] /\ todo'[a] = todo[a]
    PROVE  Founding'
<1>1. TypeOK /\ Founded /\ Retired /\ Replayed
    BY DEF TypeInv, Founding
<1>2. /\ \A g \in Hash : rooms[g] # c
      /\ \A a \in Actor : retiring[a] # c
      /\ ~expired[c]
    BY <1>1, TableTypes DEF Founded, Retired
<1>3. at'[c] = h /\ \A d \in Conn \ {c} : at'[d] = at[d]
    BY <1>1, TableTypes
<1>4. /\ \A d \in Conn \ {c} : room'[d] = room[d]
      /\ room'[c] \in {None, r} /\ (rooms' # table => room'[c] = r)
    BY <1>1, TableTypes
<1>5. Founded'
  <2>1. ASSUME NEW g \in Hash, rooms'[g] # None
        PROVE  at'[rooms'[g]] = g /\ room'[rooms'[g]] = rooms'[g]
    <3>1. CASE rooms'[g] = table[g]
      <4>1. rooms'[g] = rooms[g] /\ rooms[g] \in Conn \ {c}
          BY <1>1, <1>2, <2>1, <3>1, TableTypes
      <4> DEFINE q == rooms[g]
      <4>2. q \in Conn \ {c} /\ rooms'[g] = q /\ at[q] = g /\ room[q] = q
          BY <1>1, <4>1, TableTypes DEF Founded
      <4> HIDE DEF q
      <4>3. at'[q] = g /\ room'[q] = q
          BY <1>3, <1>4, <4>2
      <4> QED
          BY <4>2, <4>3
    <3>2. CASE rooms'[g] # table[g]
      <4>1. rooms' = [table EXCEPT ![h] = r] /\ rooms' # table
          BY <3>2
      <4>2. g = h /\ rooms'[g] = r
          BY <3>2, <4>1
      <4>3. CASE r = c
          BY <1>3, <1>4, <4>1, <4>2, <4>3
      <4>4. CASE r # c
        <5>1. r = rooms[h]
            BY <4>4
        <5> QED
            BY <1>1, <1>3, <1>4, <4>2, <4>4, <5>1, TableTypes DEF Founded
      <4> QED
          BY <4>3, <4>4
    <3> QED
        BY <3>1, <3>2
  <2>2. \A d \in Conn : pc'[d] = "new" => at'[d] = None
      BY <1>1, <1>3 DEF Founded
  <2>3. \A d \in Conn : expired'[d] => room'[d] = d
      BY <1>1, <1>2, <1>4 DEF Founded
  <2> QED
      BY <2>1, <2>2, <2>3 DEF Founded
<1>6. Retired'
  <2> SUFFICES ASSUME NEW a \in Actor, retiring'[a] # None
               PROVE  /\ expired[retiring'[a]] /\ peers'[retiring'[a]] \subseteq todo'[a]
                      /\ a \in Conn => pc'[a] = "retiring" /\ at'[retiring'[a]] = at'[a]
      BY DEF Retired
  <2>1. a # c /\ retiring'[a] = retiring[a] /\ todo'[a] = todo[a]
      OBVIOUS
  <2>2. retiring[a] \in Conn \ {c} /\ expired[retiring[a]]
      BY <1>1, <1>2, <2>1, TableTypes DEF Retired
  <2>3. peers'[retiring[a]] \subseteq peers[retiring[a]]
      BY <2>2
  <2> QED
      BY <1>1, <1>3, <2>1, <2>2, <2>3 DEF Retired
<1>7. Replayed'
  <2> SUFFICES ASSUME NEW d \in Conn, ~expired[d] \/ peers'[d] # {}
               PROVE  last'[d] = seq[d]
      BY DEF Replayed
  <2>1. last'[d] = last[d]
      OBVIOUS
  <2>2. ~expired[d] \/ peers[d] # {}
      OBVIOUS
  <2> QED
      BY <1>1, <2>1, <2>2 DEF Replayed
<1> QED
    BY <1>5, <1>6, <1>7 DEF Founding

-----------------------------------------------------------------------------
(* Every step is of one of the kinds *)

\* A step of the relay, by what it does to the wire.
Kinds ==
    \/ Muted
    \/ \E c \in Conn :
          \/ \E T, f : Utters(c, T, f)
          \/ \E x \in {"serve", "leave"} : Settles(c, x) \/ \E T : Announces(c, x, T)
          \/ Takes(c) \/ Loses(c) \/ Closes(c)
          \/ \E r, X : Admitted(c, r, X)

\* A frame taken or lost takes its task no further.
LEMMA WireReads ==
    ASSUME TypeInv, Wire, NEW p \in Conn, Takes(p) \/ Loses(p)
    PROVE  Wire'
<1>1. Shortens(p)
    BY DEF Takes, Loses
<1>2. \/ bad' = bad
      \/ /\ KindOf[p] = "ws" /\ Head(writes[p]).t \notin {"welcome", "reply"}
         /\ bad' = [bad EXCEPT ![Head(writes[p]).by] = @ \cup {p}]
    BY DEF Takes, Loses
<1> QED
    BY <1>1, <1>2, WireShortens

\* No kind of step leaves anybody in the dark.
LEMMA KindsKeep ==
    ASSUME TypeInv, TypeInv', Bookkeeping, Wire, Tidings, Kinds
    PROVE  Wire' /\ Tidings'
<1>1. CASE Muted
    BY <1>1, WireMuted, TidingsMuted
<1>2. ASSUME NEW c \in Conn, NEW T, NEW f, Utters(c, T, f)  PROVE Wire' /\ Tidings'
    BY <1>2, WireUtters, TidingsUtters
<1>3. ASSUME NEW c \in Conn, NEW x \in {"serve", "leave"}, Settles(c, x)
      PROVE  Wire' /\ Tidings'
    BY <1>3, WireSettles, TidingsSettles
<1>4. ASSUME NEW c \in Conn, NEW x \in {"serve", "leave"}, NEW T, Announces(c, x, T)
      PROVE  Wire' /\ Tidings'
  <2>1. Wire'
      BY <1>4, WireAnnounces
  <2> QED
      BY <1>4, <2>1, TidingsAnnounces
<1>5. ASSUME NEW c \in Conn, Takes(c) \/ Loses(c)  PROVE Wire' /\ Tidings'
    BY <1>5, WireReads, TidingsTakes, TidingsLoses
<1>6. ASSUME NEW c \in Conn, Closes(c)  PROVE Wire' /\ Tidings'
    BY <1>6, WireCloses, TidingsCloses
<1>7. ASSUME NEW c \in Conn, NEW r, NEW X, Admitted(c, r, X)  PROVE Wire' /\ Tidings'
  <2>1. Wire'
      BY <1>7, WireAdmitted
  <2> QED
      BY <1>7, <2>1, TidingsAdmitted
<1> QED
    BY <1>1, <1>2, <1>3, <1>4, <1>5, <1>6, <1>7 DEF Kinds

\* _join from its lookup on, whatever rooms it finds.
LEMMA EnterInforms ==
    ASSUME TypeInv, Founding, NEW c \in Conn, NEW h \in Hash, NEW table, NEW lines, NEW P, NEW N,
           Enter(c, h, table, lines, P, N), room[c] = None, pc[c] \in {"new", "retiring"},
           UNCHANGED <<told, held, bad, id, leave, seq, author, expired>>,
           table \in [Hash -> Conn \cup {None}], \A g \in Hash : table[g] \in {rooms[g], None},
           table[h] # None => ~expired[table[h]],
           P \in [Conn -> SUBSET Conn], \A d \in Conn : P[d] \subseteq peers[d],
           lines \in [Conn -> Lines],
           \A d \in Conn : /\ lines[d] \in {"up", "opening"} => line[d] \in {"up", "opening"}
                           /\ lines[d] = "opening" => line[d] = "opening"
                           /\ line[d] = "ended" => lines[d] = "ended",
           at' = [at EXCEPT ![c] = h] \/ (at' = at /\ at[c] = h),
           \A d \in Conn : last'[d] = last[d] \/ (expired[d] /\ P[d] = {}),
           retiring'[c] = None,
           \A a \in Actor \ {c} : retiring'[a] = retiring[a] /\ todo'[a] = todo[a]
    PROVE  Kinds /\ Founding'
<1> DEFINE r == IF table[h] = None THEN c ELSE table[h]
<1>1. TypeOK /\ Founded /\ Replayed
    BY DEF TypeInv, Founding
<1>2. r \in Conn /\ ~expired[r] /\ last[r] = seq[r]
  <2>1. r \in Conn /\ ~expired[r]
      BY <1>1, TableTypes DEF Founded
  <2> QED
      BY <1>1, <2>1 DEF Replayed
<1>3. CASE /\ rooms' = table /\ peers' = P /\ line' = lines /\ UNCHANGED <<room, writes>>
           /\ pc' = [pc EXCEPT ![c] = "ended"]
  <2>1. pc'[c] = "ended" /\ \A d \in Conn \ {c} : pc'[d] = pc[d]
      BY <1>1, <1>3, TableTypes
  <2>2. Muted
      BY <1>3, <2>1 DEF Muted, Dwindles
  <2>3. Founding'
    <3> HIDE DEF r
    <3>1. r = IF table[h] = None THEN c ELSE table[h]
        BY DEF r
    <3>2. pc'[c] \notin {"new", "retiring"}
        BY <2>1
    <3>3. /\ \A d \in Conn : d # r => peers'[d] \subseteq peers[d]
          /\ \A d \in Conn : last'[d] = last[d] \/ (expired[d] /\ peers'[d] = {})
          /\ UNCHANGED <<expired, seq>> /\ rooms' = table /\ room' = room
        BY <1>3
    <3> QED
        BY <1>2, <2>1, <3>1, <3>2, <3>3, FoundingEntered
  <2> QED
      BY <2>2, <2>3 DEF Kinds
<1>4. CASE /\ rooms' = [table EXCEPT ![h] = r]
           /\ peers' = [P EXCEPT ![r] = @ \cup {c}]
           /\ room' = [room EXCEPT ![c] = r]
           /\ line' = [lines EXCEPT ![c] = IF KindOf[c] = "ws" THEN "up" ELSE "opening"]
           /\ writes' = [writes EXCEPT ![c] = Append(@, Welcome(c, r, P[r]))]
           /\ pc' = [pc EXCEPT ![c] = "welcome"]
  <2> HIDE DEF r
  <2>1. pc'[c] = "welcome" /\ \A d \in Conn \ {c} : pc'[d] = pc[d]
      BY <1>1, <1>4, TableTypes
  <2>2. \A d \in Conn : peers'[d] = IF d = r THEN P[r] \cup {c} ELSE P[d]
      BY <1>2, <1>4
  <2>3. Admitted(c, r, P[r])
    <3> DEFINE f == Welcome(c, r, P[r])
    <3>1. /\ f.by = <<c, "serve">> /\ f.t = "welcome" /\ f.n = seq[r] /\ f.from = None
          /\ f.list = {id[q] : q \in P[r] \cup {c}}
        BY <1>2 DEF Welcome, Roster
    <3>2. f \in Frame
      <4>1. {id[q] : q \in P[r] \cup {c}} \in SUBSET PeerId
        <5>1. id \in [Conn -> PeerId] /\ P[r] \subseteq Conn
            BY <1>1, <1>2, WireTypes
        <5> QED
            BY <5>1
      <4>2. <<c, "serve">> \in Task /\ last[r] \in Nat
        <5>1. last \in [Conn -> Nat]
            BY <1>1, TableTypes
        <5>2. <<c, "serve">> \in Task
            BY TaskIs
        <5> QED
            BY <1>2, <5>1, <5>2
      <4> QED
          BY <4>1, <4>2 DEF Frame, Welcome, Roster
    <3> HIDE DEF f
    <3>3. writes' = [writes EXCEPT ![c] = Append(@, f)]
        BY <1>4 DEF f
    <3>4. \A d \in Conn : peers'[d] = IF d = r THEN P[r] \cup {c} ELSE peers'[d] \cap peers[d]
        BY <2>2
    <3>5. /\ line'[c] = IF KindOf[c] = "ws" THEN "up" ELSE "opening"
          /\ \A d \in Conn \ {c} : line'[d] = lines[d]
        BY <1>4
    <3>6. /\ \A d \in Conn \ {c} :
                /\ line'[d] \in {"up", "opening"} => line[d] \in {"up", "opening"}
                /\ line'[d] = "opening" => line[d] = "opening"
                /\ line[d] = "ended" => line'[d] = "ended"
          /\ line'[c] = IF KindOf[c] = "ws" THEN "up" ELSE "opening"
        BY <3>5
    <3>7. \E g \in Frame : /\ g.by = <<c, "serve">> /\ g.t = "welcome" /\ g.n = seq[r] /\ g.from = None
                           /\ g.list = {id[q] : q \in P[r] \cup {c}}
                           /\ writes' = [writes EXCEPT ![c] = Append(@, g)]
        BY <3>1, <3>2, <3>3
    <3>8. /\ r \in Conn /\ P[r] \subseteq peers[r] /\ room' = [room EXCEPT ![c] = r]
          /\ pc' = [pc EXCEPT ![c] = "welcome"]
        BY <1>2, <1>4
    <3> QED
        BY <3>4, <3>6, <3>7, <3>8 DEF Admitted
  <2>4. Founding'
    <3>1. r = IF table[h] = None THEN c ELSE table[h]
        BY DEF r
    <3>2. pc'[c] \notin {"new", "retiring"}
        BY <2>1
    <3>3. \A d \in Conn : d # r => peers'[d] \subseteq peers[d]
        BY <2>2
    <3>4. \A d \in Conn : last'[d] = last[d] \/ (expired[d] /\ peers'[d] = {})
        BY <1>2, <2>2
    <3>5. /\ rooms' = [table EXCEPT ![h] = r] \/ rooms' = table
          /\ rooms' # table => room' = [room EXCEPT ![c] = r]
          /\ room' = room \/ room' = [room EXCEPT ![c] = r]
        BY <1>4
    <3>6. r \in Conn /\ ~expired[r] /\ \A d \in Conn \ {c} : pc'[d] = pc[d]
        BY <1>2, <2>1
    <3>7. UNCHANGED <<expired, seq>>
        OBVIOUS
    <3> QED
        BY <3>1, <3>2, <3>3, <3>4, <3>5, <3>6, <3>7, FoundingEntered
  <2> QED
      BY <2>3, <2>4 DEF Kinds
<1> QED
    BY <1>3, <1>4 DEF Enter

\* A join that finds no expired room, or an empty one.
LEMMA JoinInforms ==
    ASSUME TypeInv, Founding, NEW c \in Conn, NEW h \in Hash, Join(c, h)
    PROVE  Kinds /\ Founding'
<1> DEFINE stale == rooms[h] # None /\ expired[rooms[h]]
           table == IF stale THEN Forget(rooms[h]) ELSE rooms
<1>1. TypeOK /\ Founded
    BY DEF TypeInv, Founding
<1>2. /\ pc[c] = "new" /\ (stale => peers[rooms[h]] = {})
      /\ at' = [at EXCEPT ![c] = h]
      /\ last' = IF stale THEN [last EXCEPT ![rooms[h]] = 0] ELSE last
      /\ Enter(c, h, table, line, peers, ipConns)
      /\ UNCHANGED <<seq, author, id, leave, bad, told, held, retiring, todo, expired>>
    BY DEF Join, clientVars, retireVars
<1>3. room[c] = None /\ retiring[c] = None
    BY <1>2, NewcomerIs
<1>4. table \in [Hash -> Conn \cup {None}] /\ \A g \in Hash : table[g] \in {rooms[g], None}
    BY <1>1, TableTypes DEF Forget, Forgotten
<1>5. table[h] # None => ~expired[table[h]]
  <2>1. CASE stale
      BY <1>1, <2>1, TableTypes DEF Forget, Forgotten, Founded
  <2>2. CASE ~stale
      BY <2>2
  <2> QED
      BY <2>1, <2>2
<1>6. \A d \in Conn : last'[d] = last[d] \/ (expired[d] /\ peers[d] = {})
    BY <1>1, <1>2, TableTypes
<1>7. peers \in [Conn -> SUBSET Conn] /\ line \in [Conn -> Lines]
    BY <1>1, WireTypes
<1>8. /\ pc[c] \in {"new", "retiring"} /\ retiring'[c] = None
      /\ at' = [at EXCEPT ![c] = h] \/ (at' = at /\ at[c] = h)
      /\ \A a \in Actor \ {c} : retiring'[a] = retiring[a] /\ todo'[a] = todo[a]
    BY <1>2, <1>3
<1>9. /\ Enter(c, h, table, line, peers, ipConns)
      /\ UNCHANGED <<told, held, bad, id, leave, seq, author, expired>>
    BY <1>2
<1> HIDE DEF table, stale
<1> QED
    BY <1>3, <1>4, <1>5, <1>6, <1>7, <1>8, <1>9, EnterInforms

\* A join that goes on once the expired room is retired.
LEMMA JoinRetiredInforms ==
    ASSUME TypeInv, Founding, NEW c \in Conn, NEW p \in Conn, JoinRetired(c, p)
    PROVE  Kinds /\ Founding'
<1> DEFINE q == retiring[c]
           h == at[c]
           P == Without(q, {p})
<1>1. TypeOK /\ Founded /\ Retired
    BY DEF TypeInv, Founding
<1>2. /\ todo[c] = {p} /\ retiring' = [retiring EXCEPT ![c] = None]
      /\ todo' = [todo EXCEPT ![c] = {}] /\ last' = [last EXCEPT ![q] = 0]
      /\ Enter(c, h, Forget(q), CutOff(p), P, Uncharged(q, {p}))
      /\ UNCHANGED <<seq, author, at, id, leave, bad, told, held, expired>>
    BY DEF JoinRetired, clientVars
<1>3. c \in Actor /\ pc[c] = "retiring" /\ room[c] = None /\ h \in Hash /\ q \in Conn
  <2>1. c \in Actor /\ pc[c] = "retiring" /\ q # None /\ h # None
      BY <1>2, ActorsAre DEF TypeInv, Underway
  <2> QED
      BY <1>1, <2>1, TableTypes DEF TypeInv, Placed
<1>4. expired[q] /\ peers[q] \subseteq {p} /\ at[q] = h
    BY <1>1, <1>2, <1>3, ActorsAre DEF Retired
<1>5. /\ Forget(q) \in [Hash -> Conn \cup {None}] /\ Forget(q)[h] = None
      /\ \A g \in Hash : Forget(q)[g] \in {rooms[g], None}
    BY <1>1, <1>3, <1>4, TableTypes DEF Forget, Forgotten
<1>6. /\ P \in [Conn -> SUBSET Conn] /\ P[q] = {}
      /\ \A d \in Conn : P[d] \subseteq peers[d]
    BY <1>1, <1>3, <1>4, TableTypes DEF Without
<1>7. \A d \in Conn : last'[d] = last[d] \/ (expired[d] /\ P[d] = {})
    BY <1>1, <1>2, <1>4, <1>6, TableTypes
<1>8. /\ retiring'[c] = None
      /\ \A a \in Actor \ {c} : retiring'[a] = retiring[a] /\ todo'[a] = todo[a]
    BY <1>1, <1>2, <1>3, TableTypes
<1>9. /\ CutOff(p) \in [Conn -> Lines]
      /\ \A d \in Conn : CutOff(p)[d] = line[d] \/ (CutOff(p)[d] = "closing" /\ line[d] # "ended")
    BY <1>1, WireTypes, Named DEF CutOff
<1> HIDE DEF q, h, P
<1> QED
    BY <1>2, <1>3, <1>5, <1>6, <1>7, <1>8, <1>9, EnterInforms DEF h

\* A handler that reads has nothing on its way.
LEMMA Reads ==
    ASSUME TypeInv, Wire, NEW c \in Conn, Reading(c)
    PROVE  /\ pc[c] = "read" /\ room[c] \in Conn /\ room[c] # None
           /\ Settled(<<c, "serve">>) /\ bad[<<c, "serve">>] = {} /\ <<c, "serve">> \in Task
           /\ peers[room[c]] \subseteq Conn /\ id[c] \in PeerId
<1>1. TypeOK /\ Awaited /\ Cleared /\ pc[c] = "read"
    BY DEF TypeInv, Wire, Reading
<1>2. room[c] \in Conn /\ <<c, "serve">> \in Task
    BY <1>1, Served
<1>3. Settled(<<c, "serve">>) /\ bad[<<c, "serve">>] = {}
    BY <1>1, Idle DEF Cleared
<1> QED
    BY <1>1, <1>2, <1>3, WireTypes

\* A handler that reads a frame, and writes another on account of it.
LEMMA SpeakInforms ==
    ASSUME TypeInv, Wire, NEW c \in Conn,
           \/ Clip(c) \/ RoomWide(c) \/ Answer(c)
           \/ \E p \in Conn : Forward(c, p)
           \/ \E wanted \in OriginId, renamed \in BOOLEAN : HelloTaken(c, wanted, renamed)
    PROVE  \E T, f : Utters(c, T, f)
<1> DEFINE k == <<c, "serve">>
           r == room[c]
<1> USE DEF tables, clipVars, roomVars, connVars, coVars, wireVars, clientVars, retireVars
<1>1. TypeOK
    BY DEF TypeInv
<1>2. Reading(c)
    BY DEF Clip, RoomWide, Answer, Forward, HelloTaken
<1>3. /\ pc[c] = "read" /\ r \in Conn /\ r # None /\ Settled(k) /\ bad[k] = {} /\ k \in Task
      /\ peers[r] \subseteq Conn /\ id[c] \in PeerId
    BY <1>2, Reads
<1>4. pc \in [Conn -> Places] /\ seq \in [Conn -> Nat] /\ held \in [Conn -> Nat]
    BY <1>1, WireTypes
<1>5. k[1] = c /\ k[2] = "serve"
    OBVIOUS
<1>6. UNCHANGED <<peers, told, id, room, leave, line>>
    BY DEF Clip, RoomWide, Answer, Forward, HelloTaken
<1>7. Dwindles
    BY <1>6 DEF Dwindles
<1> HIDE DEF k
<1>8. ASSUME NEW f \in Frame, NEW T, f.by = k, FanOut(k, T, f), UNCHANGED <<seq, author, held>>,
             f.t \in {"wide", "direct", "reply"},
             f.from = None \/ (f.from = id[c] /\ f.t \in {"wide", "direct"}),
             T \subseteq peers[r] \/ (T = {c} /\ f.t = "reply"),
             \A d \in Conn \ {c} : pc'[d] = pc[d],
             T = {} => pc'[c] = "read",
             T # {} => InHand(f, pc', leave')
      PROVE  \E U, g : Utters(c, U, g)
  <2>1. Utters(c, T, f)
      BY <1>3, <1>6, <1>7, <1>8 DEF Utters, k
  <2> QED
      BY <2>1
<1>9. CASE Clip(c)
  <2> DEFINE f == ClipFrame(k, seq[r] + 1)
             T == peers[r] \ {c}
  <2>1. /\ FanOut(k, T, f) /\ pc' = [pc EXCEPT ![c] = After(T)]
        /\ seq' = [seq EXCEPT ![r] = @ + 1] /\ author' = [author EXCEPT ![r] = c]
        /\ held' = [held EXCEPT ![c] = seq[r] + 1]
      BY <1>9 DEF Clip, k
  <2>2. /\ f \in Frame /\ f.by = k /\ f.t = "clip" /\ f.from = None /\ f.n = seq[r] + 1
      BY <1>3, <1>4 DEF ClipFrame, Frame
  <2>3. /\ pc'[c] = After(T) /\ \A d \in Conn \ {c} : pc'[d] = pc[d]
        /\ \A d \in Conn \ {c} : held'[d] = held[d]
      BY <1>4, <2>1
  <2>4. T # {} => InHand(f, pc', leave')
      BY <1>5, <2>2, <2>3 DEF InHand, After
  <2>5. T \subseteq peers[r] /\ (T = {} => pc'[c] = "read")
      BY <2>3 DEF After
  <2> HIDE DEF f
  <2>6. Utters(c, T, f)
      BY <1>3, <1>6, <1>7, <2>1, <2>2, <2>3, <2>4, <2>5 DEF Utters, k
  <2> QED
      BY <2>6
<1>10. CASE RoomWide(c)
  <2> DEFINE f == StampedFrame(k, "wide")
             T == peers[r] \ {c}
  <2>1. FanOut(k, T, f) /\ pc' = [pc EXCEPT ![c] = After(T)] /\ UNCHANGED <<seq, author, held>>
      BY <1>10 DEF RoomWide, k
  <2>2. f \in Frame /\ f.by = k /\ f.t = "wide" /\ f.from = id[c]
      BY <1>3, <1>5 DEF StampedFrame, Frame
  <2>3. pc'[c] = After(T) /\ \A d \in Conn \ {c} : pc'[d] = pc[d]
      BY <1>4, <2>1
  <2>4. T # {} => InHand(f, pc', leave')
      BY <1>5, <2>2, <2>3 DEF InHand, After
  <2>5. T \subseteq peers[r] /\ (T = {} => pc'[c] = "read")
      BY <2>3 DEF After
  <2> HIDE DEF f, T
  <2> QED
      BY <1>8, <2>1, <2>2, <2>3, <2>4, <2>5
<1>11. CASE Answer(c) \/ \E wanted \in OriginId, renamed \in BOOLEAN : HelloTaken(c, wanted, renamed)
  <2> DEFINE f == ReplyFrame(k)
             T == {c}
  <2>1. /\ FanOut(k, T, f) /\ UNCHANGED <<seq, author, held>>
        /\ pc' = [pc EXCEPT ![c] = "answer"] \/ pc' = [pc EXCEPT ![c] = "rename"]
      BY <1>11 DEF Answer, HelloTaken, k
  <2>2. f \in Frame /\ f.by = k /\ f.t = "reply" /\ f.from = None
      BY <1>3 DEF ReplyFrame, Frame
  <2>3. pc'[c] \in {"answer", "rename"} /\ \A d \in Conn \ {c} : pc'[d] = pc[d]
      BY <1>4, <2>1
  <2>4. InHand(f, pc', leave')
      BY <1>5, <2>2, <2>3 DEF InHand
  <2> HIDE DEF f
  <2> QED
      BY <1>8, <2>1, <2>2, <2>3, <2>4
<1>12. ASSUME NEW p \in Conn, Forward(c, p)
       PROVE  \E U, g : Utters(c, U, g)
  <2> DEFINE f == StampedFrame(k, "direct")
             T == {p}
  <2>1. /\ FanOut(k, T, f) /\ pc' = [pc EXCEPT ![c] = "forward"] /\ UNCHANGED <<seq, author, held>>
        /\ p \in peers[r]
      BY <1>12 DEF Forward, k
  <2>2. f \in Frame /\ f.by = k /\ f.t = "direct" /\ f.from = id[c]
      BY <1>3, <1>5 DEF StampedFrame, Frame
  <2>3. pc'[c] = "forward" /\ \A d \in Conn \ {c} : pc'[d] = pc[d]
      BY <1>4, <2>1
  <2>4. InHand(f, pc', leave')
      BY <1>5, <2>2, <2>3 DEF InHand
  <2>5. T \subseteq peers[r] /\ T # {}
      BY <2>1
  <2> HIDE DEF f, T
  <2> QED
      BY <1>8, <2>1, <2>2, <2>3, <2>4, <2>5
<1> QED
    BY <1>9, <1>10, <1>11, <1>12

\* Handlers that announce who is in the room.
LEMMA RosterInforms ==
    ASSUME TypeInv, Wire, NEW c \in Conn,
           \/ Welcomed(c) \/ (Answered(c) /\ pc[c] = "rename")
           \/ (ForwardDone(c) /\ bad[<<c, "serve">>] # {})
           \/ \E wanted \in OriginId \cup {id[c]} : Hello(c, wanted)
    PROVE  \E T : Announces(c, "serve", T)
<1> DEFINE k == <<c, "serve">>
           r == room[c]
<1> USE DEF tables, clipVars, roomVars, connVars, coVars, wireVars, clientVars, retireVars
<1>1. TypeOK /\ Awaited
    BY DEF TypeInv, Wire
<1>2. pc[c] \in {"welcome", "rename", "forward", "read"}
    BY DEF Welcomed, Answered, ForwardDone, Hello, Reading
<1>3. r \in Conn /\ r # None /\ k \in Task
  <2>1. pc[c] \notin {"new", "retiring", "ended"}
      BY <1>2
  <2> QED
      BY <2>1, ServedRoom
<1>4. pc \in [Conn -> Places] /\ peers[r] \subseteq Conn /\ id \in [Conn -> PeerId]
    BY <1>1, <1>3, WireTypes
<1>5. UNCHANGED <<room, seq, author, line, told, held, leave>>
    BY DEF Welcomed, Answered, ForwardDone, Hello
<1>6. ASSUME NEW T, UNCHANGED <<peers, id>>, T = peers[r] \ {c} \/ T = peers[r],
             pc[c] \in {"welcome", "rename"}, Settled(k),
             FanOut(k, T, PeersFrame(k, Roster(peers[r]))), pc' = [pc EXCEPT ![c] = After(T)]
      PROVE  Announces(c, "serve", T)
  <2>1. pc'[c] = After(T) /\ \A d \in Conn \ {c} : pc'[d] = pc[d]
      BY <1>4, <1>6
  <2>2. Roster(peers[r]) = {id'[q] : q \in peers'[r]}
      BY <1>6 DEF Roster
  <2>3. FanOut(k, T, PeersFrame(k, {id'[q] : q \in peers'[r]}))
      BY <1>6, <2>2
  <2>4. T \subseteq peers'[r] /\ peers'[r] \ {c} \subseteq T
      BY <1>6
  <2>5. Dwindles
      BY <1>5, <1>6 DEF Dwindles
  <2> QED
      BY <1>3, <1>5, <1>6, <2>1, <2>3, <2>4, <2>5 DEF Announces
<1>7. CASE Welcomed(c)
  <2>1. Announces(c, "serve", peers[r] \ {c})
      BY <1>6, <1>7 DEF Welcomed
  <2> QED
      BY <2>1
<1>8. CASE Answered(c) /\ pc[c] = "rename"
  <2>1. Announces(c, "serve", peers[r])
      BY <1>6, <1>8 DEF Answered
  <2> QED
      BY <2>1
<1>9. CASE ForwardDone(c) /\ bad[k] # {}
  <2> DEFINE T == peers[r] \ bad[k]
  <2>1. /\ pc[c] = "forward" /\ Settled(k) /\ Drop(r, bad[k]) /\ id' = id
        /\ FanOut(k, T, PeersFrame(k, Roster(T))) /\ pc' = [pc EXCEPT ![c] = After(T)]
      BY <1>9 DEF ForwardDone
  <2>2. peers'[r] = T /\ \A d \in Conn : peers'[d] \subseteq peers[d]
      BY <1>1, <1>3, <2>1, DropsTo
  <2>3. pc'[c] = After(T) /\ \A d \in Conn \ {c} : pc'[d] = pc[d]
      BY <1>4, <2>1
  <2>4. Roster(T) = {id'[q] : q \in peers'[r]}
      BY <2>1, <2>2 DEF Roster
  <2>5. FanOut(k, T, PeersFrame(k, {id'[q] : q \in peers'[r]}))
      BY <2>1, <2>4
  <2>6. Dwindles
      BY <1>5, <2>2 DEF Dwindles
  <2>7. bad[k] \cap peers'[r] = {} /\ T \subseteq peers'[r] /\ peers'[r] \ {c} \subseteq T
      BY <2>2
  <2>8. Announces(c, "serve", T)
      BY <1>3, <1>5, <2>1, <2>3, <2>5, <2>6, <2>7 DEF Announces
  <2> QED
      BY <2>8
<1>10. ASSUME NEW wanted \in OriginId \cup {id[c]}, Hello(c, wanted)
       PROVE  \E T : Announces(c, "serve", T)
  <2> DEFINE T == peers[r]
  <2>1. /\ Reading(c) /\ id' = [id EXCEPT ![c] = wanted] /\ peers' = peers
        /\ FanOut(k, T, PeersFrame(k, {id'[q] : q \in peers[r]})) /\ pc' = [pc EXCEPT ![c] = After(T)]
      BY <1>10 DEF Hello
  <2>2. pc'[c] = After(T) /\ \A d \in Conn \ {c} : pc'[d] = pc[d] /\ id'[d] = id[d]
      BY <1>4, <2>1
  <2>3. FanOut(k, T, PeersFrame(k, {id'[q] : q \in peers'[r]}))
      BY <2>1
  <2>4. Dwindles
      BY <1>5, <2>1 DEF Dwindles
  <2>5. pc[c] = "read" /\ Settled(k)
      BY <2>1, Reads
  <2>6. T = peers'[r]
      BY <2>1
  <2>7. Announces(c, "serve", T)
      BY <1>3, <1>5, <2>2, <2>3, <2>4, <2>5, <2>6 DEF Announces
  <2> QED
      BY <2>7
<1> QED
    BY <1>7, <1>8, <1>9, <1>10

\* Nothing is written to nobody: a departure from a room left empty is an
\* announcement too.
LEMMA DepartureWrites ==
    ASSUME TypeOK, NEW c \in Conn, NEW P \in SUBSET Conn, AfterDeparture(c, P),
           bad[<<c, "leave">>] = {}
    PROVE  /\ FanOut(<<c, "leave">>, P, PeersFrame(<<c, "leave">>, Roster(P)))
           /\ leave' = [leave EXCEPT ![c] = IF P = {} THEN "done" ELSE "fanout"]
<1> DEFINE k == <<c, "leave">>
           f == PeersFrame(k, Roster(P))
<1>1. CASE P # {}
    BY <1>1 DEF AfterDeparture
<1>2. CASE P = {}
  <2>1. leave' = [leave EXCEPT ![c] = "done"] /\ writes' = writes /\ bad' = bad
      BY <1>2 DEF AfterDeparture, wireVars
  <2>2. /\ writes \in [Conn -> Seq(Frame)] /\ bad \in [Task -> SUBSET Conn]
        /\ k \in Task /\ bad[k] = {}
      BY WireTypes, TasksAre
  <2> HIDE DEF k, f
  <2>3. writes' = [p \in Conn |-> IF p \in P /\ ~Full(p) THEN Append(writes[p], f) ELSE writes[p]]
      BY <1>2, <2>1, <2>2
  <2>4. {p \in P : Full(p)} = {}
      BY <1>2
  <2>5. bad' = [bad EXCEPT ![k] = {p \in P : Full(p)}]
      BY <2>1, <2>2, <2>4
  <2> QED
      BY <1>2, <2>1, <2>3, <2>5 DEF FanOut, k, f
<1> QED
    BY <1>1, <1>2

\* Whoever leaves is announced to have left.
LEMMA LeaveInforms ==
    ASSUME TypeInv, Wire, NEW c \in Conn, Depart(c) \/ StreamEnded(c)
    PROVE  \E T : Announces(c, "leave", T)
<1> DEFINE k == <<c, "leave">>
           r == room[c]
<1>1. TypeOK /\ Awaited /\ Cleared /\ Parting
    BY DEF TypeInv, Wire
<1>2. (pc[c] = "read" /\ line[c] = "closing") \/ leave[c] = "due"
    BY DEF Depart, StreamEnded
<1>3. r \in Conn /\ r # None /\ k \in Task /\ peers[r] \in SUBSET Conn
  <2>1. pc[c] \notin {"new", "retiring", "ended"} \/ leave[c] # "no"
      BY <1>2
  <2> QED
      BY <2>1, ServedRoom
<1>4. leave[c] \in {"no", "due"}
    BY <1>1, <1>2 DEF Parting
<1>5. Settled(k) /\ bad[k] = {}
    BY <1>1, <1>4, Idle DEF Cleared
<1>6. /\ pc \in [Conn -> Places] /\ line \in [Conn -> Lines] /\ told \in [Conn -> SUBSET PeerId]
      /\ held \in [Conn -> Nat] /\ leave \in [Conn -> {"no", "due", "fanout", "done"}]
    BY <1>1, WireTypes
<1>7. ASSUME NEW T \in SUBSET Conn, Dwindles, AfterDeparture(c, T), peers'[r] = T, c \notin T,
             UNCHANGED <<room, id, seq, author>>, line'[c] = "ended",
             \A d \in Conn : line'[d] \in {"up", "opening"} => told'[d] = told[d] /\ held'[d] = held[d],
             \A d \in Conn \ {c} : pc'[d] = pc[d],
             pc'[c] = pc[c] \/ (pc[c] = "read" /\ pc'[c] = "ended" /\ Settled(<<c, "serve">>))
      PROVE  Announces(c, "leave", T)
  <2>1. /\ FanOut(k, T, PeersFrame(k, Roster(T)))
        /\ leave' = [leave EXCEPT ![c] = IF T = {} THEN "done" ELSE "fanout"]
      BY <1>1, <1>5, <1>7, DepartureWrites
  <2>2. /\ leave'[c] = IF T = {} THEN "done" ELSE "fanout"
        /\ \A d \in Conn \ {c} : leave'[d] = leave[d]
      BY <1>6, <2>1
  <2>3. Roster(T) = {id'[q] : q \in peers'[r]}
      BY <1>7 DEF Roster
  <2>4. FanOut(k, T, PeersFrame(k, {id'[q] : q \in peers'[r]}))
      BY <2>1, <2>3
  <2> QED
      BY <1>3, <1>5, <1>7, <2>2, <2>4 DEF Announces
<1>8. CASE Depart(c)
  <2> DEFINE T == peers[r] \ {c}
  <2>1. /\ Drop(r, {c}) /\ AfterDeparture(c, T) /\ line' = [line EXCEPT ![c] = "ended"]
        /\ pc[c] = "read" /\ pc' = [pc EXCEPT ![c] = "ended"]
        /\ told' = [told EXCEPT ![c] = {}] /\ held' = [held EXCEPT ![c] = 0]
        /\ UNCHANGED <<room, id, seq, author>>
      BY <1>8 DEF Depart, ForgetClient, clipVars
  <2>2. peers'[r] = T /\ \A d \in Conn : peers'[d] \subseteq peers[d]
      BY <1>1, <1>3, <2>1, DropsTo
  <2>3. /\ line'[c] = "ended" /\ \A d \in Conn \ {c} : line'[d] = line[d]
        /\ pc'[c] = "ended" /\ \A d \in Conn \ {c} : pc'[d] = pc[d]
        /\ \A d \in Conn \ {c} : told'[d] = told[d] /\ held'[d] = held[d]
      BY <1>6, <2>1
  <2>4. Dwindles
      BY <2>2, <2>3 DEF Dwindles
  <2>5. Settled(<<c, "serve">>)
      BY <1>1, <2>1, Idle
  <2>6. T \in SUBSET Conn /\ c \notin T
      BY <1>3
  <2>7. \A d \in Conn : line'[d] \in {"up", "opening"} => told'[d] = told[d] /\ held'[d] = held[d]
      BY <2>3
  <2> HIDE DEF T
  <2> QED
      BY <1>7, <2>1, <2>2, <2>3, <2>4, <2>5, <2>6, <2>7
<1>9. CASE StreamEnded(c)
  <2>1. /\ leave[c] = "due" /\ AfterDeparture(c, peers[r])
        /\ UNCHANGED <<room, id, seq, author, peers, line, pc, told, held>>
      BY <1>9 DEF StreamEnded, clipVars, connVars, clientVars
  <2>2. line[c] = "ended" /\ c \notin peers[r]
      BY <1>1, <1>3, <2>1 DEF Parting, InRoom
  <2>3. Dwindles
      BY <2>1 DEF Dwindles
  <2>4. \A d \in Conn : line'[d] \in {"up", "opening"} => told'[d] = told[d] /\ held'[d] = held[d]
      BY <2>1
  <2> QED
      BY <1>3, <1>7, <2>1, <2>2, <2>3, <2>4
<1> QED
    BY <1>8, <1>9

\* A fan-out is over, and nobody is told of it.
LEMMA DoneInforms ==
    ASSUME TypeInv, Wire, NEW c \in Conn,
           \/ FanOutDone(c) \/ (ForwardDone(c) /\ bad[<<c, "serve">>] = {})
           \/ (Answered(c) /\ pc[c] = "answer") \/ DepartureAnnounced(c)
    PROVE  \E x \in {"serve", "leave"} : Settles(c, x)
<1> DEFINE r == room[c]
<1>1. TypeOK
    BY DEF TypeInv
<1>2. pc[c] \in {"fanout", "forward", "answer"} \/ leave[c] = "fanout"
    BY DEF FanOutDone, ForwardDone, DepartureAnnounced
<1>3. r \in Conn /\ r # None /\ \A x \in {"serve", "leave"} : <<c, x>> \in Task
  <2>1. pc[c] \notin {"new", "retiring", "ended"} \/ leave[c] # "no"
      BY <1>2
  <2> QED
      BY <2>1, ServedRoom
<1>4. UNCHANGED <<writes, told, held, id, room, seq, author, line>>
  <2>1. CASE FanOutDone(c)
      BY <2>1 DEF FanOutDone, clipVars, connVars, clientVars
  <2>2. CASE ForwardDone(c) /\ bad[<<c, "serve">>] = {}
      BY <2>2 DEF ForwardDone, clipVars, connVars, clientVars, wireVars
  <2>3. CASE Answered(c) /\ pc[c] = "answer"
      BY <2>3 DEF Answered, clipVars, connVars, clientVars
  <2>4. CASE DepartureAnnounced(c)
      BY <2>4 DEF DepartureAnnounced, clipVars, connVars, clientVars
  <2> QED
      BY <2>1, <2>2, <2>3, <2>4
<1>5. ASSUME NEW D, Drop(r, D)
      PROVE  Dwindles /\ D \cap peers'[r] = {}
  <2>1. peers'[r] = peers[r] \ D /\ \A d \in Conn : peers'[d] \subseteq peers[d]
      BY <1>1, <1>3, <1>5, DropsTo
  <2> QED
      BY <1>4, <2>1 DEF Dwindles
<1>6. CASE FanOutDone(c)
  <2> DEFINE k == <<c, "serve">>
  <2>1. /\ pc[c] = "fanout" /\ Settled(k) /\ Drop(r, bad[k]) /\ bad' = [bad EXCEPT ![k] = {}]
        /\ pc' = [pc EXCEPT ![c] = "read"] /\ leave' = leave
      BY <1>6 DEF FanOutDone
  <2>2. Settles(c, "serve")
      BY <1>3, <1>4, <1>5, <2>1 DEF Settles
  <2> QED
      BY <2>2
<1>7. CASE ForwardDone(c) /\ bad[<<c, "serve">>] = {}
  <2> DEFINE k == <<c, "serve">>
  <2>1. /\ pc[c] = "forward" /\ Settled(k) /\ Drop(r, bad[k]) /\ bad' = bad /\ bad[k] = {}
        /\ pc' = [pc EXCEPT ![c] = "read"] /\ leave' = leave
      BY <1>7 DEF ForwardDone, wireVars
  <2>2. bad' = [bad EXCEPT ![k] = {}]
    <3>1. bad \in [Task -> SUBSET Conn]
        BY <1>1, WireTypes
    <3> HIDE DEF k
    <3> QED
        BY <2>1, <3>1
  <2>3. Settles(c, "serve")
      BY <1>3, <1>4, <1>5, <2>1, <2>2 DEF Settles
  <2> QED
      BY <2>3
<1>8. CASE Answered(c) /\ pc[c] = "answer"
  <2> DEFINE k == <<c, "serve">>
  <2>1. /\ Settled(k) /\ bad' = [bad EXCEPT ![k] = {}] /\ pc' = [pc EXCEPT ![c] = "read"]
        /\ leave' = leave /\ peers' = peers
      BY <1>8 DEF Answered, roomVars
  <2>2. Dwindles
      BY <1>4, <2>1 DEF Dwindles
  <2>3. Settles(c, "serve")
      BY <1>3, <1>4, <1>8, <2>1, <2>2 DEF Settles
  <2> QED
      BY <2>3
<1>9. CASE DepartureAnnounced(c)
  <2> DEFINE k == <<c, "leave">>
  <2>1. /\ leave[c] = "fanout" /\ Settled(k) /\ Drop(r, bad[k]) /\ bad' = [bad EXCEPT ![k] = {}]
        /\ leave' = [leave EXCEPT ![c] = "done"] /\ pc' = pc
      BY <1>9 DEF DepartureAnnounced
  <2>2. Settles(c, "leave")
      BY <1>3, <1>4, <1>5, <2>1 DEF Settles
  <2> QED
      BY <2>2
<1> QED
    BY <1>6, <1>7, <1>8, <1>9

\* A frame is taken or lost.
LEMMA WriteInforms ==
    ASSUME TypeInv, NEW p \in Conn, Write(p)
    PROVE  Takes(p) \/ Loses(p)
<1> USE DEF tables, clipVars, roomVars, connVars, coVars, clientVars, retireVars
<1>1. CASE Deliver(p)
  <2>1. Shortens(p) /\ bad' = bad
      BY <1>1 DEF Deliver, Shortens
  <2> QED
      BY <1>1, <2>1 DEF Deliver, Takes, Rosters, Clips
<1>2. CASE Lost(p)
  <2>1. Shortens(p) /\ bad' = bad /\ KindOf[p] = "ws" /\ UNCHANGED <<told, held>> /\ line[p] # "up"
      BY <1>2 DEF Lost, Shortens
  <2> QED
      BY <2>1 DEF Loses
<1>3. CASE WriteFails(p)
  <2> DEFINE f == Head(writes[p])
  <2>1. /\ Shortens(p) /\ KindOf[p] = "ws" /\ UNCHANGED <<told, held>>
        /\ f.t = "welcome" => line[p] # "up"
        /\ bad' = IF f.t \in {"welcome", "reply"} THEN bad ELSE [bad EXCEPT ![f.by] = @ \cup {p}]
      BY <1>3 DEF WriteFails, Shortens
  <2>2. writes[p] \in Seq(Frame) /\ writes[p] # <<>> /\ bad \in [Task -> SUBSET Conn]
      BY <2>1, WireTypes DEF TypeInv, Shortens
  <2>3. f \in Frame
      BY <2>2
  <2>4. f.by \in Task
      BY <2>3, ByTask
  <2> HIDE DEF f
  <2>5. line[p] = "up" => f.t # "welcome" /\ (f.t # "reply" => p \in bad'[f.by])
      BY <2>1, <2>2, <2>4
  <2> QED
      BY <2>1, <2>5 DEF Loses, f
<1> QED
    BY <1>1, <1>2, <1>3 DEF Write

\* An event stream closes, and its queue with it.
LEMMA CloseInforms ==
    ASSUME TypeInv, Wire, NEW c \in Conn, StreamEnds(c)
    PROVE  Closes(c)
<1>1. TypeOK /\ Parting /\ line[c] = "closing"
    BY DEF TypeInv, Wire, StreamEnds
<1>2. room[c] \in Conn /\ room[c] # None
  <2>1. line[c] # "down"
      BY <1>1
  <2> QED
      BY <2>1, ServedRoom
<1>3. leave[c] = "no"
    BY <1>1, WireTypes DEF Parting
<1>4. /\ Drop(room[c], {c}) /\ line' = [line EXCEPT ![c] = "ended"]
      /\ leave' = [leave EXCEPT ![c] = "due"] /\ writes' = [writes EXCEPT ![c] = <<>>]
      /\ told' = [told EXCEPT ![c] = {}] /\ held' = [held EXCEPT ![c] = 0]
      /\ UNCHANGED <<bad, id, room, pc, seq, author>>
    BY DEF StreamEnds, ForgetClient, clipVars
<1>5. peers'[room[c]] = peers[room[c]] \ {c} /\ \A d \in Conn : peers'[d] \subseteq peers[d]
    BY <1>1, <1>2, <1>4, DropsTo
<1>6. line'[c] = "ended" /\ \A d \in Conn \ {c} : line'[d] = line[d]
    BY <1>1, <1>4, WireTypes
<1>7. \A d \in Conn \ {c} : told'[d] = told[d] /\ held'[d] = held[d]
    BY <1>1, <1>4, WireTypes
<1>8. Dwindles
    BY <1>5, <1>6 DEF Dwindles
<1> QED
    BY <1>2, <1>3, <1>4, <1>5, <1>6, <1>7, <1>8 DEF Closes

\* Steps that write, read and wait for nothing.
LEMMA MutedInforms ==
    ASSUME TypeInv, NEW c \in Conn,
           \/ \E h \in Hash : JoinRefused(c, h) \/ JoinExpired(c, h)
           \/ PostBegins(c) \/ PostEnds(c) \/ Vanish(c) \/ StreamOpens(c) \/ Expire(c)
           \/ Evict(c) \/ Tick \/ UNCHANGED vars
    PROVE  Muted
<1> USE DEF tables, clipVars, roomVars, connVars, coVars, wireVars, clientVars, retireVars
<1>1. TypeOK /\ pc \in [Conn -> Places] /\ line \in [Conn -> Lines]
    BY WireTypes DEF TypeInv
<1>2. CASE \E h \in Hash : JoinRefused(c, h) \/ JoinExpired(c, h)
  <2>1. /\ pc[c] = "new" /\ UNCHANGED <<peers, line, writes, told, held, bad, id, room, leave, seq, author>>
        /\ pc' = [pc EXCEPT ![c] = "ended"] \/ pc' = [pc EXCEPT ![c] = "retiring"]
      BY <1>2 DEF JoinRefused, JoinExpired
  <2>2. room[c] = None
      BY <2>1 DEF TypeInv, Placed
  <2>3. pc'[c] \in {"ended", "retiring"} /\ \A d \in Conn \ {c} : pc'[d] = pc[d]
      BY <1>1, <2>1
  <2> QED
      BY <2>1, <2>2, <2>3 DEF Muted, Dwindles
<1>3. CASE Vanish(c) \/ StreamOpens(c)
  <2>1. /\ UNCHANGED <<peers, writes, told, held, bad, id, room, leave, seq, author, pc>>
        /\ line[c] \in {"up", "opening"}
        /\ line' \in {[line EXCEPT ![c] = "closing"], [line EXCEPT ![c] = "ended"], [line EXCEPT ![c] = "up"]}
      BY <1>3 DEF Vanish, StreamOpens
  <2>2. line'[c] \in {"closing", "ended", "up"} /\ \A d \in Conn \ {c} : line'[d] = line[d]
      BY <1>1, <2>1
  <2> QED
      BY <2>1, <2>2 DEF Muted, Dwindles
<1>4. CASE \/ PostBegins(c) \/ PostEnds(c) \/ Expire(c) \/ Evict(c) \/ Tick \/ UNCHANGED vars
  <2>1. UNCHANGED <<peers, line, pc, writes, told, held, bad, id, room, leave, seq, author>>
      BY <1>4 DEF PostBegins, PostEnds, Expire, Evict, Tick, vars
  <2> QED
      BY <2>1 DEF Muted, Dwindles
<1> QED
    BY <1>2, <1>3, <1>4

\* A peer of a room that ends is cut off.
LEMMA RetireInforms ==
    ASSUME TypeInv, NEW p \in Conn, (\E a \in Actor : RetireOne(a, p)) \/ SweepRetired(p)
    PROVE  Muted
<1>1. TypeOK
    BY DEF TypeInv
<1>2. PICK r : Drop(r, {p})
    BY DEF RetireOne, SweepRetired
<1>3. /\ line' = CutOff(p)
      /\ UNCHANGED <<writes, told, held, bad, id, room, leave, seq, author, pc>>
    BY DEF RetireOne, SweepRetired, clipVars, coVars, wireVars, clientVars
<1>4. \A d \in Conn : peers'[d] \subseteq peers[d]
    BY <1>1, <1>2, DropsTo
<1>5. \A d \in Conn : line'[d] = line[d] \/ (line'[d] = "closing" /\ line[d] # "ended")
    BY <1>1, <1>3, WireTypes, Named DEF CutOff
<1> QED
    BY <1>3, <1>4, <1>5 DEF Muted, Dwindles

\* What handlers, clients and the clock do to the rooms: they lose peers, and
\* an evicted one its name.
LEMMA FoundingServes ==
    ASSUME TypeInv, Founding, NEW c \in Conn,
           \/ PostBegins(c) \/ Clip(c) \/ RoomWide(c) \/ Answer(c) \/ Vanish(c)
           \/ \E p \in Conn : Forward(c, p)
           \/ \E wanted \in OriginId \cup {id[c]} : Hello(c, wanted)
           \/ \E wanted \in OriginId, renamed \in BOOLEAN : HelloTaken(c, wanted, renamed)
           \/ Serve(c) \/ Farewell(c) \/ Write(c) \/ Evict(c) \/ Tick \/ UNCHANGED vars
    PROVE  Founding'
<1> USE DEF tables, clipVars, roomVars, connVars, coVars, wireVars, clientVars, retireVars
<1>1. TypeOK
    BY DEF TypeInv
<1>2. pc \in [Conn -> Places] /\ peers \in [Conn -> SUBSET Conn]
    BY <1>1, TableTypes
<1>3. ASSUME UNCHANGED <<at, room, retiring, todo, expired, seq, last>>,
             UNCHANGED rooms, UNCHANGED peers,
             \/ pc' = pc
             \/ pc[c] \notin {"new", "retiring"} /\ \E w \in Places \ {"new"} : pc' = [pc EXCEPT ![c] = w]
      PROVE  Founding'
    BY <1>2, <1>3, FoundingCalm
<1>4. ASSUME UNCHANGED <<at, room, retiring, todo, expired, seq, last>>,
             UNCHANGED rooms, \E D : Drop(room[c], D),
             \/ pc' = pc
             \/ pc[c] \notin {"new", "retiring"} /\ \E w \in Places \ {"new"} : pc' = [pc EXCEPT ![c] = w]
      PROVE  Founding'
  <2>1. \A d \in Conn : peers'[d] \subseteq peers[d]
      BY <1>1, <1>4, DropsTo
  <2> QED
      BY <1>2, <1>4, <2>1, FoundingCalm
<1>5. \A T : After(T) \in Places \ {"new"}
    BY DEF After, Places
<1>6. ASSUME NEW w, w \in {"read", "fanout", "forward", "answer", "rename", "ended"}
      PROVE  w \in Places \ {"new"}
    BY <1>6 DEF Places
<1>7. CASE \/ PostBegins(c) \/ PostEnds(c) \/ Vanish(c) \/ StreamOpens(c) \/ StreamEnded(c)
           \/ Write(c) \/ Tick \/ UNCHANGED vars
  <2>1. UNCHANGED <<at, room, retiring, todo, expired, seq, last, rooms, peers, pc>>
      BY <1>7 DEF PostBegins, PostEnds, Vanish, StreamOpens, StreamEnded, Write, Deliver, Lost,
                  WriteFails, Tick, vars
  <2> QED
      BY <1>3, <2>1
<1>8. CASE \/ RoomWide(c) \/ Answer(c) \/ (\E p \in Conn : Forward(c, p))
           \/ (\E wanted \in OriginId \cup {id[c]} : Hello(c, wanted))
           \/ (\E wanted \in OriginId, renamed \in BOOLEAN : HelloTaken(c, wanted, renamed))
           \/ Welcomed(c) \/ Answered(c)
  <2>1. UNCHANGED <<at, room, retiring, todo, expired, seq, last, rooms, peers>>
      BY <1>8 DEF RoomWide, Answer, Forward, Hello, HelloTaken, Welcomed, Answered
  <2>2. pc[c] \in {"read", "welcome", "answer", "rename"}
      BY <1>8 DEF RoomWide, Answer, Forward, Hello, HelloTaken, Welcomed, Answered, Reading
  <2>3. \E w \in Places \ {"new"} : pc' = [pc EXCEPT ![c] = w]
      BY <1>5, <1>6, <1>8 DEF RoomWide, Answer, Forward, Hello, HelloTaken, Welcomed, Answered
  <2> QED
      BY <1>3, <2>1, <2>2, <2>3
<1>9. CASE \/ FanOutDone(c) \/ ForwardDone(c) \/ Depart(c) \/ StreamEnds(c)
           \/ DepartureAnnounced(c)
  <2>1. UNCHANGED <<at, room, retiring, todo, expired, seq, last, rooms>>
      BY <1>9 DEF FanOutDone, ForwardDone, Depart, StreamEnds, DepartureAnnounced
  <2>2. \E D : Drop(room[c], D)
      BY <1>9 DEF FanOutDone, ForwardDone, Depart, StreamEnds, DepartureAnnounced
  <2>3. \/ pc' = pc
        \/ /\ pc[c] \in {"fanout", "forward", "read"}
           /\ \E w \in Places \ {"new"} : pc' = [pc EXCEPT ![c] = w]
      BY <1>5, <1>6, <1>9 DEF FanOutDone, ForwardDone, Depart, StreamEnds, DepartureAnnounced
  <2> QED
      BY <1>4, <2>1, <2>2, <2>3
<1>10. CASE Clip(c)
  <2> DEFINE r == room[c]
  <2>1. /\ UNCHANGED <<at, room, retiring, todo, expired, rooms, peers>>
        /\ pc[c] = "read" /\ pc' = [pc EXCEPT ![c] = After(peers[r] \ {c})]
        /\ seq' = [seq EXCEPT ![r] = @ + 1] /\ last' = [last EXCEPT ![r] = seq[r] + 1]
      BY <1>10 DEF Clip, Reading
  <2>2. seq \in [Conn -> Nat] /\ last \in [Conn -> Nat]
      BY <1>1, TableTypes
  <2>3. \A d \in Conn : last[d] = seq[d] => last'[d] = seq'[d]
      BY <2>1, <2>2
  <2>4. \A d \in Conn : \/ pc'[d] = pc[d]
                        \/ pc[d] \notin {"new", "retiring"} /\ pc'[d] # "new"
      BY <1>2, <1>5, <2>1
  <2> QED
      BY <2>1, <2>3, <2>4, FoundingCalm
<1>11. CASE Evict(c)
  <2>1. UNCHANGED <<at, room, retiring, todo, expired, seq, last, peers, pc>>
      BY <1>11 DEF Evict
  <2>2. \A h \in Hash : rooms'[h] \in {rooms[h], None}
      BY <1>11 DEF Evict, Forget, Forgotten
  <2> QED
      BY <2>1, <2>2, FoundingCalm
<1> QED
    BY <1>7, <1>8, <1>9, <1>10, <1>11 DEF Serve, Farewell

\* The sweeper wakes, and finds rooms of this process.
LEMMA SweepInforms ==
    ASSUME TypeInv, Founding, Sweep
    PROVE  Muted /\ Founding'
<1> DEFINE S == {rooms[h] : h \in Hash} \ {None}
<1>1. TypeOK
    BY DEF TypeInv
<1>2. /\ SweepOn(S, rooms, last)
      /\ UNCHANGED <<at, room, expired, pc, seq, peers, line, writes, told, held, bad, id, leave,
                     author>>
    BY DEF Sweep, roomVars, connVars, coVars, wireVars, clientVars
<1>3. S \in SUBSET Conn
    BY <1>1, TableTypes
<1>4. Muted
    BY <1>2 DEF Muted, Dwindles
<1>5. /\ \A h \in Hash : rooms[h] \in {rooms[h], None}
      /\ \A d \in Conn : peers'[d] \subseteq peers[d]
      /\ \A r \in Conn : last[r] = last[r] \/ (expired[r] /\ peers'[r] = {})
    BY <1>2
<1> HIDE DEF S
<1>6. UNCHANGED <<at, room, expired, pc, seq>>
    BY <1>2
<1> QED
    BY <1>2, <1>3, <1>4, <1>5, <1>6, FoundingSweeps

\* Every step is of one of the kinds, and keeps names to their rooms.
LEMMA StepsInform ==
    ASSUME TypeInv, Wire, Founding, [Next]_vars
    PROVE  Kinds /\ Founding'
<1>1. ASSUME NEW c \in Conn, \/ Clip(c) \/ RoomWide(c) \/ Answer(c)
                             \/ \E p \in Conn : Forward(c, p)
                             \/ \E wanted \in OriginId, renamed \in BOOLEAN :
                                    HelloTaken(c, wanted, renamed)
      PROVE  Kinds /\ Founding'
  <2>1. \E T, f : Utters(c, T, f)
      BY <1>1, SpeakInforms
  <2>2. Founding'
      BY <1>1, FoundingServes
  <2> QED
      BY <2>1, <2>2 DEF Kinds
<1>2. ASSUME NEW c \in Conn, \E wanted \in OriginId \cup {id[c]} : Hello(c, wanted)
      PROVE  Kinds /\ Founding'
  <2>1. \E T : Announces(c, "serve", T)
      BY <1>2, RosterInforms
  <2>2. Founding'
      BY <1>2, FoundingServes
  <2> QED
      BY <2>1, <2>2 DEF Kinds
<1>3. ASSUME NEW c \in Conn, Serve(c)
      PROVE  Kinds /\ Founding'
  <2>1. Founding'
      BY <1>3, FoundingServes
  <2>2. CASE \/ Welcomed(c) \/ (Answered(c) /\ pc[c] = "rename")
             \/ (ForwardDone(c) /\ bad[<<c, "serve">>] # {})
    <3>1. \E T : Announces(c, "serve", T)
        BY <2>2, RosterInforms
    <3> QED
        BY <2>1, <3>1 DEF Kinds
  <2>3. CASE \/ FanOutDone(c) \/ (ForwardDone(c) /\ bad[<<c, "serve">>] = {})
             \/ (Answered(c) /\ pc[c] = "answer")
    <3>1. \E x \in {"serve", "leave"} : Settles(c, x)
        BY <2>3, DoneInforms
    <3> QED
        BY <2>1, <3>1 DEF Kinds
  <2>4. CASE Depart(c)
    <3>1. \E T : Announces(c, "leave", T)
        BY <2>4, LeaveInforms
    <3> QED
        BY <2>1, <3>1 DEF Kinds
  <2>5. CASE StreamEnds(c)
    <3>1. Closes(c)
        BY <2>5, CloseInforms
    <3> QED
        BY <2>1, <3>1 DEF Kinds
  <2>6. CASE PostEnds(c) \/ StreamOpens(c)
    <3>1. Muted
        BY <2>6, MutedInforms
    <3> QED
        BY <2>1, <3>1 DEF Kinds
  <2>7. Answered(c) => pc[c] \in {"answer", "rename"}
      BY DEF Answered
  <2> QED
      BY <1>3, <2>2, <2>3, <2>4, <2>5, <2>6, <2>7 DEF Serve
<1>4. ASSUME NEW c \in Conn, Farewell(c)
      PROVE  Kinds /\ Founding'
  <2>1. Founding'
      BY <1>4, FoundingServes
  <2>2. CASE StreamEnded(c)
    <3>1. \E T : Announces(c, "leave", T)
        BY <2>2, LeaveInforms
    <3> QED
        BY <2>1, <3>1 DEF Kinds
  <2>3. CASE DepartureAnnounced(c)
    <3>1. \E x \in {"serve", "leave"} : Settles(c, x)
        BY <2>3, DoneInforms
    <3> QED
        BY <2>1, <3>1 DEF Kinds
  <2> QED
      BY <1>4, <2>2, <2>3 DEF Farewell
<1>5. ASSUME NEW c \in Conn, Write(c)
      PROVE  Kinds /\ Founding'
  <2>1. Takes(c) \/ Loses(c)
      BY <1>5, WriteInforms
  <2>2. Founding'
      BY <1>5, FoundingServes
  <2> QED
      BY <2>1, <2>2 DEF Kinds
<1>6. ASSUME NEW c \in Conn, \/ PostBegins(c) \/ Vanish(c) \/ Evict(c)
      PROVE  Kinds /\ Founding'
    BY <1>6, MutedInforms, FoundingServes DEF Kinds
<1>7. ASSUME NEW c \in Conn, Expire(c)
      PROVE  Kinds /\ Founding'
    BY <1>7, MutedInforms, FoundingExpires DEF Kinds
<1>8. ASSUME NEW c \in Conn, NEW h \in Hash, JoinRefused(c, h) \/ JoinExpired(c, h)
      PROVE  Kinds /\ Founding'
  <2>1. Muted
      BY <1>8, MutedInforms
  <2>2. Founding'
      BY <1>8, FoundingAsked
  <2> QED
      BY <2>1, <2>2 DEF Kinds
<1>9. ASSUME NEW a \in Actor, Retire(a)
      PROVE  Kinds /\ Founding'
  <2>1. PICK p \in Conn : \/ RetireOne(a, p) \/ (a \in Conn /\ JoinRetired(a, p))
                          \/ (a = Sweeper /\ SweepRetired(p))
      BY <1>9 DEF Retire
  <2>2. CASE a \in Conn /\ JoinRetired(a, p)
      BY <2>2, JoinRetiredInforms
  <2>3. CASE RetireOne(a, p) \/ SweepRetired(p)
      BY <2>3, RetireInforms, FoundingRetires DEF Kinds
  <2> QED
      BY <2>1, <2>2, <2>3
<1>10. CASE Sweep
    BY <1>10, SweepInforms DEF Kinds
<1>11. CASE Tick \/ UNCHANGED vars
  <2>1. \A c \in Conn : Muted /\ Founding'
      BY <1>11, MutedInforms, FoundingServes
  <2>2. CASE Conn # {}
      BY <2>1, <2>2 DEF Kinds
  <2>3. CASE Conn = {}
    <3>1. Muted
      <4>1. UNCHANGED <<writes, told, held, bad, id, room, leave, seq, author>>
          BY <1>11 DEF Tick, vars, connVars, wireVars, coVars, clientVars, clipVars
      <4> QED
          BY <2>3, <4>1 DEF Muted, Dwindles
    <3>2. Founding'
      <4>1. UNCHANGED <<rooms, at, room, expired, retiring, todo, peers, pc, last, seq>>
          BY <1>11 DEF Tick, vars, connVars, wireVars, coVars, clientVars, clipVars, tables,
                       retireVars, roomVars
      <4> QED
          BY <4>1 DEF Founding, Founded, Retired, Replayed
    <3> QED
        BY <3>1, <3>2 DEF Kinds
  <2> QED
      BY <2>2, <2>3
<1>12. ASSUME NEW c \in Conn, NEW h \in Hash, Join(c, h)
       PROVE  Kinds /\ Founding'
    BY <1>12, JoinInforms
<1> QED
    BY <1>1, <1>2, <1>3, <1>4, <1>5, <1>6, <1>7, <1>8, <1>9, <1>10, <1>11, <1>12
    DEF Next, Environment

\* Every step keeps everybody informed.
LEMMA InformStep ==
    TypeInv /\ TypeInv' /\ Bookkeeping /\ Informing /\ [Next]_vars => Informing'
<1> SUFFICES ASSUME TypeInv, TypeInv', Bookkeeping, Informing, [Next]_vars
             PROVE  Informing'
    OBVIOUS
<1>1. Wire /\ Founding /\ Tidings
    BY DEF Informing, Delivery, Wire, Founding
<1>2. Kinds /\ Founding'
    BY <1>1, StepsInform
<1>3. Wire' /\ Tidings'
    BY <1>1, <1>2, KindsKeep
<1> QED
    BY <1>2, <1>3 DEF Informing, Delivery, Wire, Founding

\* Nobody is in a room to begin with, and nothing is on its way.
LEMMA InformInit == Init => Informing
<1> SUFFICES ASSUME Init  PROVE Informing
    OBVIOUS
<1> USE DEF Init
<1>1. \A p \in Conn : writes[p] = <<>> /\ room[p] = None /\ line[p] = "down"
    OBVIOUS
<1>2. \A s \in Conn, x \in {"serve", "leave"} : bad[<<s, x>>] = {}
    BY DEF Task
<1>3. Aimed /\ Awaited
  <2>1. \A p \in Conn : \A i \in 1..Len(writes[p]) : FALSE
      BY <1>1
  <2>2. Aimed
      BY <1>2, <2>1 DEF Aimed
  <2>3. Awaited
      BY <2>1 DEF Awaited
  <2> QED
      BY <2>2, <2>3
<1>4. Cleared /\ Parting
    BY <1>2 DEF Cleared, Parting, InRoom
<1>5. Founded /\ Retired /\ Replayed
    BY DEF Founded, Retired, Replayed
<1>6. Tidings
    BY <1>1 DEF Tidings, Briefed, Heard
<1> QED
    BY <1>3, <1>4, <1>5, <1>6 DEF Informing, Delivery

\* Once its queue is empty, a reader knows who is there and holds the newest
\* clip; before that, it is told who speaks before it hears them.
LEMMA InformingInforms ==
    ASSUME TypeInv, Bookkeeping, Informing
    PROVE  Informed
<1>1. TypeOK /\ Tidings
    BY DEF TypeInv, Informing
<1>2. ASSUME NEW p \in Conn, UpToDate(p)
      PROVE  /\ Acquainted(p) /\ NoStrangers(p) /\ (author[room[p]] # p => NewestComes(p))
             /\ InRoom(p) /\ writes[p] = <<>> /\ room[p] \in Conn
             /\ \A k \in Task : p \notin bad[k]
  <2>1. InRoom(p) /\ writes[p] = <<>> /\ Heard(p) /\ \A k \in Task : p \notin bad[k]
      BY <1>2 DEF UpToDate, Failing, Heard
  <2>2. ~Doomed(p, pc, bad)
      BY <2>1, TasksAre DEF Doomed
  <2>3. room[p] \in Conn
      BY <1>1, <2>1, WireTypes DEF InRoom
  <2> QED
      BY <1>1, <2>1, <2>2, <2>3 DEF Tidings, Briefed
<1>3. RostersAgree
  <2> SUFFICES ASSUME NEW p \in Conn, UpToDate(p), ~Owed(room[p])
               PROVE  /\ Roster(peers[room[p]]) \subseteq told[p]
                      /\ told[p] \subseteq Roster({q \in Conn : room[q] = room[p]
                                                       /\ (InRoom(q) \/ Dropped(q))})
      BY DEF RostersAgree
  <2>1. /\ Acquainted(p) /\ NoStrangers(p) /\ InRoom(p) /\ writes[p] = <<>> /\ room[p] \in Conn
        /\ \A k \in Task : p \notin bad[k]
      BY <1>2
  <2>2. ASSUME NEW s \in peers[room[p]]
        PROVE  id[s] \in told[p]
    <3>1. s \in Conn /\ room[s] = room[p]
        BY <1>1, <2>1, PeersHere
    <3>2. InRoom(s)
        BY <2>1, <3>1 DEF InRoom
    <3>3. Announced(s, p, pc, bad)
      <4>1. pc[s] # "welcome"
          BY <3>1 DEF Owed
      <4>2. p \notin bad[<<s, "serve">>]
          BY <2>1, <3>1, TasksAre
      <4> QED
          BY <4>1, <4>2 DEF Announced
    <3>4. Meets(p, s)
        BY <2>1, <3>1, <3>2, <3>3 DEF Acquainted
    <3>5. Len(writes[p]) = 0
        BY <2>1
    <3> QED
        BY <3>4, <3>5 DEF Meets, Carries
  <2>3. ASSUME NEW x \in told[p]
        PROVE  \E q \in Conn : room[q] = room[p] /\ id[q] = x /\ (InRoom(q) \/ Dropped(q))
    <3>1. LastIs(writes[p], Rosters, 0) /\ Shown(writes[p], told[p], 0) = told[p]
        BY <2>1 DEF LastIs, Shown
    <3>2. Present(p, x)
      <4>1. 0 \in 0..Len(writes[p])
          BY <2>1
      <4> QED
          BY <2>1, <2>3, <3>1, <4>1 DEF NoStrangers
    <3>3. PICK q \in Conn : room[q] = room[p] /\ id[q] = x /\ leave[q] \in {"no", "due"}
        BY <3>2 DEF Present
    <3>4. leave[q] # "due"
        BY <3>3 DEF Owed
    <3>5. room[q] # None
        BY <2>1, <3>3 DEF InRoom
    <3> QED
        BY <3>3, <3>4, <3>5 DEF Dropped
  <2> QED
      BY <2>2, <2>3 DEF Roster
<1>4. NewestClipReachesAll
  <2> SUFFICES ASSUME NEW p \in Conn, UpToDate(p), author[room[p]] # p
               PROVE  held[p] = seq[room[p]]
      BY DEF NewestClipReachesAll
  <2>1. NewestComes(p) /\ writes[p] = <<>>
      BY <1>2
  <2>2. /\ 0 \in 0..Len(writes[p]) /\ LastIs(writes[p], Clips, 0)
        /\ Given(writes[p], held[p], 0) = held[p]
      BY <2>1 DEF LastIs, Given
  <2> QED
      BY <2>1, <2>2 DEF NewestComes
<1>5. SenderIsKnownOrDropped
  <2> SUFFICES ASSUME NEW p \in Conn, writes[p] # <<>>, line[p] = "up",
                      Head(writes[p]).from # None, InRoom(Head(writes[p]).by[1])
               PROVE  Head(writes[p]).from \in told[p]
      BY DEF SenderIsKnownOrDropped
  <2>1. writes[p] \in Seq(Frame)
      BY <1>1, WireTypes
  <2>2. 1 \in 1..Len(writes[p]) /\ Head(writes[p]) = writes[p][1]
      BY <2>1
  <2>3. Signed(p)
      BY <1>1 DEF Tidings, Briefed, Heard
  <2>4. Vouches(p, 1)
      BY <2>2, <2>3 DEF Signed
  <2> QED
      BY <2>2, <2>4 DEF Vouches, Carries
<1> QED
    BY <1>3, <1>4, <1>5 DEF Informed

\* Whatever is lost, late or dropped, sockets that fail and streams that fill
\* up included: who is in a room is told who is there, gets its newest clip,
\* and hears from nobody it was not told of (main.py:981-1007, 1027-1030).
THEOREM EveryoneIsInformed == Spec => []Informed
<1>1. TypeInv /\ Bookkeeping /\ Informing => Informed
    BY InformingInforms
<1>2. TypeInv /\ TypeInv' /\ Bookkeeping /\ [Next]_vars => Bookkeeping'
    BY BookkeepingStep
<1> QED
    BY <1>1, <1>2, TypeInit, TypeStep, BookkeepingInit, InformInit, InformStep, PTL DEF Spec
=============================================================================
