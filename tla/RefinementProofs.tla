--------------------------- MODULE RefinementProofs ---------------------------
(* Relay implements Membership where rooms have no lifetime cap.  The books  *)
(* (Bookkeeping), the ceilings and one room per name (Capless) hold by       *)
(* RelayProofs; what is added is that a room and the connections in it asked *)
(* for one name.                                                             *)
EXTENDS RelayProofs, RelayRefinement

\* A connection and the Room object it captured asked for the same name.
NamesAgree == \A c \in Conn : room[c] # None => at[c] \in Hash /\ at[room[c]] = at[c]

\* What is known of every state of a relay without a lifetime cap.
Known == TypeInv /\ Bookkeeping /\ Ceilings /\ NameInv /\ NoOrphans /\ NamesAgree

SameMembers == UNCHANGED <<NameOf, CalledAs, Departed>>

\* Membership counts as Relay does.
LEMMA CountsAlike == \A S : Promise!Cardinality(S) = Cardinality(S)
BY DEF Promise!Cardinality, Cardinality

\* The members of a name are the peers of the room it leads to.
LEMMA MembersAre ==
    ASSUME Known, NEW h \in Hash
    PROVE  /\ rooms[h] = None => Promise!Members(h) = {}
           /\ rooms[h] # None => Promise!Members(h) = peers[rooms[h]]
<1>1. Promise!Members(h) = {c \in Conn : InRoom(c) /\ at[c] = h}
    BY ActorsAre DEF Promise!Members, NameOf
<1>2. ASSUME NEW c \in Conn, InRoom(c), at[c] = h
      PROVE  rooms[h] = room[c]
  <2>1. room[c] \in Conn /\ peers[room[c]] # {} /\ at[room[c]] = h
      BY <1>2 DEF Known, TypeInv, TypeOK, InRoom, NamesAgree
  <2> QED
      BY <2>1 DEF Known, NoOrphans, Live
<1>3. ASSUME rooms[h] # None, NEW c \in peers[rooms[h]]
      PROVE  c \in Conn /\ InRoom(c) /\ at[c] = h
  <2>1. rooms[h] \in Conn /\ c \in Conn
      BY <1>3 DEF Known, TypeInv, TypeOK
  <2>2. room[c] = rooms[h]
      BY <2>1 DEF Known, Bookkeeping, Apart
  <2>3. at[rooms[h]] = h
      BY <1>3 DEF Known, NameInv
  <2> QED
      BY <1>3, <2>1, <2>2, <2>3 DEF Known, NamesAgree, InRoom
<1>4. CASE rooms[h] = None
  <2>1. \A c \in Conn : ~(InRoom(c) /\ at[c] = h)
      BY <1>2, <1>4 DEF InRoom
  <2> QED
      BY <1>1, <1>4, <2>1
<1>5. CASE rooms[h] # None
  <2>1. \A c \in Conn : InRoom(c) /\ at[c] = h => c \in peers[rooms[h]]
      BY <1>2 DEF InRoom
  <2> QED
      BY <1>1, <1>3, <1>5, <2>1
<1> QED
    BY <1>4, <1>5

\* The names with members are names in use, and an empty room frees one.
LEMMA OccupiedFit ==
    ASSUME Known, NEW h \in Hash, Promise!Members(h) = {},
           rooms[h] = None => Cardinality(Used(rooms)) < MaxRooms
    PROVE  Cardinality(Promise!Occupied) < MaxRooms
<1>1. Promise!Occupied \subseteq Used(rooms) \ {h}
    BY MembersAre DEF Promise!Occupied, Used
<1>2. IsFiniteSet(Used(rooms)) /\ MaxRooms \in Nat
  <2>1. IsFiniteSet(Hash) /\ Used(rooms) \in SUBSET Hash /\ MaxRooms \in Nat
      BY ConstantsAssumption DEF ConstantsAssumption, Used
  <2> QED
      BY <2>1, FS_Subset
<1>3. IsFiniteSet(Used(rooms) \ {h}) /\ Cardinality(Used(rooms)) \in Nat
    BY <1>2, FS_RemoveElement, FS_CardinalityType
<1>4. /\ Cardinality(Promise!Occupied) \in Nat /\ Cardinality(Used(rooms) \ {h}) \in Nat
      /\ Cardinality(Promise!Occupied) <= Cardinality(Used(rooms) \ {h})
  <2>1. IsFiniteSet(Promise!Occupied)
      BY <1>1, <1>3, FS_Subset
  <2> QED
      BY <1>1, <1>3, <2>1, FS_Subset, FS_CardinalityType
<1>5. CASE rooms[h] = None
  <2>1. Used(rooms) \ {h} = Used(rooms)
      BY <1>5 DEF Used
  <2> QED
      BY <1>2, <1>3, <1>4, <1>5, <2>1
<1>6. CASE rooms[h] # None
  <2>1. h \in Used(rooms)
      BY <1>6 DEF Used
  <2>2. Cardinality(Used(rooms) \ {h}) = Cardinality(Used(rooms)) - 1
      BY <1>2, <2>1, FS_RemoveElement
  <2>3. Cardinality(Used(rooms)) <= MaxRooms
      BY DEF Known, Ceilings
  <2> QED
      BY <1>2, <1>3, <1>4, <2>2, <2>3
<1> QED
    BY <1>5, <1>6

\* An entry is an entry of Membership, and a refusal is nothing.
LEMMA EntersOnce ==
    ASSUME Known, TypeInv', ~MayExpire, NEW c \in Conn, NEW h \in Hash, Join(c, h)
    PROVE  /\ Promise!Enter(c, h) \/ SameMembers
           /\ NamesAgree'
<1> DEFINE r == IF rooms[h] = None THEN c ELSE rooms[h]
<1>1. /\ pc[c] = "new" /\ ~RefusedAtDoor(c) /\ at' = [at EXCEPT ![c] = h]
      /\ Enter(c, h, rooms, line, peers, ipConns) /\ UNCHANGED id
  <2>1. rooms[h] # None => ~expired[rooms[h]]
      BY DEF Known, NameInv, TypeInv, TypeOK
  <2> QED
      BY <2>1 DEF Join
<1>2. /\ room[c] = None /\ at[c] = None /\ peers[c] = {} /\ c \in Vouched
      /\ \A d \in Conn : room[d] # c
  <2>1. at[c] = None /\ room[c] = None
      BY <1>1 DEF Known, NameInv
  <2>2. peers[c] = {}
      BY <2>1 DEF Known, NoOrphans, Live
  <2>3. \A d \in Conn : room[d] # c
      BY <2>1, ActorsAre DEF Known, NamesAgree
  <2> QED
      BY <1>1, <2>1, <2>2, <2>3 DEF RefusedAtDoor
<1>3. /\ at'[c] = h /\ \A d \in Conn \ {c} : at'[d] = at[d]
      /\ r \in Conn /\ (r # c => at[r] = h)
      /\ peers \in [Conn -> SUBSET Conn] /\ room \in [Conn -> Conn \cup {None}]
      /\ id \in [Conn -> PeerId]
    BY <1>1 DEF Known, TypeInv, TypeOK, NameInv
<1>4. CASE peers' = peers /\ UNCHANGED room
  <2>1. \A d \in Conn : InRoom(d)' <=> InRoom(d)
      BY <1>4 DEF InRoom
  <2>2. ~InRoom(c)
      BY <1>2 DEF InRoom
  <2>3. SameMembers
      BY <1>1, <1>3, <1>4, <2>1, <2>2 DEF SameMembers, NameOf, CalledAs, Departed
  <2>4. NamesAgree'
      BY <1>2, <1>3, <1>4 DEF Known, NamesAgree
  <2> QED
      BY <2>3, <2>4
<1>5. CASE /\ ~FullyTaken(r, peers) /\ Admits(c, r, peers[r])
           /\ ~Busy(h, rooms)
           /\ peers' = [peers EXCEPT ![r] = @ \cup {c}]
           /\ room' = [room EXCEPT ![c] = r]
  <2>1. Promise!Members(h) = peers[r]
      BY <1>2, MembersAre
  <2> HIDE DEF r
  <2>2. /\ peers'[r] = peers[r] \cup {c} /\ \A q \in Conn \ {r} : peers'[q] = peers[q]
        /\ room'[c] = r /\ \A d \in Conn \ {c} : room'[d] = room[d]
      BY <1>3, <1>5
  <2>3. /\ InRoom(c)' /\ ~InRoom(c)
        /\ \A d \in Conn \ {c} : InRoom(d)' <=> InRoom(d)
    <3>1. InRoom(c)' /\ ~InRoom(c)
        BY <1>2, <1>3, <2>2, ActorsAre DEF InRoom
    <3>2. ASSUME NEW d \in Conn \ {c}  PROVE InRoom(d)' <=> InRoom(d)
        BY <1>3, <2>2 DEF InRoom
    <3> QED
        BY <3>1, <3>2
  <2>4. /\ NameOf' = [NameOf EXCEPT ![c] = h]
        /\ CalledAs' = [CalledAs EXCEPT ![c] = c]
        /\ Departed' = Departed
    <3>1. id[c] = c
        BY <1>2 DEF Known, Bookkeeping, Apart
    <3>2. NameOf' = [NameOf EXCEPT ![c] = h]
        BY <1>3, <2>3 DEF NameOf
    <3>3. CalledAs' = [CalledAs EXCEPT ![c] = c]
        BY <1>1, <2>3, <3>1 DEF CalledAs
    <3>4. Departed' = Departed
        BY <1>2, <2>2, <2>3 DEF Departed
    <3> QED
        BY <3>2, <3>3, <3>4
  <2>5. c \in Vouched \ Departed /\ NameOf[c] = None
      BY <1>2, <2>3 DEF Departed, NameOf
  <2>6. \A p \in Promise!Members(h) : TokenOf[p] = TokenOf[c]
      BY <1>3, <1>5, <2>1 DEF Admits, Known, Bookkeeping, OneToken
  <2>7. Cardinality(Promise!Members(h)) < MaxPeers
    <3>1. IsFiniteSet(peers[r]) /\ MaxPeers \in Nat
        BY <1>3, ConstantsAssumption, FS_Subset DEF ConstantsAssumption
    <3>2. Cardinality(peers[r]) \in Nat /\ ~(Cardinality(peers[r]) >= MaxPeers)
        BY <1>5, <3>1, FS_CardinalityType DEF FullyTaken
    <3> QED
        BY <2>1, <3>1, <3>2
  <2>8. Promise!Members(h) # {} \/ Cardinality(Promise!Occupied) < MaxRooms
    <3>1. rooms[h] = None => Cardinality(Used(rooms)) < MaxRooms
      <4>1. Cardinality(Used(rooms)) \in Nat /\ MaxRooms \in Nat
        <5>1. IsFiniteSet(Hash) /\ Used(rooms) \in SUBSET Hash
            BY ConstantsAssumption DEF ConstantsAssumption, Used
        <5> QED
            BY <5>1, FS_Subset, FS_CardinalityType, ConstantsAssumption
            DEF ConstantsAssumption
      <4> QED
          BY <1>5, <4>1 DEF Busy
    <3> QED
        BY <3>1, OccupiedFit
  <2>9. Promise!Enter(c, h)
      BY <2>4, <2>5, <2>6, <2>7, <2>8, CountsAlike DEF Promise!Enter
  <2>10. NamesAgree'
    <3>1. at'[r] = h
        BY <1>3
    <3>2. ASSUME NEW d \in Conn \ {c}, room[d] # None
          PROVE  at'[d] \in Hash /\ at'[room[d]] = at'[d]
        BY <1>2, <1>3, <3>2 DEF Known, NamesAgree
    <3> QED
        BY <1>3, <2>2, <3>1, <3>2 DEF NamesAgree
  <2> QED
      BY <2>9, <2>10
<1> QED
    BY <1>1, <1>4, <1>5 DEF Enter

\* A claim is a claim, unless it comes from a peer the relay has dropped.
LEMMA ClaimsOnce ==
    ASSUME Known, NEW c \in Conn, NEW wanted \in OriginId \cup {id[c]}, room[c] \in Conn,
           Hello(c, wanted)
    PROVE  /\ (\E w \in OriginId : Promise!Claim(c, w)) \/ SameMembers
           /\ NamesAgree'
<1>1. /\ UNCHANGED <<peers, room, at>>
      /\ id' = [id EXCEPT ![c] = wanted]
      /\ wanted # id[c] => \A p \in peers[room[c]] : id[p] # wanted
    BY DEF Hello, Taken, tables, roomVars
<1>2. /\ \A d \in Conn : InRoom(d)' <=> InRoom(d)
      /\ \A d \in Conn \ {c} : id'[d] = id[d]
      /\ id'[c] = wanted
    BY <1>1 DEF InRoom, Known, TypeInv, TypeOK
<1>3. NameOf' = NameOf /\ Departed' = Departed /\ NamesAgree'
    BY <1>1, <1>2 DEF NameOf, Departed, Known, NamesAgree
<1>4. CASE InRoom(c) /\ wanted # id[c]
  <2>1. NameOf[c] = at[c] /\ at[c] \in Hash /\ at[c] # None
      BY <1>4, ActorsAre DEF NameOf, Known, NamesAgree, InRoom
  <2>2. rooms[at[c]] = room[c]
    <3>1. peers[room[c]] # {} /\ at[room[c]] = at[c]
        BY <1>4, ActorsAre DEF InRoom, Known, NamesAgree
    <3> QED
        BY <3>1 DEF Known, NoOrphans, Live
  <2>3. Promise!Members(at[c]) = peers[room[c]]
      BY <2>1, <2>2, MembersAre, ActorsAre
  <2>4. \A p \in Promise!Members(NameOf[c]) : CalledAs[p] # wanted
    <3> SUFFICES ASSUME NEW p \in peers[room[c]]  PROVE CalledAs[p] # wanted
        BY <2>1, <2>3
    <3>1. p \in Conn /\ InRoom(p)
        BY ActorsAre DEF Known, TypeInv, TypeOK, Bookkeeping, Apart, InRoom
    <3> QED
        BY <1>1, <1>4, <3>1 DEF CalledAs
  <2>5. CalledAs' = [CalledAs EXCEPT ![c] = wanted]
    <3>1. InRoom(c)' /\ \A d \in Conn \ {c} : CalledAs[d] = IF InRoom(d)' THEN id'[d] ELSE None
        BY <1>2, <1>4 DEF CalledAs
    <3> QED
        BY <1>2, <3>1 DEF CalledAs
  <2>6. wanted \in OriginId /\ Promise!Claim(c, wanted)
      BY <1>3, <1>4, <2>1, <2>4, <2>5 DEF Promise!Claim
  <2> QED
      BY <1>3, <2>6
<1>5. CASE ~(InRoom(c) /\ wanted # id[c])
  <2>1. CalledAs' = CalledAs
      BY <1>2, <1>5 DEF CalledAs
  <2> QED
      BY <1>3, <2>1 DEF SameMembers
<1> QED
    BY <1>4, <1>5

\* A drop loses members of one name, if it loses any.
LEMMA DropsOnce ==
    ASSUME Known, LosesPeers, UNCHANGED at
    PROVE  /\ (\E h \in Hash : \E D \in SUBSET Promise!Members(h) : Promise!Lose(h, D))
              \/ SameMembers
           /\ NamesAgree'
<1>1. PICK r \in Conn, E \in SUBSET Conn :
          peers' = Without(r, E) /\ UNCHANGED <<room, id>>
    BY DEF LosesPeers, Drop
<1> DEFINE D == E \cap peers[r]
<1>2. NamesAgree'
    BY <1>1 DEF Known, NamesAgree
<1>3. peers \in [Conn -> SUBSET Conn] /\ \A q \in Conn : \A c \in peers[q] : room[c] = q
    BY DEF Known, TypeInv, TypeOK, Bookkeeping, Apart
<1>4. /\ \A c \in D : c \in Conn /\ InRoom(c) /\ ~InRoom(c)' /\ room[c] = r
      /\ \A c \in Conn \ D : InRoom(c)' <=> InRoom(c)
  <2>1. peers'[r] = peers[r] \ E /\ \A q \in Conn \ {r} : peers'[q] = peers[q]
      BY <1>1, <1>3 DEF Without
  <2>2. ASSUME NEW c \in D
        PROVE  c \in Conn /\ InRoom(c) /\ ~InRoom(c)' /\ room[c] = r
      BY <1>1, <1>3, <2>1, ActorsAre DEF InRoom
  <2>3. ASSUME NEW c \in Conn \ D  PROVE InRoom(c)' <=> InRoom(c)
    <3>1. room[c] \in Conn \cup {None}
        BY DEF Known, TypeInv, TypeOK
    <3> QED
        BY <1>1, <1>3, <2>1, <3>1 DEF InRoom
  <2> QED
      BY <2>2, <2>3
<1> HIDE DEF D
<1>5. /\ NameOf' = [c \in Conn |-> IF c \in D THEN None ELSE NameOf[c]]
      /\ CalledAs' = [c \in Conn |-> IF c \in D THEN None ELSE CalledAs[c]]
      /\ Departed' = Departed \cup D
  <2>1. NameOf' = [c \in Conn |-> IF c \in D THEN None ELSE NameOf[c]]
      BY <1>4 DEF NameOf
  <2>2. CalledAs' = [c \in Conn |-> IF c \in D THEN None ELSE CalledAs[c]]
      BY <1>1, <1>4 DEF CalledAs
  <2>3. Departed' = Departed \cup D
      BY <1>1, <1>4, ActorsAre DEF Departed
  <2> QED
      BY <2>1, <2>2, <2>3
<1>6. CASE D = {}
  <2>1. SameMembers
      BY <1>5, <1>6 DEF SameMembers, NameOf, CalledAs
  <2> QED
      BY <1>2, <2>1
<1>7. CASE D # {}
  <2>1. at[r] \in Hash /\ \A c \in D : at[c] = at[r]
      BY <1>4, <1>7, ActorsAre DEF Known, NamesAgree
  <2>2. D \in SUBSET Promise!Members(at[r])
      BY <1>4, <2>1 DEF Promise!Members, NameOf
  <2>3. Promise!Lose(at[r], D)
      BY <1>5, <2>2 DEF Promise!Lose
  <2> QED
      BY <1>2, <2>1, <2>2, <2>3
<1> QED
    BY <1>6, <1>7

\* A step that moves nobody is nothing.
LEMMA CalmIsNothing ==
    ASSUME Known, Calm, UNCHANGED at
    PROVE  SameMembers /\ NamesAgree'
BY DEF Known, Calm, SameMembers, NameOf, CalledAs, Departed, InRoom, NamesAgree

\* Every step of the relay is a step of Membership or nothing to it.
LEMMA RefinementStep ==
    ASSUME Known, TypeInv', ~MayExpire, [Next]_vars
    PROVE  (Promise!Next \/ SameMembers) /\ NamesAgree'
<1> USE DEF tables, clipVars, roomVars, connVars, coVars, wireVars, clientVars, retireVars
<1>1. ASSUME UNCHANGED at, Calm \/ LosesPeers
      PROVE  (Promise!Next \/ SameMembers) /\ NamesAgree'
    BY <1>1, DropsOnce, CalmIsNothing DEF Promise!Next
<1>2. ASSUME NEW c \in Conn, Serve(c) \/ Farewell(c) \/ Write(c) \/ Evict(c)
      PROVE  (Promise!Next \/ SameMembers) /\ NamesAgree'
  <2>1. UNCHANGED at
      BY <1>2 DEF Serve, Farewell, Write, Welcomed, FanOutDone, ForwardDone, Answered, PostEnds,
                  StreamOpens, Depart, StreamEnds, StreamEnded, DepartureAnnounced, Deliver,
                  Lost, WriteFails, Evict
  <2>2. Calm \/ LosesPeers
      BY <1>2, OthersLose DEF Known
  <2> QED
      BY <1>1, <2>1, <2>2
<1>3. ASSUME NEW c \in Conn,
             \/ PostBegins(c) \/ Clip(c) \/ RoomWide(c) \/ Answer(c) \/ Vanish(c) \/ Expire(c)
             \/ \E p \in Conn : Forward(c, p)
             \/ \E wanted \in OriginId, renamed \in BOOLEAN : HelloTaken(c, wanted, renamed)
      PROVE  (Promise!Next \/ SameMembers) /\ NamesAgree'
  <2>1. UNCHANGED at
      BY <1>3 DEF PostBegins, Clip, RoomWide, Answer, Forward, HelloTaken, Vanish, Expire
  <2>2. Calm \/ LosesPeers
      BY <1>3, OthersLose DEF Known
  <2> QED
      BY <1>1, <2>1, <2>2
<1>4. ASSUME NEW c \in Conn, NEW wanted \in OriginId \cup {id[c]}, Hello(c, wanted)
      PROVE  (Promise!Next \/ SameMembers) /\ NamesAgree'
  <2>1. room[c] \in Conn
      BY <1>4, Served DEF Hello, Reading, Known
  <2> QED
      BY <1>4, <2>1, ClaimsOnce DEF Promise!Next
<1>5. ASSUME NEW c \in Conn, NEW h \in Hash, Join(c, h)
      PROVE  (Promise!Next \/ SameMembers) /\ NamesAgree'
    BY <1>5, EntersOnce DEF Promise!Next
\* No room is expired, so none is retired.
<1>6. ASSUME NEW c \in Conn, NEW h \in Hash, JoinExpired(c, h)  PROVE FALSE
    BY <1>6 DEF JoinExpired, Known, NameInv, TypeInv, TypeOK
<1>7. ASSUME NEW a \in Actor, Retire(a)  PROVE FALSE
    BY <1>7, ActorsAre DEF Retire, RetireOne, JoinRetired, SweepRetired, Known, NameInv
<1>8. ASSUME NEW c \in Conn, NEW h \in Hash, JoinRefused(c, h)
      PROVE  SameMembers /\ NamesAgree'
  <2>1. /\ pc[c] = "new" /\ at' = [at EXCEPT ![c] = h] /\ UNCHANGED <<peers, room, id>>
      BY <1>8 DEF JoinRefused
  <2>2. /\ room[c] = None /\ \A d \in Conn : room[d] # c
        /\ \A d \in Conn \ {c} : at'[d] = at[d]
    <3>1. at[c] = None /\ room[c] = None
        BY <2>1 DEF Known, NameInv
    <3>2. \A d \in Conn : room[d] # c
        BY <3>1, ActorsAre DEF Known, NamesAgree
    <3>3. \A d \in Conn \ {c} : at'[d] = at[d]
        BY <2>1 DEF Known, TypeInv, TypeOK
    <3> QED
        BY <3>1, <3>2, <3>3
  <2>3. SameMembers
      BY <2>1, <2>2 DEF SameMembers, NameOf, CalledAs, Departed, InRoom
  <2>4. NamesAgree'
    <3>1. \A d \in Conn : room[d] \in Conn \cup {None}
        BY DEF Known, TypeInv, TypeOK
    <3> QED
        BY <2>1, <2>2, <3>1 DEF Known, NamesAgree
  <2> QED
      BY <2>3, <2>4
<1>9. CASE Environment
    BY <1>3, <1>4, <1>5, <1>6, <1>8, <1>9 DEF Environment
<1>10. CASE Sweep
    BY <1>10 DEF Sweep
<1>11. CASE Tick \/ UNCHANGED vars
  <2>1. Calm /\ UNCHANGED at
      BY <1>11 DEF Tick, Calm, vars
  <2> QED
      BY <1>1, <2>1
<1> QED
    BY <1>2, <1>7, <1>9, <1>10, <1>11 DEF Next

\* A relay just started has nobody in a room.
LEMMA RefinementInit == Init => Promise!Init /\ NamesAgree
BY DEF Init, Promise!Init, NameOf, CalledAs, Departed, InRoom, NamesAgree

\* Without a lifetime cap the relay implements Membership: joins, claims and
\* losses take effect at one instant, and nothing else moves anybody (_join,
\* _adopt_identity, _drop_peer).
THEOREM Implements == ASSUME ~MayExpire  PROVE Spec => KeepsMembership
<1>1. TypeInv /\ Bookkeeping /\ Ceilings /\ Capless /\ NamesAgree => Known
    BY DEF Known, Capless
<1>2. Known /\ TypeInv' /\ [Next]_vars
          => [Promise!Next]_<<NameOf, CalledAs, Departed>> /\ NamesAgree'
    BY RefinementStep DEF SameMembers
<1> QED
    BY <1>1, <1>2, TypeInit, TypeStep, BookkeepingInit, BookkeepingStep, CeilingsInit,
       CeilingsStep, CaplessInit, CaplessStep, RefinementInit, PTL
    DEF Spec, KeepsMembership, Promise!Spec
=============================================================================
