------------------------------ MODULE Membership ------------------------------
(***************************************************************************)
(* What a relay promises about who is in which room, with no rooms, tasks  *)
(* or frames: devices that ask for one name are together, under one token, *)
(* each under an id of its own, within the ceilings, and a connection that *)
(* has left stays away.                                                    *)
(*                                                                         *)
(* Admission is one step here.  In backend/main.py it is a coroutine that  *)
(* looks at all of this and may suspend; Relay is shown to implement it in *)
(* RelayRefinement.                                                        *)
(***************************************************************************)
EXTENDS Integers, FiniteSets

CONSTANTS Conn, Hash, OriginId, None, TokenOf, Vouched, MaxPeers, MaxRooms

VARIABLES
    name,       \* the name a connection is in the room of, or None
    called,     \* the id it has there, or None
    left        \* the connections that have been in a room and are not

Members(h) == {c \in Conn : name[c] = h}
Occupied   == {h \in Hash : Members(h) # {}}

Init ==
    /\ name = [c \in Conn |-> None]
    /\ called = [c \in Conn |-> None]
    /\ left = {}

\* A device joins those who are there already (_join).
Enter(c, h) ==
    /\ c \in Vouched \ left /\ name[c] = None
    /\ \A p \in Members(h) : TokenOf[p] = TokenOf[c]
    /\ Cardinality(Members(h)) < MaxPeers
    /\ Members(h) # {} \/ Cardinality(Occupied) < MaxRooms
    /\ name' = [name EXCEPT ![c] = h]
    /\ called' = [called EXCEPT ![c] = c]
    /\ UNCHANGED left

\* It takes an id that nobody with it has (_handle_raw, hello).
Claim(c, wanted) ==
    /\ name[c] # None
    /\ \A p \in Members(name[c]) : called[p] # wanted
    /\ called' = [called EXCEPT ![c] = wanted]
    /\ UNCHANGED <<name, left>>

\* Some of those in one room go, or are dropped (_drop_peer).
Lose(h, D) ==
    /\ D \subseteq Members(h)
    /\ name' = [c \in Conn |-> IF c \in D THEN None ELSE name[c]]
    /\ called' = [c \in Conn |-> IF c \in D THEN None ELSE called[c]]
    /\ left' = left \cup D

Next ==
    \/ \E c \in Conn, h \in Hash : Enter(c, h)
    \/ \E c \in Conn, wanted \in OriginId : Claim(c, wanted)
    \/ \E h \in Hash : \E D \in SUBSET Members(h) : Lose(h, D)

Spec == Init /\ [][Next]_<<name, called, left>>
=============================================================================
