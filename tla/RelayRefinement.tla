--------------------------- MODULE RelayRefinement ---------------------------
(* Relay as an implementation of Membership.  Who is in a room is who is in *)
(* the table of a Room object, and the room they think they are in is the   *)
(* one of the name they asked for.                                          *)
EXTENDS Relay

NameOf == [c \in Conn |-> IF InRoom(c) THEN at[c] ELSE None]
CalledAs == [c \in Conn |-> IF InRoom(c) THEN id[c] ELSE None]
Departed == {c \in Conn : room[c] # None /\ ~InRoom(c)}

Promise == INSTANCE Membership WITH
    name <- NameOf, called <- CalledAs, left <- Departed

\* With no lifetime cap the relay keeps the promise of Membership: however
\* joins, claims, departures and failed writes interleave, what a join has
\* looked at still holds when it takes effect, and a dropped peer that talks on
\* is not back in the room (_join, _handle_raw, _drop_peer).
KeepsMembership == Promise!Spec
=============================================================================
