------------------------------- MODULE MCRelay -------------------------------
(* Small instances of Relay: up to four connections, and what they are. *)
EXTENDS RelayRefinement, TLC

CONSTANTS c1, c2, c3, c4, h1, h2, i1, i2, t1

\* Sockets only; a socket and event streams.
AllWs  == [c \in Conn |-> "ws"]
TwoSse == [c \in Conn |-> IF c = c1 THEN "ws" ELSE "sse"]

\* Everybody behind one address; three whose address is not known.
OneIp    == [c \in Conn |-> i1]
OneOfTwo == [c \in Conn |-> IF c = c3 THEN i2 ELSE None]

\* Open sessions; a session locked by all but one of its devices.
NoTokens == [c \in Conn |-> None]
OneOpen  == [c \in Conn |-> IF c = c3 THEN None ELSE t1]

\* Connections and names an instance makes no difference between.
Alike      == Permutations(Conn)
Alike23    == Permutations({c2, c3})
AlikeNames == Permutations(Conn) \cup Permutations({h1, h2})
AlikeRooms == Permutations({c1, c2, c4}) \cup Permutations({h1, h2})
=============================================================================
