-------------------------- MODULE TransportProofs ---------------------------
(***************************************************************************)
(* That attempts do not get into each other's way, proved for every        *)
(* network, every number of channels and every bound.                      *)
(*                                                                         *)
(* What makes it inductive: a reconnect of this epoch is due only while    *)
(* there is no channel, and a client that wants no connection has none; a  *)
(* pin binds the mode as soon as a connection is wanted, attempt or not;   *)
(* and while the session is open the request for the device's own id is    *)
(* always somewhere: answered, on its way, due again, or lost.             *)
(***************************************************************************)
EXTENDS Transport, SequenceTheorems, TLAPS

\* What the relay says, and what it is told.
Msgs == [t : {"welcome"}, existing : BOOLEAN] \cup [t : {"taken", "pong", "end"}]
        \cup [t : {"error"}, code : Refusals]
Frames == {"hello", "ping"}
Lines == inbox \in Seq(Msgs) /\ out \in Seq(Frames)

\* The types, in three groups; Lines says the rest of them.
TypeClient ==
    /\ channel \in Conn \cup {None} /\ live \subseteq Conn /\ opened \in BOOLEAN
    /\ intent \in {"create", "join"} /\ wantOpen \in BOOLEAN
    /\ mode \in Kind /\ forced \in Kind \cup {None} /\ remembered \in Kind \cup {None}
    /\ failures \in [Kind -> 0..SwitchAfter] /\ stuck \in BOOLEAN
    /\ refusal \in Refusals \cup {None}
    /\ probe \in BOOLEAN /\ beat \in {"off", "on", "due"}
    /\ retry \in Pending /\ idTimer \in Pending
    /\ idRetries \in 0..IdTries /\ told \in BOOLEAN
    /\ welcomes \in 0..2 /\ collided \in BOOLEAN
TypeRelay ==
    /\ asking \in BOOLEAN /\ mute \in BOOLEAN /\ lost \in BOOLEAN
    /\ held \subseteq Conn /\ named \subseteq held /\ late \subseteq held
TypeSpent == spent \in [{"session", "calls", "faults"} -> Nat]

\* The attempt: what there is of it while there is a channel, and while there is none.
Attempts ==
    /\ OneChannel
    /\ NeverStranded
    /\ ~wantOpen => channel = None
    /\ channel = None => ~probe /\ beat = "off"
    /\ "current" \in retry => channel = None
    /\ wantOpen /\ forced # None => mode = forced

\* Where the request for the id is.
Greets  == \E i \in DOMAIN out : out[i] = "hello"
Refused == \E i \in DOMAIN inbox : inbox[i].t = "taken"
Asked == IsOpen => \/ mute \/ Ended \/ lost \/ told
                   \/ channel \in named \/ "current" \in idTimer \/ Greets \/ Refused

\* The inductive invariant.
TransportInv == TypeClient /\ TypeRelay /\ TypeSpent /\ Lines /\ Attempts /\ Asked

-----------------------------------------------------------------------------
(* Lines *)

\* One more at the end of a line.
LEMMA Appended ==
    ASSUME NEW S, NEW s \in Seq(S), NEW e \in S
    PROVE  /\ Append(s, e) \in Seq(S) /\ Append(s, e) # <<>>
           /\ Len(s) \in Nat /\ Len(Append(s, e)) = Len(s) + 1
           /\ \A i \in DOMAIN s : i \in DOMAIN Append(s, e) /\ Append(s, e)[i] = s[i]
           /\ Len(s) + 1 \in DOMAIN Append(s, e) /\ Append(s, e)[Len(s) + 1] = e
BY AppendProperties, LenProperties

\* The first of a line taken off it: every other is still in it, the last at its end.
LEMMA TakenOff ==
    ASSUME NEW S, NEW s \in Seq(S), s # <<>>
    PROVE  /\ Head(s) \in S /\ Tail(s) \in Seq(S)
           /\ \A i \in DOMAIN s : s[i] # Head(s) => \E j \in DOMAIN Tail(s) : Tail(s)[j] = s[i]
           /\ s[Len(s)] # Head(s) => Tail(s) # <<>> /\ Tail(s)[Len(Tail(s))] = s[Len(s)]
<1>1. /\ Head(s) \in S /\ Tail(s) \in Seq(S) /\ Len(Tail(s)) = Len(s) - 1 /\ Head(s) = s[1]
      /\ \A i \in 1..Len(Tail(s)) : Tail(s)[i] = s[i + 1]
    BY HeadTailProperties
<1>2. Len(s) \in Nat /\ Len(s) # 0
    BY EmptySeq, LenProperties
<1>3. DOMAIN s = 1..Len(s) /\ DOMAIN Tail(s) = 1..(Len(s) - 1)
    BY <1>1, LenProperties
<1>4. \A i \in DOMAIN s : i # 1 => i - 1 \in DOMAIN Tail(s) /\ Tail(s)[i - 1] = s[i]
    <2>1. \A i \in 1..Len(s) : i # 1 => i - 1 \in 1..(Len(s) - 1) /\ (i - 1) + 1 = i
        BY <1>2
    <2> QED
        BY <1>1, <1>3, <2>1
<1>5. \A i \in DOMAIN s : s[i] # Head(s) => \E j \in DOMAIN Tail(s) : Tail(s)[j] = s[i]
    BY <1>1, <1>4
<1>6. ASSUME s[Len(s)] # Head(s)
      PROVE  Tail(s) # <<>> /\ Tail(s)[Len(Tail(s))] = s[Len(s)]
    <2>1. Len(s) # 1 /\ Len(s) \in DOMAIN s
        BY <1>1, <1>2, <1>3, <1>6
    <2>2. Len(s) - 1 \in DOMAIN Tail(s) /\ Tail(s)[Len(s) - 1] = s[Len(s)]
        BY <1>4, <2>1
    <2> QED
        BY <1>1, <2>2, EmptySeq
<1> QED
    BY <1>1, <1>5, <1>6

-----------------------------------------------------------------------------
(* Channels *)

\* Closing the channel in use closes all there are.
LEMMA AllClosed ==
    ASSUME TransportInv
    PROVE  Closed = {} /\ (channel = None => live = {}) /\ None \notin Conn
BY TransportAssumption DEF TransportAssumption, TransportInv, Attempts, OneChannel, Closed

\* What lingers is the channel's, if the relay holds it.
LEMMA LateHeld == ASSUME TransportInv PROVE Lingers \subseteq held
BY DEF TransportInv, TypeRelay, Lingers

\* A line that was emptied.
LEMMA Emptied ==
    ASSUME Quiet
    PROVE  Lines' /\ asking' \in BOOLEAN /\ mute' \in BOOLEAN /\ lost' \in BOOLEAN
BY EmptySeq DEF Quiet, Lines

\* A new attempt has the one channel there is, watched by its probe, and is not open.
LEMMA Attempted ==
    ASSUME TransportInv, NEW before, before = {}, Start(before), wantOpen',
           forced' # None => mode' = forced', "current" \notin retry'
    PROVE  /\ Attempts' /\ Asked' /\ Lines'
           /\ channel' \in Conn /\ live' \subseteq Conn /\ opened' = FALSE
           /\ probe' = TRUE /\ beat' = "off" /\ idTimer' \in Pending
           /\ asking' \in BOOLEAN /\ mute' \in BOOLEAN /\ lost' \in BOOLEAN
<1>1. /\ channel' \in Conn /\ live' = {channel'} /\ opened' = FALSE
      /\ probe' = TRUE /\ beat' = "off" /\ idTimer' = Aged(idTimer) /\ Quiet
    BY DEF Start
<1>2. channel' # None
    BY <1>1, AllClosed
<1>3. Attempts'
    BY <1>1, <1>2 DEF Attempts, OneChannel, NeverStranded
<1>4. Asked'
    BY <1>1 DEF Asked, IsOpen
<1> QED
    BY <1>1, <1>3, <1>4, Emptied DEF Aged, Pending

\* Nothing is left of an attempt that is given up, and nothing is asked of it.
LEMMA GivenUp ==
    ASSUME TransportInv, channel' = None, live' = Closed, probe' = FALSE, beat' = "off", Quiet,
           wantOpen' => "current" \in retry' /\ (forced' # None => mode' = forced')
    PROVE  Attempts' /\ Asked' /\ Lines'
<1>1. Attempts'
    BY AllClosed DEF Attempts, OneChannel, NeverStranded
<1>2. Asked'
    BY DEF Asked, IsOpen
<1> QED
    BY <1>1, <1>2, Emptied

-----------------------------------------------------------------------------
(* Steps *)

\* Failures are counted up to SwitchAfter.
LEMMA Counted ==
    ASSUME TransportInv
    PROVE  /\ Failed \in [Kind -> 0..SwitchAfter]
           /\ \A k \in Kind : /\ Other(k) \in Kind
                              /\ [Failed EXCEPT ![k] = 0] \in [Kind -> 0..SwitchAfter]
                              /\ [failures EXCEPT ![k] = 0] \in [Kind -> 0..SwitchAfter]
           /\ [k \in Kind |-> 0] \in [Kind -> 0..SwitchAfter]
<1>1. SwitchAfter \in Nat /\ 0 \in 0..SwitchAfter
    BY TransportAssumption DEF TransportAssumption
<1>2. Failed \in [Kind -> 0..SwitchAfter]
    BY <1>1 DEF Failed, TransportInv, TypeClient
<1>3. \A k \in Kind : \E o \in Kind : o # k
    BY DEF Kind
<1>4. \A k \in Kind : Other(k) \in Kind
    BY <1>3 DEF Other
<1> QED
    BY <1>1, <1>2, <1>4 DEF TransportInv, TypeClient

\* A kind is preferred, the pinned one if there is.
LEMMA PreferredKind ==
    ASSUME TransportInv, NEW pin \in Kind \cup {None}
    PROVE  /\ Preferred(pin) \subseteq Kind
           /\ pin # None => Preferred(pin) = {pin}
BY DEF Preferred, TransportInv, TypeClient, Kind

\* What is spent is counted.
LEMMA Spent ==
    ASSUME TransportInv, NEW what \in {"session", "calls", "faults"}, Spend(what)
    PROVE  TypeSpent'
BY DEF Spend, TransportInv, TypeSpent

\* An attempt that ends: it is refused for good, or the next one is due.
LEMMA DownKeeps == ASSUME TransportInv, channel # None, Down PROVE TransportInv'
<1>1. /\ channel' = None /\ live' = Closed /\ probe' = FALSE /\ beat' = "off"
      /\ Quiet /\ late' = Lingers
      /\ UNCHANGED <<opened, forced, idTimer, idRetries, told, welcomes, collided, held, named, spent>>
    BY DEF Down, ids
<1>2. wantOpen /\ (forced # None => mode = forced)
    BY DEF TransportInv, Attempts
<1>3. CASE GivesUp /\ wantOpen' = FALSE /\ refusal' = None
           /\ UNCHANGED <<intent, stuck, remembered, mode, failures, retry>>
    <2>1. Attempts' /\ Asked' /\ Lines'
        BY <1>1, <1>3, GivenUp
    <2>2. TypeClient'
        BY <1>1, <1>3, AllClosed DEF TransportInv, TypeClient
    <2> QED
        BY <1>1, <2>1, <2>2, Emptied, LateHeld DEF TransportInv, TypeRelay, TypeSpent
<1>4. CASE ~GivesUp /\ NextTry
    <2>1. /\ retry' = retry \cup {"current"} /\ UNCHANGED <<wantOpen, refusal>>
          /\ mode' = (IF Switches THEN Other(mode) ELSE mode)
          /\ failures' = (IF Switches THEN [Failed EXCEPT ![Other(mode)] = 0] ELSE Failed)
          /\ intent' \in {"join", intent} /\ stuck' \in BOOLEAN /\ remembered' \in {None, remembered}
        BY <1>4 DEF NextTry
    <2>2. forced' # None => mode' = forced'
        BY <1>1, <1>2, <2>1 DEF Switches
    <2>3. Attempts' /\ Asked' /\ Lines'
        BY <1>1, <2>1, <2>2, GivenUp
    <2>4. mode' \in Kind /\ failures' \in [Kind -> 0..SwitchAfter]
        BY <2>1, Counted DEF TransportInv, TypeClient
    <2>5. TypeClient'
        BY <1>1, <2>1, <2>4, AllClosed DEF TransportInv, TypeClient, Pending
    <2> QED
        BY <1>1, <2>3, <2>5, Emptied, LateHeld DEF TransportInv, TypeRelay, TypeSpent
<1> QED
    BY <1>3, <1>4 DEF Down

\* What the application asks for.
LEMMA AppKeeps == ASSUME TransportInv, App PROVE TransportInv'
<1>1. ASSUME NEW as \in {"create", "join"}, Connect(as) PROVE TransportInv'
    <2>1. /\ intent' = as /\ wantOpen' = TRUE /\ Anew /\ mode' \in Preferred(forced)
          /\ Start(Closed) /\ retry' = Aged(retry) /\ welcomes' = 0 /\ collided' = FALSE
          /\ \/ late' = Lingers /\ UNCHANGED <<held, named>>
             \/ held' = {} /\ named' = {} /\ late' = {}
          /\ UNCHANGED <<forced, remembered, stuck, refusal, idRetries, told>>
        BY <1>1 DEF Connect
    <2>2. mode' \in Kind /\ (forced' # None => mode' = forced')
        BY <2>1, PreferredKind DEF TransportInv, TypeClient
    <2>3. "current" \notin retry' /\ retry' \in Pending
        BY <2>1 DEF Aged, Pending
    <2>4. /\ Attempts' /\ Asked' /\ Lines'
          /\ channel' \in Conn /\ live' \subseteq Conn /\ opened' = FALSE
          /\ probe' = TRUE /\ beat' = "off" /\ idTimer' \in Pending
          /\ asking' \in BOOLEAN /\ mute' \in BOOLEAN /\ lost' \in BOOLEAN
        BY <2>1, <2>2, <2>3, Attempted, AllClosed
    <2>5. TypeClient'
        <3>1. failures' \in [Kind -> 0..SwitchAfter]
            BY <2>1, Counted DEF Anew
        <3>3. wantOpen' \in BOOLEAN /\ collided' \in BOOLEAN
            BY <2>1
        <3>4. welcomes' \in 0..2
            BY <2>1
        <3>5. intent' \in {"create", "join"}
            BY <1>1, <2>1
        <3>2. /\ forced' \in Kind \cup {None} /\ remembered' \in Kind \cup {None}
              /\ stuck' \in BOOLEAN /\ refusal' \in Refusals \cup {None}
              /\ idRetries' \in 0..IdTries /\ told' \in BOOLEAN
            BY <2>1 DEF TransportInv, TypeClient
        <3> QED
            BY <2>2, <2>3, <2>4, <3>1, <3>2, <3>3, <3>4, <3>5 DEF TypeClient
    <2>6. TypeRelay'
        BY <2>1, <2>4, LateHeld DEF TransportInv, TypeRelay
    <2> QED
        BY <1>1, <2>4, <2>5, <2>6, Spent DEF Connect, TransportInv
<1>2. CASE Close
    <2>1. /\ wantOpen' = FALSE /\ channel' = None /\ live' = Closed /\ probe' = FALSE /\ beat' = "off"
          /\ retry' = Aged(retry) /\ idTimer' = Aged(idTimer) /\ Quiet /\ late' = Lingers
          /\ UNCHANGED <<intent, mode, forced, remembered, failures, stuck, opened, idRetries, told, welcomes,
                         collided, refusal, held, named>>
        BY <1>2 DEF Close, Leave, ids
    <2>2. Attempts' /\ Asked' /\ Lines'
        BY <2>1, GivenUp
    <2>3. TypeClient'
        BY <2>1, AllClosed DEF TransportInv, TypeClient, Aged, Pending
    <2> QED
        BY <1>2, <2>1, <2>2, <2>3, Emptied, LateHeld, Spent DEF Close, TransportInv, TypeRelay
<1>3. ASSUME NEW pin \in Kind \cup {None}, SetTransport(pin) PROVE TransportInv'
    <2>1. forced' = pin /\ TypeSpent'
          /\ UNCHANGED <<idRetries, told, welcomes, collided, refusal, held, named>>
        BY <1>3, Spent DEF SetTransport, ids
    <2>2. CASE ~wantOpen
        <3>1. UNCHANGED <<intent, wantOpen, mode, remembered, failures, stuck, channel, live, opened, probe, beat,
                          retry, idTimer, asking, mute, lost, inbox, out, late>>
            BY <1>3, <2>2 DEF SetTransport, attempt, line
        <3>2. Attempts' /\ Asked'
            BY <2>2, <3>1, AllClosed DEF TransportInv, Attempts, OneChannel, NeverStranded, Asked, IsOpen
        <3>3. TypeClient'
            BY <2>1, <3>1 DEF TransportInv, TypeClient
        <3> QED
            BY <2>1, <3>1, <3>2, <3>3 DEF TransportInv, TypeRelay, Lines
    <2>3. CASE wantOpen
        <3>1. /\ stuck' = FALSE /\ Anew /\ mode' \in Preferred(pin)
              /\ Start(Closed) /\ retry' = Aged(retry) /\ late' = Lingers
              /\ UNCHANGED <<intent, wantOpen, remembered>>
            BY <1>3, <2>3 DEF SetTransport
        <3>2. mode' \in Kind /\ (forced' # None => mode' = forced')
            BY <2>1, <3>1, PreferredKind
        <3>3. "current" \notin retry' /\ retry' \in Pending
            BY <3>1 DEF Aged, Pending
        <3>4. /\ Attempts' /\ Asked' /\ Lines'
              /\ channel' \in Conn /\ live' \subseteq Conn /\ opened' = FALSE
              /\ probe' = TRUE /\ beat' = "off" /\ idTimer' \in Pending
              /\ asking' \in BOOLEAN /\ mute' \in BOOLEAN /\ lost' \in BOOLEAN
            BY <2>3, <3>1, <3>2, <3>3, Attempted, AllClosed
        <3>5. TypeClient'
            BY <2>1, <3>1, <3>2, <3>3, <3>4, Counted DEF Anew, TransportInv, TypeClient
        <3> QED
            BY <2>1, <3>1, <3>4, <3>5, LateHeld DEF TransportInv, TypeRelay
    <2> QED
        BY <2>2, <2>3 DEF TransportInv, TypeClient
<1> QED
    BY <1>1, <1>2, <1>3 DEF App

\* What is read off the inbox: the rest is still there, an end at its end.
LEMMA ReadOff ==
    ASSUME TransportInv, inbox # <<>>, Consumed
    PROVE  /\ Head(inbox) \in Msgs /\ inbox' \in Seq(Msgs)
           /\ Head(inbox).t # "end" /\ Ended => Ended'
           /\ Head(inbox).t # "taken" /\ Refused => Refused'
<1>1. inbox \in Seq(Msgs) /\ inbox' = Tail(inbox)
    BY DEF TransportInv, Lines, Consumed
<1>2. /\ Head(inbox) \in Msgs /\ Tail(inbox) \in Seq(Msgs)
      /\ \A i \in DOMAIN inbox : inbox[i] # Head(inbox) => \E j \in DOMAIN Tail(inbox) : Tail(inbox)[j] = inbox[i]
      /\ inbox[Len(inbox)] # Head(inbox)
         => Tail(inbox) # <<>> /\ Tail(inbox)[Len(Tail(inbox))] = inbox[Len(inbox)]
    BY <1>1, TakenOff
<1>3. ASSUME Head(inbox).t # "end", Ended PROVE Ended'
    <2>1. inbox[Len(inbox)].t = "end"
        BY <1>3 DEF Ended
    <2>2. Tail(inbox) # <<>> /\ Tail(inbox)[Len(Tail(inbox))] = inbox[Len(inbox)]
        BY <1>2, <1>3, <2>1
    <2> QED
        BY <1>1, <2>1, <2>2 DEF Ended
<1>4. ASSUME Head(inbox).t # "taken", Refused PROVE Refused'
    <2>1. PICK i \in DOMAIN inbox : inbox[i].t = "taken"
        BY <1>4 DEF Refused
    <2>2. PICK j \in DOMAIN Tail(inbox) : Tail(inbox)[j] = inbox[i]
        BY <1>2, <1>4, <2>1
    <2> QED
        BY <1>1, <2>1, <2>2 DEF Refused
<1> QED
    BY <1>1, <1>2, <1>3, <1>4

\* One more message on its way to the client, or one more frame to the relay.
LEMMA Says ==
    ASSUME TransportInv, NEW m \in Msgs, inbox' = Append(inbox, m)
    PROVE  /\ inbox' \in Seq(Msgs)
           /\ Refused \/ m.t = "taken" => Refused'
           /\ m.t = "end" => Ended'
<1>1. /\ inbox' \in Seq(Msgs) /\ inbox' # <<>>
      /\ Len(inbox) \in Nat /\ Len(inbox') = Len(inbox) + 1
      /\ \A i \in DOMAIN inbox : i \in DOMAIN inbox' /\ inbox'[i] = inbox[i]
      /\ Len(inbox) + 1 \in DOMAIN inbox' /\ inbox'[Len(inbox) + 1] = m
    BY Appended DEF TransportInv, Lines
<1>2. Refused \/ m.t = "taken" => Refused'
    BY <1>1 DEF Refused
<1>3. m.t = "end" => Ended'
    BY <1>1 DEF Ended
<1> QED
    BY <1>1, <1>2, <1>3

LEMMA Asks ==
    ASSUME TransportInv, NEW f \in Frames, out' = Append(out, f)
    PROVE  out' \in Seq(Frames) /\ (Greets \/ f = "hello" => Greets')
<1>1. /\ out' \in Seq(Frames)
      /\ \A i \in DOMAIN out : i \in DOMAIN out' /\ out'[i] = out[i]
      /\ Len(out) + 1 \in DOMAIN out' /\ out'[Len(out) + 1] = f
    BY Appended DEF TransportInv, Lines
<1> QED
    BY <1>1 DEF Greets

\* What the channel in use reports, short of its welcome.
LEMMA ReceiveKeeps == ASSUME TransportInv, Receive PROVE TransportInv'
<1>1. CASE ReceivePong
    <2>1. /\ channel # None /\ inbox # <<>> /\ Head(inbox).t = "pong" /\ Consumed /\ beat' = "on"
          /\ UNCHANGED <<intent, wantOpen, mode, forced, remembered, failures, stuck, channel, live, opened,
                         probe, retry, idTimer, idRetries, told, welcomes, collided, refusal,
                         asking, mute, lost, out, held, named, late, spent>>
        BY <1>1 DEF ReceivePong, Arrives, life, attempt, ids, line, relay
    <2>2. inbox' \in Seq(Msgs) /\ (Ended => Ended') /\ (Refused => Refused')
        BY <2>1, ReadOff
    <2>3. Asked'
        BY <2>1, <2>2 DEF TransportInv, Asked, IsOpen, Greets
    <2>4. Attempts'
        BY <2>1 DEF TransportInv, Attempts, OneChannel, NeverStranded
    <2>5. TypeClient'
        BY <2>1 DEF TransportInv, TypeClient
    <2> QED
        BY <2>1, <2>2, <2>3, <2>4, <2>5 DEF TransportInv, TypeRelay, TypeSpent, Lines
<1>2. CASE ReceiveError
    <2>1. /\ inbox # <<>> /\ Head(inbox).t = "error" /\ Consumed
          /\ refusal' = (IF opened THEN refusal ELSE Head(inbox).code)
          /\ UNCHANGED <<intent, wantOpen, mode, forced, remembered, failures, stuck, channel, live, opened,
                         probe, beat, retry, idTimer, idRetries, told, welcomes, collided,
                         asking, mute, lost, out, held, named, late, spent>>
        BY <1>2 DEF ReceiveError, Arrives, life, attempt, ids, line, relay
    <2>2. Head(inbox) \in Msgs /\ inbox' \in Seq(Msgs) /\ (Ended => Ended') /\ (Refused => Refused')
        BY <2>1, ReadOff
    <2>3. Asked'
        BY <2>1, <2>2 DEF TransportInv, Asked, IsOpen, Greets
    <2>4. Attempts'
        BY <2>1 DEF TransportInv, Attempts, OneChannel, NeverStranded
    <2>5. refusal' \in Refusals \cup {None}
        BY <2>1, <2>2 DEF TransportInv, TypeClient, Msgs
    <2>6. TypeClient'
        BY <2>1, <2>5 DEF TransportInv, TypeClient
    <2> QED
        BY <2>1, <2>2, <2>3, <2>4, <2>6 DEF TransportInv, TypeRelay, TypeSpent, Lines
<1>3. CASE ReceiveTaken
    <2>1. /\ inbox # <<>> /\ Head(inbox).t = "taken" /\ Consumed
          /\ UNCHANGED <<intent, wantOpen, mode, forced, remembered, failures, stuck, channel, live, opened,
                         probe, beat, retry, welcomes, collided, refusal,
                         asking, mute, lost, out, held, named, late, spent>>
        BY <1>3 DEF ReceiveTaken, Arrives, life, attempt, line, relay
    <2>2. \/ MayReclaim /\ idRetries' = idRetries + 1 /\ idTimer' = idTimer \cup {"current"} /\ told' = told
          \/ told' = TRUE /\ idRetries' = idRetries /\ idTimer' = idTimer
        BY <1>3 DEF ReceiveTaken
    <2>3. Asked'
        BY <2>2 DEF Asked
    <2>4. Attempts'
        BY <2>1 DEF TransportInv, Attempts, OneChannel, NeverStranded
    <2>5. idRetries' \in 0..IdTries
        BY <2>2, TransportAssumption DEF TransportAssumption, TransportInv, TypeClient, MayReclaim
    <2>6. idTimer' \in Pending /\ told' \in BOOLEAN
        BY <2>2 DEF TransportInv, TypeClient, Pending
    <2>7. TypeClient'
        BY <2>1, <2>5, <2>6 DEF TransportInv, TypeClient
    <2> QED
        BY <2>1, <2>3, <2>4, <2>7, ReadOff DEF TransportInv, TypeRelay, TypeSpent, Lines
<1>4. CASE StreamRefused
    <2>1. /\ inbox # <<>> /\ Consumed /\ ~IsOpen /\ asking' = TRUE
          /\ UNCHANGED <<intent, wantOpen, mode, forced, remembered, failures, stuck, channel, live, opened,
                         probe, beat, retry, idTimer, idRetries, told, welcomes, collided, refusal,
                         mute, lost, out, held, named, late, spent>>
        BY <1>4 DEF StreamRefused, Arrives, life, attempt, ids, relay
    <2>2. Asked' /\ Attempts'
        BY <2>1 DEF TransportInv, Asked, IsOpen, Attempts, OneChannel, NeverStranded
    <2>3. TypeClient'
        BY <2>1 DEF TransportInv, TypeClient
    <2> QED
        BY <2>1, <2>2, <2>3, ReadOff DEF TransportInv, TypeRelay, TypeSpent, Lines
<1>5. CASE ReceiveEnd \/ Verdict \/ SessionExpired
    BY <1>5, DownKeeps DEF ReceiveEnd, Arrives, Verdict, SessionExpired, IsOpen
<1> QED
    BY <1>1, <1>2, <1>3, <1>4, <1>5 DEF Receive

\* The welcome: the id is asked for, or the key given up and with it the connection.
LEMMA WelcomeKeeps == ASSUME TransportInv, ReceiveWelcome PROVE TransportInv'
<1>1. /\ channel # None /\ inbox # <<>> /\ Head(inbox).t = "welcome"
      /\ stuck' = FALSE /\ refusal' = None /\ idRetries' = 0 /\ told' = FALSE
      /\ failures' = [failures EXCEPT ![mode] = 0]
      /\ remembered' = (IF forced = None THEN mode ELSE remembered)
      /\ opened' = TRUE /\ welcomes' = (IF welcomes = 2 THEN 2 ELSE welcomes + 1)
      /\ UNCHANGED <<intent, mode, forced, held, named, spent>>
    BY DEF ReceiveWelcome, Up, Arrives
<1>2. /\ failures' \in [Kind -> 0..SwitchAfter] /\ remembered' \in Kind \cup {None}
      /\ welcomes' \in 0..2 /\ idRetries' \in 0..IdTries
    BY <1>1, Counted, TransportAssumption DEF TransportAssumption, TransportInv, TypeClient
<1>3. CASE /\ collided' = TRUE /\ Leave /\ late' = late \cup ({channel} \cap held)
    <2>1. /\ wantOpen' = FALSE /\ channel' = None /\ live' = Closed /\ probe' = FALSE /\ beat' = "off"
          /\ retry' \in Pending /\ idTimer' \in Pending /\ Quiet
        BY <1>3 DEF Leave, Aged, Pending
    <2>2. Attempts' /\ Asked' /\ Lines'
        BY <2>1, GivenUp
    <2>3. TypeClient'
        BY <1>1, <1>2, <1>3, <2>1, AllClosed DEF TransportInv, TypeClient
    <2> QED
        BY <1>1, <1>3, <2>1, <2>2, <2>3, Emptied DEF TransportInv, TypeRelay, TypeSpent
<1>4. CASE /\ ~Collides /\ Consumed
           /\ probe' = FALSE /\ beat' = "on"
           /\ out' = Append(out, "hello")
           /\ UNCHANGED <<collided, wantOpen, channel, live, retry, idTimer, line, late>>
    <2>1. UNCHANGED <<asking, mute, lost>> /\ "hello" \in Frames
        BY <1>4 DEF line, Frames
    <2>2. out' \in Seq(Frames) /\ Greets' /\ inbox' \in Seq(Msgs)
        BY <1>1, <1>4, <2>1, Asks, ReadOff
    <2>3. Asked'
        BY <2>2 DEF Asked
    <2>4. Attempts'
        BY <1>1, <1>4 DEF TransportInv, Attempts, OneChannel, NeverStranded
    <2>5. TypeClient'
        BY <1>1, <1>2, <1>4 DEF TransportInv, TypeClient
    <2> QED
        BY <1>1, <1>4, <2>1, <2>2, <2>3, <2>4, <2>5 DEF TransportInv, TypeRelay, TypeSpent, Lines
<1> QED
    BY <1>3, <1>4 DEF ReceiveWelcome

\* What a timer does: the probe, a reconnect, the heartbeat, the id once more.
LEMMA TimerKeeps == ASSUME TransportInv, Timer PROVE TransportInv'
<1>1. CASE ProbeFires \/ PongOverdue
    BY <1>1, DownKeeps DEF ProbeFires, PongOverdue, TransportInv, Attempts
<1>2. CASE RetryFires
    <2>1. CASE /\ "current" \in retry /\ wantOpen
               /\ Start(live) /\ retry' = Aged(retry \ {"current"})
               /\ UNCHANGED <<life, ids, refusal, relay, spent>>
        <3>1. UNCHANGED <<intent, wantOpen, mode, forced, remembered, failures, stuck,
                          idRetries, told, welcomes, collided, refusal, held, named, late, spent>>
            BY <2>1 DEF life, ids, relay
        <3>2. live = {} /\ wantOpen' /\ (forced' # None => mode' = forced')
            BY <2>1, <3>1, AllClosed DEF TransportInv, Attempts
        <3>3. "current" \notin retry' /\ retry' \in Pending
            BY <2>1 DEF Aged, Pending
        <3>4. /\ Attempts' /\ Asked' /\ Lines'
              /\ channel' \in Conn /\ live' \subseteq Conn /\ opened' = FALSE
              /\ probe' = TRUE /\ beat' = "off" /\ idTimer' \in Pending
              /\ asking' \in BOOLEAN /\ mute' \in BOOLEAN /\ lost' \in BOOLEAN
            BY <2>1, <3>2, <3>3, Attempted
        <3>5. TypeClient'
            BY <3>1, <3>3, <3>4 DEF TransportInv, TypeClient
        <3> QED
            BY <3>1, <3>4, <3>5 DEF TransportInv, TypeRelay, TypeSpent
    <2>2. CASE /\ "stale" \in retry /\ retry' = retry \ {"stale"}
               /\ UNCHANGED <<life, attempt, probe, beat, idTimer, ids, refusal, line, inbox, out, relay, spent>>
        <3>1. UNCHANGED <<intent, wantOpen, mode, forced, remembered, failures, stuck, channel, live, opened,
                          probe, beat, idTimer, idRetries, told, welcomes, collided, refusal,
                          asking, mute, lost, inbox, out, held, named, late, spent>>
            BY <2>2 DEF life, attempt, ids, line, relay
        <3>2. Asked'
            BY <3>1 DEF TransportInv, Asked, IsOpen, Greets, Refused, Ended
        <3>3. Attempts'
            BY <2>2, <3>1 DEF TransportInv, Attempts, OneChannel, NeverStranded
        <3>4. retry' \in Pending
            BY <2>2 DEF TransportInv, TypeClient, Pending
        <3>5. TypeClient'
            BY <3>1, <3>4 DEF TransportInv, TypeClient
        <3> QED
            BY <3>1, <3>2, <3>3, <3>5 DEF TransportInv, TypeRelay, TypeSpent, Lines
    <2> QED
        BY <1>2, <2>1, <2>2 DEF RetryFires
<1>3. CASE Beat
    <2>1. /\ beat = "on" /\ beat' = "due" /\ out' = Append(out, "ping") /\ "ping" \in Frames
          /\ UNCHANGED <<intent, wantOpen, mode, forced, remembered, failures, stuck, channel, live, opened,
                         probe, retry, idTimer, idRetries, told, welcomes, collided, refusal,
                         asking, mute, lost, inbox, held, named, late, spent>>
        BY <1>3 DEF Beat, Frames, life, attempt, ids, line, relay
    <2>2. out' \in Seq(Frames) /\ (Greets => Greets')
        BY <2>1, Asks
    <2>3. Asked'
        BY <2>1, <2>2 DEF TransportInv, Asked, IsOpen, Refused, Ended
    <2>4. Attempts'
        BY <2>1 DEF TransportInv, Attempts, OneChannel, NeverStranded
    <2>5. TypeClient'
        BY <2>1 DEF TransportInv, TypeClient
    <2> QED
        BY <2>1, <2>2, <2>3, <2>4, <2>5 DEF TransportInv, TypeRelay, TypeSpent, Lines
<1>4. CASE ReclaimFires
    <2>1. PICK e \in idTimer : /\ idTimer' = idTimer \ {e}
                               /\ out' = (IF AsksAgain(e) THEN Append(out, "hello") ELSE out)
        BY <1>4 DEF ReclaimFires
    <2>2. UNCHANGED <<intent, wantOpen, mode, forced, remembered, failures, stuck, channel, live, opened,
                      probe, beat, retry, idRetries, told, welcomes, collided, refusal,
                      asking, mute, lost, inbox, held, named, late, spent>>
        BY <1>4 DEF ReclaimFires, life, attempt, ids, line, relay
    <2>3. out' \in Seq(Frames) /\ (Greets \/ AsksAgain(e) => Greets')
        <3>1. CASE AsksAgain(e)
            <4>1. "hello" \in Frames /\ out' = Append(out, "hello")
                BY <2>1, <3>1 DEF Frames
            <4> QED
                BY <4>1, Asks
        <3>2. CASE ~AsksAgain(e)
            BY <2>1, <3>2 DEF Greets, TransportInv, Lines
        <3> QED
            BY <3>1, <3>2
    <2>4. Asked'
        BY <2>1, <2>2, <2>3 DEF TransportInv, Asked, IsOpen, Refused, Ended, AsksAgain
    <2>5. Attempts'
        BY <2>2 DEF TransportInv, Attempts, OneChannel, NeverStranded
    <2>6. idTimer' \in Pending
        BY <2>1 DEF TransportInv, TypeClient, Pending
    <2>7. TypeClient'
        BY <2>2, <2>6 DEF TransportInv, TypeClient
    <2> QED
        BY <2>2, <2>3, <2>4, <2>5, <2>7 DEF TransportInv, TypeRelay, TypeSpent, Lines
<1> QED
    BY <1>1, <1>2, <1>3, <1>4 DEF Timer

\* The client's own state is left alone by the relay and the network.
LEMMA ClientLeft ==
    ASSUME TransportInv, UNCHANGED client
    PROVE  /\ TypeClient' /\ Attempts'
           /\ UNCHANGED <<channel, opened, told, idTimer>>
<1>1. UNCHANGED <<intent, wantOpen, mode, forced, remembered, failures, stuck, channel, live, opened,
                  probe, beat, retry, idTimer, idRetries, told, welcomes, collided, refusal>>
    BY DEF client, life, attempt, ids
<1> QED
    BY <1>1 DEF TransportInv, TypeClient, Attempts, OneChannel, NeverStranded

\* What can go wrong on the way.
LEMMA NetworkKeeps == ASSUME TransportInv, Network PROVE TransportInv'
<1>1. TypeClient' /\ Attempts' /\ UNCHANGED <<channel, opened, told, idTimer>>
    BY ClientLeft DEF Network, Refuse, TurnedDown, Cut, Silence, LosePost
<1>2. TypeSpent'
    <2>1. UNCHANGED spent => TypeSpent'
        BY DEF TransportInv, TypeSpent
    <2> QED
        BY <2>1, Spent DEF Network, Refuse, TurnedDown, Cut, Silence, LosePost, Fault
<1>3. UNCHANGED <<held, named, late, asking>>
    BY DEF Network, Refuse, TurnedDown, Cut, Silence, LosePost, relay, line
<1>4. CASE Refuse
    <2>1. PICK code \in Refusals : inbox' = <<[t |-> "error", code |-> code], [t |-> "end"]>>
        BY <1>4 DEF Refuse
    <2>2. inbox' \in Seq(Msgs)
        BY <2>1 DEF Msgs
    <2>3. ~opened /\ UNCHANGED <<mute, lost, out>>
        BY <1>4 DEF Refuse, Trying, line
    <2> QED
        BY <1>1, <1>2, <1>3, <2>2, <2>3 DEF TransportInv, TypeRelay, Lines, Asked, IsOpen
<1>5. CASE TurnedDown
    <2>1. inbox' \in Seq(Msgs)
        BY <1>5 DEF TurnedDown, Msgs
    <2>2. ~opened /\ UNCHANGED <<mute, lost, out>>
        BY <1>5 DEF TurnedDown, Trying, line
    <2> QED
        BY <1>1, <1>2, <1>3, <2>1, <2>2 DEF TransportInv, TypeRelay, Lines, Asked, IsOpen
<1>6. CASE Cut
    <2>1. inbox' = Append(inbox, [t |-> "end"]) /\ UNCHANGED <<mute, lost, out>>
        BY <1>6 DEF Cut, line
    <2>2. [t |-> "end"] \in Msgs /\ [t |-> "end"].t = "end"
        BY DEF Msgs
    <2>3. inbox' \in Seq(Msgs) /\ Ended'
        BY <2>1, <2>2, Says
    <2> QED
        BY <1>1, <1>2, <1>3, <2>1, <2>3 DEF TransportInv, TypeRelay, Lines, Asked
<1>7. CASE Silence
    <2>1. mute' = TRUE /\ UNCHANGED <<lost, inbox, out>>
        BY <1>7 DEF Silence
    <2> QED
        BY <1>1, <1>2, <1>3, <2>1 DEF TransportInv, TypeRelay, Lines, Asked
<1>8. CASE LosePost
    <2>1. lost' = TRUE /\ out' = <<>> /\ UNCHANGED <<mute, inbox>>
        BY <1>8 DEF LosePost
    <2> QED
        BY <1>1, <1>2, <1>3, <2>1, EmptySeq DEF TransportInv, TypeRelay, Lines, Asked
<1> QED
    BY <1>4, <1>5, <1>6, <1>7, <1>8 DEF Network

\* A connection is admitted.
LEMMA AdmitKeeps == ASSUME TransportInv, Admit PROVE TransportInv'
<1>1. TypeClient' /\ Attempts' /\ UNCHANGED <<channel, opened, told, idTimer>>
    BY ClientLeft DEF Admit
<1>2. /\ channel # None /\ ~opened /\ held' = held \cup {channel}
      /\ UNCHANGED <<asking, mute, lost, out, named, late, spent>>
    BY DEF Admit, Trying, line
<1>3. inbox' \in Seq(Msgs)
    BY DEF Admit, Msgs
<1>4. channel \in Conn
    BY <1>2 DEF TransportInv, TypeClient
<1> QED
    BY <1>1, <1>2, <1>3, <1>4 DEF TransportInv, TypeRelay, TypeSpent, Lines, Asked, IsOpen

\* The relay answers what it is told: an id nobody else has is given.
LEMMA FrameKeeps == ASSUME TransportInv, TakeFrame PROVE TransportInv'
<1>1. TypeClient' /\ Attempts' /\ UNCHANGED <<channel, opened, told, idTimer>>
    BY ClientLeft DEF TakeFrame
<1>2. /\ channel \in held /\ out # <<>> /\ out' = Tail(out)
      /\ UNCHANGED <<asking, mute, lost, held, late, spent>>
    BY DEF TakeFrame, Placed, line
<1>3. /\ Tail(out) \in Seq(Frames)
      /\ \A i \in DOMAIN out : out[i] # Head(out) => \E j \in DOMAIN Tail(out) : Tail(out)[j] = out[i]
    BY <1>2, TakenOff DEF TransportInv, Lines
<1>4. Head(out) # "hello" => (Greets => Greets')
    BY <1>2, <1>3 DEF Greets
<1>5. ~Ended
    BY DEF TakeFrame
<1>6. CASE Head(out) = "ping" /\ inbox' = Append(inbox, [t |-> "pong"]) /\ UNCHANGED named
    <2>1. [t |-> "pong"] \in Msgs
        BY DEF Msgs
    <2>2. inbox' \in Seq(Msgs) /\ (Refused => Refused')
        BY <1>6, <2>1, Says
    <2>3. Asked'
        BY <1>1, <1>2, <1>4, <1>5, <1>6, <2>2 DEF TransportInv, Asked, IsOpen
    <2> QED
        BY <1>1, <1>2, <1>3, <1>6, <2>2, <2>3 DEF TransportInv, TypeRelay, TypeSpent, Lines
<1>7. CASE Head(out) = "hello" /\ named' = named \cup {channel} /\ UNCHANGED inbox
    <2>1. Asked'
        BY <1>1, <1>7 DEF Asked
    <2> QED
        BY <1>1, <1>2, <1>3, <1>7, <2>1 DEF TransportInv, TypeRelay, TypeSpent, Lines
<1>8. CASE Head(out) = "hello" /\ inbox' = Append(inbox, [t |-> "taken"]) /\ UNCHANGED named
    <2>1. [t |-> "taken"] \in Msgs /\ [t |-> "taken"].t = "taken"
        BY DEF Msgs
    <2>2. inbox' \in Seq(Msgs) /\ Refused'
        BY <1>8, <2>1, Says
    <2>3. Asked'
        BY <2>2 DEF Asked
    <2> QED
        BY <1>1, <1>2, <1>3, <1>8, <2>2, <2>3 DEF TransportInv, TypeRelay, TypeSpent, Lines
<1> QED
    BY <1>6, <1>7, <1>8 DEF TakeFrame

\* What was sent before a channel was closed is answered, and gone connections are noticed.
LEMMA LateKeeps ==
    ASSUME TransportInv, NEW c \in Conn, TakeLate(c) \/ Reap(c)
    PROVE  TransportInv'
<1>1. TypeClient' /\ Attempts' /\ UNCHANGED <<channel, opened, told, idTimer>>
    BY ClientLeft DEF TakeLate, Reap
<1>2. UNCHANGED <<asking, mute, lost, inbox, out, spent>>
    BY DEF TakeLate, Reap, line
<1>3. CASE TakeLate(c)
    <2>1. /\ c \in late /\ late' = late \ {c} /\ held' = held
          /\ named \subseteq named' /\ named' \subseteq named \cup {c}
        BY <1>3 DEF TakeLate
    <2>2. TypeRelay'
        BY <1>2, <2>1 DEF TransportInv, TypeRelay
    <2>3. Asked'
        BY <1>1, <1>2, <2>1 DEF TransportInv, Asked, IsOpen, Ended, Greets, Refused
    <2> QED
        BY <1>1, <1>2, <2>2, <2>3 DEF TransportInv, TypeSpent, Lines
<1>4. CASE Reap(c)
    <2>1. /\ c = channel => mute \/ Ended
          /\ held' = held \ {c} /\ named' = named \ {c} /\ late' = late \ {c}
        BY <1>4 DEF Reap
    <2>2. TypeRelay'
        BY <1>2, <2>1 DEF TransportInv, TypeRelay
    <2>3. Asked'
        BY <1>1, <1>2, <2>1 DEF TransportInv, Asked, IsOpen, Ended, Greets, Refused
    <2> QED
        BY <1>1, <1>2, <2>2, <2>3 DEF TransportInv, TypeSpent, Lines
<1> QED
    BY <1>3, <1>4

-----------------------------------------------------------------------------
(* The theorem *)

LEMMA TransportStarts == ASSUME Init PROVE TransportInv
<1>1. TypeClient
    <2>1. failures \in [Kind -> 0..SwitchAfter]
        BY TransportAssumption DEF Init, TransportAssumption
    <2>2. idRetries \in 0..IdTries
        BY TransportAssumption DEF Init, TransportAssumption
    <2>3. retry \in Pending /\ idTimer \in Pending /\ mode \in Kind
        BY DEF Init, Pending, Kind
    <2>4. welcomes \in 0..2
        BY DEF Init
    <2>5. /\ channel = None /\ live = {} /\ opened = FALSE /\ intent = "join" /\ wantOpen = FALSE
          /\ forced \in Kind \cup {None} /\ remembered \in Kind \cup {None}
          /\ stuck = FALSE /\ refusal = None /\ probe = FALSE /\ beat = "off"
          /\ told = FALSE /\ collided = FALSE
        BY DEF Init
    <2>6. live \subseteq Conn /\ opened \in BOOLEAN /\ intent \in {"create", "join"} /\ wantOpen \in BOOLEAN
        BY <2>5
    <2>7. stuck \in BOOLEAN /\ probe \in BOOLEAN /\ told \in BOOLEAN /\ collided \in BOOLEAN
        BY <2>5
    <2> QED
        BY <2>1, <2>2, <2>3, <2>4, <2>5, <2>6, <2>7 DEF TypeClient
<1>2. TypeRelay /\ TypeSpent
    <2>1. spent \in [{"session", "calls", "faults"} -> Nat]
        BY DEF Init
    <2> QED
        BY <2>1 DEF Init, TypeRelay, TypeSpent
<1>3. Lines
    BY EmptySeq DEF Init, Lines
<1>4. Attempts /\ Asked
    BY DEF Init, Attempts, OneChannel, NeverStranded, Asked, IsOpen
<1> QED
    BY <1>1, <1>2, <1>3, <1>4 DEF TransportInv

LEMMA TransportKeeps == ASSUME TransportInv, [Next]_vars PROVE TransportInv'
<1>1. CASE Next
    BY <1>1, AppKeeps, TimerKeeps, ReceiveKeeps, WelcomeKeeps, NetworkKeeps, AdmitKeeps, FrameKeeps, LateKeeps
    DEF Next
<1>2. CASE UNCHANGED vars
    <2>1. UNCHANGED <<client, asking, mute, lost, inbox, out, held, named, late, spent>>
        BY <1>2 DEF vars, client, line, relay
    <2>2. TypeClient' /\ Attempts' /\ UNCHANGED <<channel, opened, told, idTimer>>
        BY <2>1, ClientLeft
    <2> QED
        BY <2>1, <2>2 DEF TransportInv, TypeRelay, TypeSpent, Lines, Asked, IsOpen, Ended, Greets, Refused
<1> QED
    BY <1>1, <1>2

\* Nothing is under way when both lines are empty.
LEMMA InOrder == ASSUME TransportInv PROVE AttemptsInOrder
<1>1. \A i \in DOMAIN inbox : inbox[i].t \in {"welcome", "taken", "pong", "error", "end"}
    <2>1. \A i \in DOMAIN inbox : inbox[i] \in Msgs
        BY DEF TransportInv, Lines
    <2> QED
        BY <2>1 DEF Msgs
<1>2. \A i \in DOMAIN out : out[i] \in {"hello", "ping"}
    BY DEF TransportInv, Lines, Frames
<1>3. TypeOK
    BY <1>1, <1>2 DEF TransportInv, TypeClient, TypeRelay, TypeSpent, TypeOK
<1>4. OneChannel /\ NeverStranded /\ PinHolds
    BY DEF TransportInv, Attempts, PinHolds
<1>5. IdSettles
    BY DEF TransportInv, Asked, IdSettles, Ended, Greets, Refused
<1> QED
    BY <1>3, <1>4, <1>5 DEF AttemptsInOrder

\* relay.js:73-83, for every network and every bound: one channel at a time, always
\* something to come for it, of the pinned kind; and the device's own id is known to the
\* relay, or the user told that it is not, once nothing is under way.
THEOREM AttemptsKeepApart == Spec => []AttemptsInOrder
<1>1. Init => TransportInv
    BY TransportStarts
<1>2. TransportInv /\ [Next]_vars => TransportInv'
    BY TransportKeeps
<1>3. TransportInv => AttemptsInOrder
    BY InOrder
<1> QED
    BY <1>1, <1>2, <1>3, PTL DEF Spec
=============================================================================
