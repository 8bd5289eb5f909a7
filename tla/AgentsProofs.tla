---------------------------- MODULE AgentsProofs ----------------------------
(***************************************************************************)
(* What the surfaces without a page promise for every number of rooms,     *)
(* clips, lines and openings.  Each machine has an inductive invariant of  *)
(* its own; the last theorem puts them side by side.                       *)
(***************************************************************************)
EXTENDS Agents, SequenceTheorems, TLAPS

-----------------------------------------------------------------------------
(* The shared room adapter *)

\* Whatever opens or closes the room bumps the epoch: an answer whose epoch is the
\* current one was asked for by the room the transport is in.
RoomInv ==
    /\ roomEpoch \in Nat /\ roomLinked \in Nat /\ roomsOpened \in Nat /\ sharingOn \in BOOLEAN
    /\ answering \subseteq [room : Nat, mine : Nat, at : {"open", "seal"}]
    /\ \A job \in answering :
           /\ job.mine <= roomEpoch
           /\ job.mine = roomEpoch => job.room = roomLinked
    /\ AnswersWhereAsked

\* The adapter's invariant is kept by opening, closing, the rung and each half of an answer.
THEOREM RoomAnswers == RoomSpec => []AnswersWhereAsked
<1>1. RoomInit => RoomInv
    BY DEF RoomInit, RoomInv, AnswersWhereAsked
<1>2. RoomInv /\ [RoomNext]_roomVars => RoomInv'
    <2> SUFFICES ASSUME RoomInv, [RoomNext]_roomVars PROVE RoomInv'
        OBVIOUS
    <2>1. CASE OpenRoom
        BY <2>1 DEF OpenRoom, RoomInv, AnswersWhereAsked
    <2>2. CASE CloseRoom
        BY <2>2 DEF CloseRoom, RoomInv, AnswersWhereAsked
    <2>3. CASE FlipSharing
        BY <2>3 DEF FlipSharing, RoomInv, AnswersWhereAsked
    <2>4. CASE VerifyArrives
        BY <2>4 DEF VerifyArrives, RoomInv, AnswersWhereAsked
    <2>5. ASSUME NEW job \in answering, Answers(job) PROVE RoomInv'
        <3>1. AnswersWhereAsked'
            BY <2>5 DEF Answers, StillAsked, RoomInv, AnswersWhereAsked
        <3> QED
            BY <2>5, <3>1 DEF Answers, RoomInv
    <2>6. CASE UNCHANGED roomVars
        BY <2>6 DEF roomVars, RoomInv, AnswersWhereAsked
    <2> QED
        BY <2>1, <2>2, <2>3, <2>4, <2>5, <2>6 DEF RoomNext
<1>3. RoomInv => AnswersWhereAsked
    BY DEF RoomInv
<1> QED
    BY <1>1, <1>2, <1>3, PTL DEF RoomSpec

-----------------------------------------------------------------------------
(* The command line in both directions *)

\* The chain seals one line at a time and the earliest first, so what is done is older
\* than what is being sealed, and that older than the rest.
CliInv ==
    /\ typed \in Nat /\ exitCode \in {-1, 0, 4, 5}
    /\ lineFailed \in BOOLEAN /\ inputEnded \in BOOLEAN
    /\ encrypting \subseteq 1..typed /\ linesDone \subseteq 1..typed
    /\ encrypting \cap linesDone = {}
    /\ \A m, n \in encrypting : m = n
    /\ \A m \in linesDone, n \in (1..typed) \ linesDone : m < n
    /\ \A m \in encrypting, n \in Unsealed : m < n
    /\ linesSent \in Seq(linesDone)
    /\ LinesInOrder
    /\ ~lineFailed => \A n \in linesDone : \E i \in DOMAIN linesSent : linesSent[i] = n
    /\ exitCode # -1 => inputEnded \/ signalled \/ exitCode = 5
    /\ signalled => exitCode = 0
    /\ ExitIsHonest

\* One more line at the end of those sent.
LEMMA LineAppended ==
    ASSUME NEW n, NEW D, NEW s \in Seq(D)
    PROVE  /\ Append(s, n) \in Seq(D \cup {n})
           /\ DOMAIN s = 1..Len(s) /\ DOMAIN Append(s, n) = 1..(Len(s) + 1)
           /\ \A i \in 1..Len(s) : Append(s, n)[i] = s[i]
           /\ Append(s, n)[Len(s) + 1] = n
<1>1. s \in Seq(D \cup {n}) /\ Len(s) \in Nat
    BY SeqMonotonic
<1> QED
    BY <1>1, AppendProperties

\* Lines go in order, and an exit that says so means they went.
THEOREM LinesGo == CliSpec => [](LinesInOrder /\ ExitIsHonest)
<1>1. CliInit => CliInv
    <2>1. <<>> \in Seq({}) /\ DOMAIN <<>> = {}
        BY EmptySeq
    <2>2. 1..0 = {}
        OBVIOUS
    <2> SUFFICES ASSUME CliInit PROVE CliInv
        OBVIOUS
    <2>3. linesSent \in Seq(linesDone) /\ DOMAIN linesSent = {}
        BY <2>1 DEF CliInit
    <2>4. LinesInOrder
        BY <2>3 DEF LinesInOrder
    <2>5. ExitIsHonest /\ typed \in Nat /\ exitCode \in {-1, 0, 4, 5} /\ ~signalled
        BY DEF CliInit, ExitIsHonest
    <2> QED
        BY <2>2, <2>3, <2>4, <2>5 DEF CliInit, CliInv, Unsealed
<1>2. CliInv /\ [CliNext]_cliVars => CliInv'
    <2> SUFFICES ASSUME CliInv, [CliNext]_cliVars PROVE CliInv'
        OBVIOUS
    <2>1. CASE TypeLine
        BY <2>1 DEF TypeLine, CliInv, LinesInOrder, ExitIsHonest, Unsealed
    <2>2. CASE CliLink
        BY <2>2 DEF CliLink, CliInv, LinesInOrder, ExitIsHonest, Unsealed
    <2>3. CASE InputEnds
        BY <2>3 DEF InputEnds, CliInv, LinesInOrder, ExitIsHonest, Unsealed
    <2>4. ASSUME NEW drained \in BOOLEAN, CliExits(drained) PROVE CliInv'
        BY <2>4 DEF CliExits, Code, CliInv, LinesInOrder, ExitIsHonest, Unsealed
    <2>5. ASSUME NEW n \in 1..MaxLines, SealLine(n) PROVE CliInv'
        BY <2>5 DEF SealLine, MaySeal, CliInv, LinesInOrder, ExitIsHonest, Unsealed
    <2>6. ASSUME NEW n \in 1..MaxLines, SendLine(n) PROVE CliInv'
        <3>1. linesSent \in Seq(linesDone)
            BY DEF CliInv
        <3>2. \A m \in linesDone : m < n
            BY <2>6 DEF SendLine, CliInv
        <3>3. /\ linesSent' \in Seq(linesDone')
              /\ LinesInOrder'
              /\ ~lineFailed' => \A m \in linesDone' : \E i \in DOMAIN linesSent' : linesSent'[i] = m
            <4>1. CASE cliOnline
                <5>1. linesSent' = Append(linesSent, n) /\ linesDone' = linesDone \cup {n}
                      /\ lineFailed' = lineFailed
                    BY <2>6, <4>1 DEF SendLine
                <5>2. \A i \in 1..Len(linesSent) : linesSent[i] \in linesDone
                    BY <3>1
                <5>3. LinesInOrder'
                    <6>1. \A i, j \in 1..Len(linesSent) : i < j => linesSent[i] < linesSent[j]
                        BY <3>1, LineAppended DEF CliInv, LinesInOrder
                    <6>2. \A i \in 1..Len(linesSent) : linesSent[i] < n
                        BY <5>2, <3>2
                    <6>3. Len(linesSent) \in Nat
                        BY <3>1
                    <6>4. \A i, j \in 1..(Len(linesSent) + 1) :
                              i < j => i \in 1..Len(linesSent)
                                       /\ (j \in 1..Len(linesSent) \/ j = Len(linesSent) + 1)
                        BY <6>3
                    <6> QED
                        BY <5>1, <6>1, <6>2, <6>4, <3>1, LineAppended DEF LinesInOrder
                <5>4. ~lineFailed' => \A m \in linesDone' : \E i \in DOMAIN linesSent' : linesSent'[i] = m
                    BY <5>1, <3>1, LineAppended DEF CliInv
                <5> QED
                    BY <5>1, <5>3, <5>4, <3>1, LineAppended
            <4>2. CASE ~cliOnline
                <5>1. linesSent' = linesSent /\ lineFailed' = TRUE /\ linesDone \subseteq linesDone'
                    BY <2>6, <4>2 DEF SendLine
                <5> QED
                    BY <5>1, <3>1, SeqMonotonic DEF CliInv, LinesInOrder
            <4> QED
                BY <4>1, <4>2
        <3>4. exitCode' = -1 /\ ~signalled' /\ ExitIsHonest'
            BY <2>6 DEF SendLine, CliInv, ExitIsHonest
        <3>5. /\ encrypting' \subseteq 1..typed' /\ linesDone' \subseteq 1..typed'
              /\ encrypting' \cap linesDone' = {} /\ encrypting' = {}
              /\ typed' \in Nat /\ lineFailed' \in BOOLEAN /\ inputEnded' \in BOOLEAN
            BY <2>6 DEF SendLine, CliInv
        <3>6. \A m \in linesDone', k \in (1..typed') \ linesDone' : m < k
            BY <2>6 DEF SendLine, CliInv, Unsealed
        <3> QED
            BY <3>3, <3>4, <3>5, <3>6 DEF CliInv
    <2>7. CASE UNCHANGED cliVars
        BY <2>7 DEF cliVars, CliInv, LinesInOrder, ExitIsHonest, Unsealed
    <2>8. ASSUME NEW code \in {0, 5}, CliStopped(code) PROVE CliInv'
        BY <2>8 DEF CliStopped, CliInv, LinesInOrder, ExitIsHonest, Unsealed
    <2> QED
        BY <2>1, <2>2, <2>3, <2>4, <2>5, <2>6, <2>7, <2>8 DEF CliNext
<1>3. CliInv => LinesInOrder /\ ExitIsHonest
    BY DEF CliInv
<1> QED
    BY <1>1, <1>2, <1>3, PTL DEF CliSpec

-----------------------------------------------------------------------------
(* One run of the command line *)

\* A clip is handed over on the way to the flush and nowhere else, and the flush is the
\* way of send alone.
RunInv ==
    /\ runSent => runAt = "flushing"
    /\ runAt = "flushing" => runSent
    /\ runAt \in {"deriving", "connecting", "reading", "sealing", "flushing", "watching"}
    /\ runCommand \in {"send", "watch", "once"}
    /\ runAt \in {"reading", "sealing", "flushing"} => runCommand = "send"
    /\ runAt = "watching" => runCommand # "send"
    /\ RunCodeTells

\* The exit code of a run tells what became of its clip.
THEOREM RunTells == RunSpec => []RunCodeTells
<1>1. RunInit => RunInv
    BY DEF RunInit, RunInv, RunCodeTells
<1>2. RunInv /\ [RunNext]_runVars => RunInv'
    <2> SUFFICES ASSUME RunInv, [RunNext]_runVars PROVE RunInv'
        OBVIOUS
    <2> USE DEF RunInv, RunCodeTells, Exits, EndsWithCode
    <2>1. CASE runCode = -1 /\ RunDerives
        BY <2>1 DEF RunDerives
    <2>2. CASE runCode = -1 /\ RunConnects
        BY <2>2 DEF RunConnects
    <2>3. CASE runCode = -1 /\ RunClip
        BY <2>3 DEF RunClip
    <2>4. CASE runCode = -1 /\ RunReads
        BY <2>4 DEF RunReads
    <2>5. CASE runCode = -1 /\ RunSends
        BY <2>5 DEF RunSends
    <2>6. CASE runCode = -1 /\ RunFlushed
        BY <2>6 DEF RunFlushed
    <2>7. CASE runCode = -1 /\ (RunTimesOut \/ RunEndsEvicted)
        BY <2>7 DEF RunTimesOut, RunEndsEvicted
    <2>8. CASE runCode = -1 /\ (RunLink \/ RunIsEvicted)
        BY <2>8 DEF RunLink, RunIsEvicted
    <2>9. CASE UNCHANGED runVars
        BY <2>9 DEF runVars
    <2>10. CASE runCode = -1 /\ RunSignalled
        BY <2>10 DEF RunSignalled
    <2> QED
        BY <2>1, <2>2, <2>3, <2>4, <2>5, <2>6, <2>7, <2>8, <2>9, <2>10 DEF RunNext
<1>3. RunInv => RunCodeTells
    BY DEF RunInv
<1> QED
    BY <1>1, <1>2, <1>3, PTL DEF RunSpec

-----------------------------------------------------------------------------
(* The MCP server's clips *)

\* A clip that somebody has, or will have; one that is past the cap or was past a list.
Known(n) == \/ n \in listed
            \/ \E i \in DOMAIN unread : unread[i] = n
            \/ \E g \in given : g[2] = n
Beyond(n) == \/ mcpClips - n >= McpCap
             \/ \E l \in lists : n <= l[1] /\ l[1] - n >= l[2]

\* A call that waits has been given nothing and waits once: the clip its turn brings it
\* is the only one that can be its answer.  A clip of the queue is as old as its place says.
McpInv ==
    /\ mcpClips \in Nat /\ waitsMade \in Nat
    /\ unread \in Seq(Nat) /\ waiters \in Seq(Nat)
    /\ \A i \in DOMAIN waiters : waiters[i] <= waitsMade
    /\ \A i, j \in DOMAIN waiters : waiters[i] = waiters[j] => i = j
    /\ \A g \in given : g[1] \in Nat /\ g[1] <= waitsMade
    /\ \A i \in DOMAIN waiters, g \in given : g[1] # waiters[i]
    /\ \A i \in DOMAIN unread : mcpClips - unread[i] >= Len(unread) - i
    /\ NoClipSwallowed

\* Every entry of a queue is its first or one of the others, at the next place.
LEMMA HeadOrTail ==
    ASSUME NEW S, NEW s \in Seq(S), s # <<>>
    PROVE  /\ Head(s) \in S /\ Tail(s) \in Seq(S)
           /\ Len(s) \in Nat \ {0} /\ DOMAIN s = 1..Len(s) /\ DOMAIN Tail(s) = 1..(Len(s) - 1)
           /\ s[1] = Head(s)
           /\ \A i \in 1..(Len(s) - 1) : Tail(s)[i] = s[i + 1]
           /\ \A i \in 2..Len(s) : i - 1 \in DOMAIN Tail(s) /\ Tail(s)[i - 1] = s[i]
           /\ \A i \in DOMAIN Tail(s) : i + 1 \in DOMAIN s /\ i + 1 # 1 /\ Tail(s)[i] = s[i + 1]
<1>1. Len(s) \in Nat \ {0}
    BY EmptySeq
<1>2. /\ Head(s) \in S /\ Tail(s) \in Seq(S) /\ Len(Tail(s)) = Len(s) - 1
      /\ \A i \in 1..(Len(s) - 1) : Tail(s)[i] = s[i + 1]
    BY HeadTailProperties
<1>3. DOMAIN s = 1..Len(s) /\ DOMAIN Tail(s) = 1..Len(Tail(s))
    BY <1>2, LenProperties
<1>4. s[1] = Head(s)
    BY DEF Head
<1> QED
    BY <1>1, <1>2, <1>3, <1>4

\* What is left of a queue when one entry is taken out is entries of it, each once.
LEMMA TakenOutOf ==
    ASSUME NEW S, NEW s \in Seq(S), NEW i \in DOMAIN s
    PROVE  /\ RemoveAt(s, i) \in Seq(S)
           /\ \A j \in DOMAIN RemoveAt(s, i) :
                  LET k == IF j < i THEN j ELSE j + 1 IN
                  k \in DOMAIN s /\ k # i /\ RemoveAt(s, i)[j] = s[k]
<1> DEFINE a == SubSeq(s, 1, i - 1)
           b == SubSeq(s, i + 1, Len(s))
<1>1. Len(s) \in Nat /\ DOMAIN s = 1..Len(s) /\ i \in 1..Len(s)
    BY LenProperties
<1>2. a \in Seq(S) /\ Len(a) = i - 1 /\ \A j \in 1..(i - 1) : a[j] = s[j]
    BY <1>1, SubSeqProperties
<1>3. b \in Seq(S) /\ Len(b) = Len(s) - i /\ \A j \in 1..(Len(s) - i) : b[j] = s[i + j]
    BY <1>1, SubSeqProperties
<1>4. RemoveAt(s, i) = a \o b
    BY DEF RemoveAt
<1> HIDE DEF a, b
<1>5. /\ a \o b \in Seq(S) /\ Len(a \o b) = Len(s) - 1
      /\ \A j \in 1..(Len(s) - 1) : (a \o b)[j] = IF j <= i - 1 THEN a[j] ELSE b[j - (i - 1)]
    <2>1. /\ a \o b \in Seq(S) /\ Len(a \o b) = Len(a) + Len(b)
          /\ \A j \in 1..(Len(a) + Len(b)) : (a \o b)[j] = IF j <= Len(a) THEN a[j] ELSE b[j - Len(a)]
        BY <1>2, <1>3, ConcatProperties
    <2>2. Len(a) + Len(b) = Len(s) - 1
        BY <1>1, <1>2, <1>3
    <2> QED
        BY <2>1, <2>2, <1>2
<1>6. DOMAIN (a \o b) = 1..(Len(s) - 1)
    BY <1>5, LenProperties
<1>7. ASSUME NEW j \in 1..(Len(s) - 1)
      PROVE  LET k == IF j < i THEN j ELSE j + 1 IN
             k \in DOMAIN s /\ k # i /\ (a \o b)[j] = s[k]
    <2>1. CASE j < i
        <3>1. j \in 1..(i - 1)
            BY <2>1, <1>1
        <3> QED
            BY <2>1, <3>1, <1>1, <1>2, <1>5
    <2>2. CASE ~(j < i)
        <3>1. j - (i - 1) \in 1..(Len(s) - i) /\ i + (j - (i - 1)) = j + 1 /\ ~(j <= i - 1)
            BY <2>2, <1>1
        <3>2. (a \o b)[j] = s[j + 1]
            BY <3>1, <1>3, <1>5
        <3> QED
            BY <2>2, <3>2, <1>1
    <2> QED
        BY <2>1, <2>2
<1> QED
    BY <1>4, <1>5, <1>6, <1>7

\* No clip is swallowed, whichever call gives up first.
THEOREM ClipsAreGiven == McpSpec => []NoClipSwallowed
<1>1. McpInit => McpInv
    <2> SUFFICES ASSUME McpInit PROVE McpInv
        OBVIOUS
    <2>1. <<>> \in Seq(Nat) /\ DOMAIN <<>> = {}
        BY EmptySeq
    <2>2. NoClipSwallowed
        BY DEF McpInit, NoClipSwallowed
    <2> QED
        BY <2>1, <2>2 DEF McpInit, McpInv
<1>2. McpInv /\ [McpNext]_mcpVars => McpInv'
    <2> SUFFICES ASSUME McpInv, [McpNext]_mcpVars PROVE McpInv'
        OBVIOUS
    <2>0. ASSUME mcpClips' \in Nat, mcpClips' >= mcpClips, lists \subseteq lists',
                 \A n \in 1..mcpClips' :
                     (n \in 1..mcpClips /\ ~Known(n)) \/ Known(n)' \/ Beyond(n)'
          PROVE  NoClipSwallowed'
        <3>1. \A n \in 1..mcpClips : Beyond(n) => Beyond(n)'
            BY <2>0, AgentsAssumption DEF McpInv, Beyond
        <3>2. \A n \in 1..mcpClips : Known(n) \/ Beyond(n)
            BY DEF McpInv, NoClipSwallowed, Known, Beyond
        <3>3. \A n \in 1..mcpClips' : Known(n)' \/ Beyond(n)'
            BY <2>0, <3>1, <3>2
        <3> QED
            BY <3>3 DEF NoClipSwallowed, Known, Beyond
    <2>1. CASE McpClip
        <3> DEFINE c == mcpClips + 1
        <3>1. /\ mcpClips' = c /\ UNCHANGED <<waitsMade, listed, lists>> /\ mcpClips \in Nat
              /\ 1..mcpClips' = (1..mcpClips) \cup {c}
            <4>1. mcpClips' = c /\ UNCHANGED <<waitsMade, listed, lists>>
                BY <2>1 DEF McpClip
            <4>2. mcpClips \in Nat
                BY DEF McpInv
            <4>3. \A n \in Nat : 1..(n + 1) = (1..n) \cup {n + 1}
                OBVIOUS
            <4>4. 1..mcpClips' = (1..mcpClips) \cup {c}
                BY <4>1, <4>2, <4>3
            <4> QED
                BY <4>1, <4>2, <4>4
        <3>2. CASE waiters # <<>>
            <4>1. /\ waiters' = Tail(waiters) /\ UNCHANGED unread
                  /\ given' = given \cup {<<Head(waiters), c>>}
                <5>1. \A g \in given : g[1] # Head(waiters)
                    BY <3>2, HeadOrTail DEF McpInv
                <5> QED
                    BY <5>1, <2>1, <3>2 DEF McpClip
            <4>2. NoClipSwallowed'
                <5>1. <<Head(waiters), c>> \in given' /\ <<Head(waiters), c>>[2] = c
                    BY <4>1
                <5>2. \A n \in 1..mcpClips : Known(n) => Known(n)'
                    BY <3>1, <4>1 DEF Known
                <5>3. \A n \in 1..mcpClips' : n \notin 1..mcpClips => Known(n)'
                    BY <5>1, <3>1 DEF Known
                <5> QED
                    BY <3>1, <5>2, <5>3, <2>0
            <4>3. waiters' \in Seq(Nat) /\ Head(waiters) \in Nat /\ Head(waiters) <= waitsMade
                BY <3>2, <4>1, HeadOrTail DEF McpInv
            <4>4. /\ \A i \in DOMAIN waiters' : waiters'[i] <= waitsMade /\ waiters'[i] # Head(waiters)
                  /\ \A i \in DOMAIN waiters', g \in given : g[1] # waiters'[i]
                BY <3>2, <4>1, HeadOrTail DEF McpInv
            <4>5. \A i, j \in DOMAIN waiters' : waiters'[i] = waiters'[j] => i = j
                BY <3>2, <4>1, HeadOrTail DEF McpInv
            <4>6. \A i \in DOMAIN unread' : mcpClips' - unread'[i] >= Len(unread') - i
                <5>1. \A i \in DOMAIN unread : unread[i] \in Nat /\ i \in Nat /\ Len(unread) \in Nat
                    BY ElementOfSeq, LenProperties DEF McpInv
                <5> QED
                    BY <5>1, <3>1, <4>1 DEF McpInv
            <4> QED
                BY <3>1, <4>1, <4>2, <4>3, <4>4, <4>5, <4>6 DEF McpInv
        <3>3. CASE waiters = <<>>
            <4> DEFINE queue == Append(unread, c)
            <4>1. UNCHANGED <<waiters, given>>
                BY <2>1, <3>3 DEF McpClip
            <4>2. /\ queue \in Seq(Nat) /\ queue # <<>> /\ Len(queue) = Len(unread) + 1
                  /\ Len(unread) \in Nat /\ DOMAIN unread = 1..Len(unread)
                  /\ DOMAIN queue = 1..(Len(unread) + 1)
                  /\ \A i \in DOMAIN unread : i \in DOMAIN queue /\ queue[i] = unread[i]
                  /\ Len(unread) + 1 \in DOMAIN queue /\ queue[Len(unread) + 1] = c
                <5>1. unread \in Seq(Nat) /\ c \in Nat
                    BY <3>1 DEF McpInv
                <5>2. /\ queue \in Seq(Nat) /\ Len(queue) = Len(unread) + 1
                      /\ \A i \in 1..Len(unread) : queue[i] = unread[i]
                      /\ queue[Len(unread) + 1] = c
                    BY <5>1, AppendProperties
                <5>3. Len(unread) \in Nat /\ DOMAIN unread = 1..Len(unread) /\ DOMAIN queue = 1..Len(queue)
                    BY <5>1, <5>2, LenProperties
                <5>4. queue # <<>>
                    BY <5>2, <5>3
                <5> HIDE DEF queue
                <5> QED
                    BY <5>2, <5>3, <5>4
            <4>3. \A i \in DOMAIN queue : queue[i] \in Nat /\ c - queue[i] >= Len(queue) - i
                <5>1. \A i \in DOMAIN unread : unread[i] \in Nat /\ mcpClips - unread[i] >= Len(unread) - i
                    BY ElementOfSeq, LenProperties DEF McpInv
                <5>2. \A i \in DOMAIN queue : i \in DOMAIN unread \/ i = Len(unread) + 1
                    BY <4>2
                <5> QED
                    BY <5>1, <5>2, <4>2, <3>1
            <4>4. \A n \in 1..c : (n \in 1..mcpClips /\ ~Known(n))
                                  \/ n \in listed \/ (\E i \in DOMAIN queue : queue[i] = n)
                                  \/ \E g \in given : g[2] = n
                BY <3>1, <4>2 DEF Known
            <4>5. unread' = IF Len(queue) > McpCap THEN Tail(queue) ELSE queue
                BY <2>1, <3>3 DEF McpClip
            <4> HIDE DEF queue
            <4>6. CASE ~(Len(queue) > McpCap)
                <5>1. unread' = queue
                    BY <4>5, <4>6
                <5>2. \A n \in 1..c : (n \in 1..mcpClips /\ ~Known(n)) \/ Known(n)'
                    BY <5>1, <3>1, <4>1, <4>4 DEF Known
                <5>3. NoClipSwallowed'
                    BY <5>2, <3>1, <2>0
                <5> QED
                    BY <5>1, <5>3, <3>1, <4>1, <4>2, <4>3 DEF McpInv
            <4>7. CASE Len(queue) > McpCap
                <5>1. unread' = Tail(queue)
                    BY <4>5, <4>7
                <5>2. /\ Len(queue) \in Nat /\ DOMAIN queue = 1..Len(queue) /\ queue[1] = Head(queue)
                      /\ Tail(queue) \in Seq(Nat) /\ DOMAIN Tail(queue) = 1..(Len(queue) - 1)
                      /\ Len(Tail(queue)) = Len(queue) - 1
                      /\ \A i \in 1..(Len(queue) - 1) : Tail(queue)[i] = queue[i + 1]
                    BY <4>2, HeadOrTail, HeadTailProperties
                <5>3. \A n \in Nat : n = queue[1] => Beyond(n)'
                    <6>1. 1 \in DOMAIN queue /\ Len(queue) - 1 >= McpCap /\ McpCap \in Nat
                        BY <4>2, <4>7, <5>2, AgentsAssumption
                    <6>2. queue[1] \in Nat /\ c - queue[1] >= Len(queue) - 1 /\ c \in Nat /\ Len(queue) \in Nat
                        BY <6>1, <4>3, <5>2, <3>1
                    <6>3. c - queue[1] >= McpCap
                        BY <6>1, <6>2
                    <6> QED
                        BY <6>3, <3>1 DEF Beyond
                <5>4. \A i \in DOMAIN queue : queue[i] = queue[1]
                                               \/ \E j \in DOMAIN Tail(queue) : Tail(queue)[j] = queue[i]
                    <6>1. \A i \in DOMAIN queue : i = 1 \/ (i - 1 \in 1..(Len(queue) - 1) /\ (i - 1) + 1 = i)
                        BY <5>2
                    <6> QED
                        BY <6>1, <5>2
                <5>5. \A n \in 1..c : (n \in 1..mcpClips /\ ~Known(n)) \/ Known(n)' \/ Beyond(n)'
                    <6>1. ASSUME NEW n \in 1..c, n \in listed \/ \E g \in given : g[2] = n
                          PROVE  Known(n)'
                        BY <6>1, <3>1, <4>1 DEF Known
                    <6>2. ASSUME NEW n \in 1..c, NEW i \in DOMAIN queue, queue[i] = n
                          PROVE  Known(n)' \/ Beyond(n)'
                        <7>1. CASE n = queue[1]
                            BY <7>1, <6>2, <5>3, <4>3
                        <7>2. CASE \E j \in DOMAIN Tail(queue) : Tail(queue)[j] = n
                            BY <7>2, <5>1 DEF Known
                        <7> QED
                            BY <6>2, <5>4, <7>1, <7>2
                    <6>3. \A n \in 1..c : n \in listed \/ (\E i \in DOMAIN queue : queue[i] = n)
                                            \/ (\E g \in given : g[2] = n)
                                            => Known(n)' \/ Beyond(n)'
                        BY <6>1, <6>2
                    <6> QED
                        BY <6>3, <4>4
                <5>6. NoClipSwallowed'
                    BY <5>5, <3>1, <2>0
                <5>7. \A i \in DOMAIN unread' : mcpClips' - unread'[i] >= Len(unread') - i
                    <6>1. \A i \in 1..(Len(queue) - 1) :
                              i + 1 \in DOMAIN queue /\ Len(queue) - (i + 1) = (Len(queue) - 1) - i
                        BY <5>2
                    <6> QED
                        BY <6>1, <5>1, <5>2, <4>3, <3>1
                <5> QED
                    BY <5>1, <5>2, <5>6, <5>7, <3>1, <4>1 DEF McpInv
            <4> QED
                BY <4>6, <4>7
        <3> QED
            BY <3>2, <3>3
    <2>2. CASE WaitForClip
        <3> DEFINE w == waitsMade + 1
        <3>1. waitsMade' = w /\ UNCHANGED <<mcpClips, listed, lists>> /\ w \in Nat /\ mcpClips \in Nat
            BY <2>2 DEF WaitForClip, McpInv
        <3>2. CASE unread # <<>>
            <4>1. given' = given \cup {<<w, Head(unread)>>} /\ unread' = Tail(unread) /\ waiters' = waiters
                BY <2>2, <3>2 DEF WaitForClip
            <4>2. unread' \in Seq(Nat)
                BY <3>2, <4>1, HeadOrTail DEF McpInv
            <4>3. \A i \in DOMAIN unread :
                     unread[i] = Head(unread) \/ \E j \in DOMAIN unread' : unread'[j] = unread[i]
                <5>1. DOMAIN unread = 1..Len(unread) /\ Len(unread) \in Nat
                    BY <3>2, HeadOrTail DEF McpInv
                <5>2. \A i \in DOMAIN unread : i = 1 \/ i \in 2..Len(unread)
                    BY <5>1
                <5>3. /\ unread[1] = Head(unread)
                      /\ \A i \in 2..Len(unread) : i - 1 \in DOMAIN unread' /\ unread'[i - 1] = unread[i]
                    BY <3>2, <4>1, HeadOrTail DEF McpInv
                <5> QED
                    BY <5>2, <5>3
            <4>4. NoClipSwallowed'
                <5>1. <<w, Head(unread)>> \in given' /\ <<w, Head(unread)>>[2] = Head(unread)
                    BY <4>1
                <5>2. \A n \in 1..mcpClips : Known(n) => Known(n)'
                    <6>1. SUFFICES ASSUME NEW n \in 1..mcpClips, Known(n)
                                   PROVE  Known(n)'
                        OBVIOUS
                    <6>2. CASE \E i \in DOMAIN unread : unread[i] = n
                        BY <6>2, <4>3, <5>1 DEF Known
                    <6>3. CASE n \in listed \/ \E g \in given : g[2] = n
                        BY <6>3, <3>1, <4>1 DEF Known
                    <6> QED
                        BY <6>1, <6>2, <6>3 DEF Known
                <5> QED
                    BY <3>1, <5>2, <2>0
            <4>5. \A i \in DOMAIN waiters : waiters[i] \in Nat /\ waiters[i] # w
                BY <3>1, ElementOfSeq, LenProperties DEF McpInv
            <4>6. /\ \A g \in given' : g[1] \in Nat /\ g[1] <= w
                  /\ \A i \in DOMAIN waiters', g \in given' : g[1] # waiters'[i]
                <5>1. \A g \in given' : g \in given \/ g[1] = w
                    BY <4>1
                <5>2. \A g \in given : g[1] \in Nat /\ g[1] <= w
                    BY <3>1 DEF McpInv
                <5> QED
                    BY <3>1, <4>1, <4>5, <5>1, <5>2 DEF McpInv
            <4>7. \A i \in DOMAIN waiters' : waiters'[i] <= w
                BY <3>1, <4>1, <4>5 DEF McpInv
            <4>8. \A i \in DOMAIN unread' : mcpClips' - unread'[i] >= Len(unread') - i
                <5>1. /\ Len(unread) \in Nat /\ DOMAIN unread = 1..Len(unread)
                      /\ DOMAIN unread' = 1..(Len(unread) - 1) /\ Len(unread') = Len(unread) - 1
                      /\ \A i \in 1..(Len(unread) - 1) : unread'[i] = unread[i + 1]
                    BY <3>2, <4>1, HeadOrTail, HeadTailProperties DEF McpInv
                <5>2. \A i \in DOMAIN unread : mcpClips - unread[i] >= Len(unread) - i
                    BY DEF McpInv
                <5>3. \A i \in 1..(Len(unread) - 1) :
                          i + 1 \in DOMAIN unread /\ Len(unread) - (i + 1) = (Len(unread) - 1) - i
                    BY <5>1
                <5> QED
                    BY <5>1, <5>2, <5>3, <3>1
            <4> QED
                BY <3>1, <4>1, <4>2, <4>4, <4>6, <4>7, <4>8 DEF McpInv
        <3>3. CASE unread = <<>>
            <4>1. waiters' = Append(waiters, w) /\ UNCHANGED <<given, unread>>
                BY <2>2, <3>3 DEF WaitForClip
            <4>2. /\ waiters' \in Seq(Nat) /\ Len(waiters) \in Nat
                  /\ DOMAIN waiters = 1..Len(waiters) /\ DOMAIN waiters' = 1..(Len(waiters) + 1)
                  /\ \A i \in DOMAIN waiters : waiters'[i] = waiters[i]
                  /\ waiters'[Len(waiters) + 1] = w
                BY <3>1, <4>1, AppendProperties, LenProperties DEF McpInv
            <4>3. \A i \in DOMAIN waiters' : i \in DOMAIN waiters \/ i = Len(waiters) + 1
                BY <4>2
            <4>4. \A i \in DOMAIN waiters : waiters[i] \in Nat /\ waiters[i] < w
                BY <3>1, ElementOfSeq, <4>2 DEF McpInv
            <4>5. \A i, j \in DOMAIN waiters' : waiters'[i] = waiters'[j] => i = j
                <5>1. \A i, j \in DOMAIN waiters : waiters[i] = waiters[j] => i = j
                    BY DEF McpInv
                <5>2. \A i \in DOMAIN waiters : waiters'[i] # w
                    BY <3>1, <4>2, <4>4
                <5> QED
                    BY <4>2, <4>3, <5>1, <5>2
            <4>6. \A i \in DOMAIN waiters' : waiters'[i] <= w /\ \A g \in given : g[1] # waiters'[i]
                <5>1. \A g \in given : g[1] \in Nat /\ g[1] < w
                    BY <3>1 DEF McpInv
                <5>2. \A i \in DOMAIN waiters : waiters'[i] <= w /\ \A g \in given : g[1] # waiters'[i]
                    BY <4>2, <4>4, <3>1 DEF McpInv
                <5> QED
                    BY <5>1, <5>2, <4>2, <4>3, <3>1
            <4>7. NoClipSwallowed'
                BY <3>1, <4>1 DEF McpInv, NoClipSwallowed
            <4> QED
                BY <3>1, <4>1, <4>2, <4>5, <4>6, <4>7 DEF McpInv
        <3> QED
            BY <3>2, <3>3
    <2>3. ASSUME NEW limit \in 1..McpCap, RecentClips(limit) PROVE McpInv'
        <3>1. <<>> \in Seq(Nat) /\ DOMAIN <<>> = {}
            BY EmptySeq
        <3>2. /\ UNCHANGED <<mcpClips, waiters, waitsMade, given>> /\ unread' = <<>>
              /\ listed' = listed \cup Newest(limit) /\ lists' = lists \cup {<<mcpClips, limit>>}
              /\ mcpClips \in Nat
            BY <2>3 DEF RecentClips, McpInv
        <3>3. \A n \in 1..mcpClips : n \in Newest(limit) \/ (n <= mcpClips /\ mcpClips - n >= limit)
            BY <3>2, AgentsAssumption DEF Newest
        <3>4. \A n \in 1..mcpClips : Known(n)' \/ Beyond(n)'
            <4>1. <<mcpClips, limit>> \in lists' /\ <<mcpClips, limit>>[1] = mcpClips
                  /\ <<mcpClips, limit>>[2] = limit
                BY <3>2
            <4> QED
                BY <4>1, <3>2, <3>3 DEF Known, Beyond
        <3>5. NoClipSwallowed'
            BY <3>2, <3>4, <2>0
        <3> QED
            BY <3>1, <3>2, <3>5 DEF McpInv
    <2>4. ASSUME NEW n \in DOMAIN waiters, WaitTimesOut(n) PROVE McpInv'
        <3>1. /\ given' = given \cup {<<waiters[n], 0>>} /\ waiters' = RemoveAt(waiters, n)
              /\ UNCHANGED <<mcpClips, unread, waitsMade, listed, lists>> /\ mcpClips \in Nat
            BY <2>4 DEF McpInv, WaitTimesOut, StillWaiting
        <3>2. waiters[n] \in Nat
            BY ElementOfSeq, LenProperties DEF McpInv
        <3>3. waiters' \in Seq(Nat)
            BY <3>1, TakenOutOf DEF McpInv
        <3>4. \A j \in DOMAIN waiters' : LET k == IF j < n THEN j ELSE j + 1 IN
                  k \in DOMAIN waiters /\ k # n /\ waiters'[j] = waiters[k]
            BY <3>1, TakenOutOf DEF McpInv
        <3>5. \A j \in DOMAIN waiters' : /\ waiters'[j] <= waitsMade /\ waiters'[j] # waiters[n]
                                         /\ \A g \in given : g[1] # waiters'[j]
            BY <3>4 DEF McpInv
        <3>6. \A i, j \in DOMAIN waiters' : waiters'[i] = waiters'[j] => i = j
            <4>1. \A j \in DOMAIN waiters' : j \in Int
                BY <3>3, LenProperties
            <4>2. n \in Int
                BY LenProperties DEF McpInv
            <4>3. SUFFICES ASSUME NEW i \in DOMAIN waiters', NEW j \in DOMAIN waiters',
                                  waiters'[i] = waiters'[j]
                           PROVE  i = j
                OBVIOUS
            <4>4. (IF i < n THEN i ELSE i + 1) = (IF j < n THEN j ELSE j + 1)
                BY <3>4, <4>3 DEF McpInv
            <4> QED
                BY <4>1, <4>2, <4>4
        <3>7. NoClipSwallowed'
            <4>1. \A k \in 1..mcpClips : Known(k) => Known(k)'
                BY <3>1 DEF Known
            <4> QED
                BY <4>1, <3>1, <2>0
        <3> QED
            BY <3>1, <3>2, <3>3, <3>5, <3>6, <3>7 DEF McpInv
    <2>5. CASE UNCHANGED mcpVars
        BY <2>5 DEF mcpVars, McpInv, NoClipSwallowed
    <2> QED
        BY <2>1, <2>2, <2>3, <2>4, <2>5 DEF McpNext
<1>3. McpInv => NoClipSwallowed
    BY DEF McpInv
<1> QED
    BY <1>1, <1>2, <1>3, PTL DEF McpSpec

-----------------------------------------------------------------------------
(* The worker of the browser extension *)

\* What is pasted by the key read like no command, and by the click was the clip shown:
\* memory and mirror are read as a pair.
THEOREM PastesAreConsented == WorkerSpec => [](KeyIsNoConsent /\ ClickWritesReviewed)
<1> DEFINE Consented == KeyIsNoConsent /\ ClickWritesReviewed
<1>1. WorkerInit => Consented
    BY DEF WorkerInit, KeyIsNoConsent, ClickWritesReviewed
<1>2. Consented /\ [WorkerNext]_workerVars => Consented'
    <2> SUFFICES ASSUME Consented, [WorkerNext]_workerVars PROVE Consented'
        OBVIOUS
    <2>1. CASE PasteLatest
        BY <2>1 DEF PasteLatest, Current, Truth, KeyIsNoConsent, ClickWritesReviewed
    <2>2. CASE ConfirmPaste
        BY <2>2 DEF ConfirmPaste, IsReviewed, KeyIsNoConsent, ClickWritesReviewed
    <2>3. CASE UNCHANGED pasted
        BY <2>3 DEF KeyIsNoConsent, ClickWritesReviewed
    <2> QED
        BY <2>1, <2>2, <2>3 DEF WorkerNext, workerVars, ReceivedClip, MirrorLands, NewRoom,
           JoinRoom, Opened, WorkerRestarts, Reconnects, Review, ClipArrives
<1> QED
    BY <1>1, <1>2, PTL DEF WorkerSpec

-----------------------------------------------------------------------------
(* VS Code's clipboard host *)

\* A text of the host's own that is on the board, on its way to it or being read back is
\* remembered, or its time in the ring is over.
HostInv ==
    /\ hostWrites \in Seq(OwnText)
    /\ \A i \in DOMAIN hostWrites : hostWrites[i] \in ring \cup forgot
    /\ \A x \in {board, sampled} : x \in OwnText /\ x # "none" => x \in ring \cup forgot
    /\ NoBounce

\* The host never takes a write of its own for a copy while it remembers the write.
THEOREM HostHears == HostSpec => []NoBounce
<1>1. HostInit => HostInv
    <2>1. <<>> \in Seq(OwnText) /\ DOMAIN <<>> = {}
        BY EmptySeq
    <2> QED
        BY <2>1 DEF HostInit, HostInv, NoBounce
<1>2. HostInv /\ [HostNext]_hostVars => HostInv'
    <2> SUFFICES ASSUME HostInv, [HostNext]_hostVars PROVE HostInv'
        OBVIOUS
    <2>1. ASSUME NEW t \in OwnText, Invoke(t) PROVE HostInv'
        <3>1. /\ hostWrites' = Append(hostWrites, t) /\ ring' = ring \cup {t}
              /\ UNCHANGED <<board, sampled, reported, forgot>>
            BY <2>1 DEF Invoke, Remembered
        <3>2. /\ hostWrites' \in Seq(OwnText) /\ Len(hostWrites) \in Nat
              /\ DOMAIN hostWrites = 1..Len(hostWrites)
              /\ DOMAIN hostWrites' = 1..(Len(hostWrites) + 1)
              /\ \A i \in DOMAIN hostWrites : hostWrites'[i] = hostWrites[i]
              /\ hostWrites'[Len(hostWrites) + 1] = t
            BY <3>1, AppendProperties, LenProperties DEF HostInv
        <3>3. \A i \in DOMAIN hostWrites' : i \in DOMAIN hostWrites \/ i = Len(hostWrites) + 1
            BY <3>2
        <3>4. \A i \in DOMAIN hostWrites' : hostWrites'[i] \in ring' \cup forgot'
            BY <3>1, <3>2, <3>3 DEF HostInv
        <3> QED
            BY <3>1, <3>2, <3>4 DEF HostInv, NoBounce
    <2>2. CASE WriteLands
        <3>1. /\ hostWrites # <<>> /\ board' = Head(hostWrites) /\ hostWrites' = Tail(hostWrites)
              /\ UNCHANGED <<ring, sampled, reported, forgot>>
            BY <2>2 DEF WriteLands
        <3>2. /\ hostWrites' \in Seq(OwnText) /\ board' = hostWrites[1] /\ 1 \in DOMAIN hostWrites
              /\ \A i \in DOMAIN hostWrites' : i + 1 \in DOMAIN hostWrites /\ hostWrites'[i] = hostWrites[i + 1]
            BY <3>1, HeadOrTail DEF HostInv
        <3> QED
            BY <3>1, <3>2 DEF HostInv, NoBounce
    <2>3. ASSUME NEW t \in UserText, UserCopies(t) PROVE HostInv'
        BY <2>3, AgentsAssumption DEF UserCopies, HostInv, NoBounce, AgentsAssumption
    <2>4. CASE TickReads
        BY <2>4 DEF TickReads, HostInv, NoBounce
    <2>5. CASE TickEnds
        BY <2>5 DEF TickEnds, SeenAs, HostInv, NoBounce
    <2>6. CASE RingForgets
        BY <2>6 DEF RingForgets, HostInv, NoBounce
    <2>7. CASE UNCHANGED hostVars
        BY <2>7 DEF hostVars, HostInv, NoBounce
    <2> QED
        BY <2>1, <2>2, <2>3, <2>4, <2>5, <2>6, <2>7 DEF HostNext, HostWork
<1>3. HostInv => NoBounce
    BY DEF HostInv
<1> QED
    BY <1>1, <1>2, <1>3, PTL DEF HostSpec

-----------------------------------------------------------------------------
(* The room of the VS Code extension *)

\* A room, or none; an opening.
VsPlaces == VsRooms \cup {NoVsRoom}
VsOpenings == [n : Nat, room : VsRooms, saves : BOOLEAN]

\* The openings that wait wait for the room of the last of them, and nothing has been
\* reported meanwhile; no room is welcomed that the transport is not in.
VsInv ==
    /\ vsSession \in VsPlaces /\ vsWelcomed \in BOOLEAN /\ vsOpens \in Nat
    /\ vsDeriving \subseteq VsOpenings /\ vsLinking \in Seq(VsOpenings)
    /\ vsParting \subseteq [room : VsRooms, then : {"lock", "unlock"}]
    /\ vsResuming \in VsPlaces /\ vsKeychain \in VsPlaces /\ vsReported \in VsPlaces
    /\ vsLeft \in BOOLEAN /\ vsRemember \in BOOLEAN
    /\ VsOneRoom /\ VsKeychainFollows /\ VsForgets
    /\ vsWelcomed => vsLink # NoVsRoom /\ vsLinking = <<>>
    /\ vsLink # NoVsRoom /\ ~vsWelcomed /\ vsLinking # <<>> => Last(vsLinking).room = vsLink
    /\ vsLinking # <<>> => vsReported = NoVsRoom

\* No room is no room, and a room locked or unlocked is one.
LEMMA VsRoomsAre ==
    /\ NoVsRoom \notin VsRooms
    /\ \A room \in VsRooms, b \in BOOLEAN : [key |-> room.key, locked |-> b] \in VsRooms
BY VsAssumption DEF VsAssumption, VsRooms, NoVsRoom

\* close() leaves no room behind, and nothing reported, whether there was one or not.
LEMMA VsClosed ==
    ASSUME VsInv, VsClose
    PROVE  vsSession' = NoVsRoom /\ vsLink' = NoVsRoom /\ vsWelcomed' = FALSE /\ vsReported' = NoVsRoom
BY DEF VsInv, VsClose, vsRoomVars, VsOneRoom, VsKeychainFollows

\* An opening begins: whatever was open is closed.
LEMMA VsStarted ==
    ASSUME VsInv, NEW room \in VsRooms, NEW saves \in BOOLEAN, VsStart(room, saves),
           UNCHANGED <<vsLinking, vsRemember, vsKeychain, vsLeft>>,
           vsParting' \subseteq [room : VsRooms, then : {"lock", "unlock"}],
           vsResuming' \in VsPlaces
    PROVE  VsInv'
<1>1. vsSession' = NoVsRoom /\ vsLink' = NoVsRoom /\ vsWelcomed' = FALSE /\ vsReported' = NoVsRoom
    BY VsClosed DEF VsStart
<1>2. vsDeriving' \subseteq VsOpenings /\ vsOpens' \in Nat
    BY DEF VsStart, VsInv, VsOpenings
<1> QED
    BY <1>1, <1>2 DEF VsInv, VsOneRoom, VsKeychainFollows, VsForgets, VsPlaces

\* One room, remembered as long as it is wanted.
THEOREM VsCodeRemembers == VsSpec => [](VsOneRoom /\ VsKeychainFollows /\ VsForgets)
<1>1. VsInit => VsInv
    <2> SUFFICES ASSUME VsInit PROVE VsInv
        OBVIOUS
    <2>1. <<>> \in Seq(VsOpenings)
        BY EmptySeq
    <2> QED
        BY <2>1 DEF VsInit, VsInv, VsPlaces, VsOneRoom, VsKeychainFollows, VsForgets
<1>2. VsInv /\ [VsNext]_vsVars => VsInv'
    <2> SUFFICES ASSUME VsInv, [VsNext]_vsVars PROVE VsInv'
        OBVIOUS
    <2>1. ASSUME NEW room \in VsRooms, VsOpenCommand(room) PROVE VsInv'
        BY <2>1, VsStarted DEF VsOpenCommand, VsInv
    <2>2. CASE VsResume
        <3>1. vsResuming \in VsRooms /\ vsResuming' = NoVsRoom
            BY <2>2 DEF VsResume, VsInv, VsPlaces
        <3> QED
            BY <2>2, <3>1, VsStarted DEF VsResume, VsInv, VsPlaces
    <2>3. CASE VsResumeDismissed
        BY <2>3 DEF VsResumeDismissed, vsRoomVars, vsKeepVars, vsFrameVars, VsInv, VsPlaces,
           VsOneRoom, VsKeychainFollows, VsForgets
    <2>4. ASSUME NEW d \in vsDeriving, VsDerived(d) PROVE VsInv'
        <3>1. d \in VsOpenings /\ d.room \in VsRooms
            BY DEF VsInv, VsOpenings
        <3>2. /\ vsLinking' \in Seq(VsOpenings) /\ Last(vsLinking') = d /\ vsLinking' # <<>>
            <4>1. vsLinking' = Append(vsLinking, d)
                BY <2>4 DEF VsDerived
            <4> QED
                BY <4>1, <3>1, AppendProperties DEF Last, VsInv
        <3> QED
            BY <2>4, <3>1, <3>2, VsRoomsAre DEF VsDerived, vsFrameVars, VsInv, VsPlaces,
               VsOneRoom, VsKeychainFollows, VsForgets
    <2>5. ASSUME NEW d \in vsDeriving, VsDeriveThrows(d) PROVE VsInv'
        BY <2>5 DEF VsDeriveThrows, vsRoomVars, vsKeepVars, vsFrameVars, VsInv,
           VsOneRoom, VsKeychainFollows, VsForgets
    <2>6. CASE VsWelcome
        <3> DEFINE kept == {vsLinking[i].room : i \in VsLastSaving}
        <3>1. /\ vsLink # NoVsRoom /\ ~vsWelcomed /\ vsWelcomed' = TRUE /\ vsLinking' = <<>>
              /\ vsKeychain' \in IF vsRemember /\ VsLastSaving # {} THEN kept ELSE {vsKeychain}
              /\ vsReported' = IF vsLinking # <<>> /\ Last(vsLinking).saves THEN Last(vsLinking).room
                               ELSE vsReported
              /\ UNCHANGED <<vsSession, vsLink, vsDeriving, vsParting, vsResuming, vsOpens, vsRemember, vsLeft>>
            BY <2>6 DEF VsWelcome
        <3>2. Len(vsLinking) \in Nat /\ DOMAIN vsLinking = 1..Len(vsLinking)
              /\ \A i \in DOMAIN vsLinking : vsLinking[i].room \in VsRooms
            <4>1. vsLinking \in Seq(VsOpenings)
                BY DEF VsInv
            <4>2. \A i \in 1..Len(vsLinking) : vsLinking[i] \in VsOpenings
                BY <4>1, ElementOfSeq
            <4> QED
                BY <4>1, <4>2, LenProperties DEF VsOpenings
        <3>3. kept \subseteq VsRooms
            BY <3>2 DEF VsLastSaving
        <3>4. vsKeychain' \in VsPlaces
            <4>1. vsKeychain' = vsKeychain \/ vsKeychain' \in kept
                BY <3>1
            <4> QED
                BY <4>1, <3>3 DEF VsInv, VsPlaces
        <3>5. ASSUME vsLinking # <<>>, Last(vsLinking).saves
              PROVE  Last(vsLinking).room = vsLink /\ VsLastSaving # {} /\ kept = {vsLink}
            <4>1. Len(vsLinking) \in DOMAIN vsLinking /\ Last(vsLinking) = vsLinking[Len(vsLinking)]
                BY <3>5, <3>2, EmptySeq DEF Last, VsInv
            <4>2. VsLastSaving = {Len(vsLinking)}
                <5>1. Len(vsLinking) \in VsLastSaving
                    BY <3>5, <3>2, <4>1 DEF VsLastSaving
                <5>2. \A i \in VsLastSaving : i = Len(vsLinking)
                    BY <3>5, <3>2, <4>1 DEF VsLastSaving
                <5> QED
                    BY <5>1, <5>2
            <4>3. Last(vsLinking).room = vsLink
                BY <3>5, <3>1 DEF VsInv
            <4> QED
                BY <4>1, <4>2, <4>3
        <3>6. ASSUME vsLinking = <<>> PROVE VsLastSaving = {}
            BY <3>6, EmptySeq DEF VsLastSaving
        <3> HIDE DEF kept
        <3>7. VsKeychainFollows'
            <4>1. CASE vsLinking # <<>> /\ Last(vsLinking).saves
                BY <4>1, <3>1, <3>5 DEF VsInv, VsOneRoom, VsKeychainFollows, VsForgets
            <4>2. CASE vsLinking # <<>> /\ ~Last(vsLinking).saves
                BY <4>2, <3>1 DEF VsInv, VsKeychainFollows
            <4>3. CASE vsLinking = <<>>
                BY <4>3, <3>1, <3>6 DEF VsInv, VsKeychainFollows
            <4> QED
                BY <4>1, <4>2, <4>3
        <3>8. VsForgets'
            BY <3>1 DEF VsInv, VsOneRoom, VsForgets
        <3>9. vsReported' \in VsPlaces /\ vsLinking' \in Seq(VsOpenings)
            BY <3>1, <3>5, EmptySeq DEF VsInv, VsOneRoom
        <3> QED
            BY <3>1, <3>4, <3>7, <3>8, <3>9 DEF VsInv, VsOneRoom
    <2>7. CASE VsLinkDrops
        <3>1. vsLinking = <<>> /\ vsLinking' = vsLinking
            BY <2>7 DEF VsLinkDrops, vsOpenVars, VsInv
        <3> QED
            BY <2>7, <3>1 DEF VsLinkDrops, vsOpenVars, vsKeepVars, VsInv, VsOneRoom, VsKeychainFollows, VsForgets
    <2>8. CASE VsOpenTimesOut
        <3>1. vsLinking # <<>> /\ vsLinking' = Tail(vsLinking)
            BY <2>8 DEF VsOpenTimesOut
        <3>2. vsLinking' \in Seq(VsOpenings) /\ (vsLinking' # <<>> => Last(vsLinking') = Last(vsLinking))
            BY <3>1, HeadTailProperties, EmptySeq DEF VsInv, Last
        <3> QED
            BY <2>8, <3>1, <3>2 DEF VsOpenTimesOut, vsRoomVars, vsKeepVars, VsInv, VsOneRoom,
               VsKeychainFollows, VsForgets
    <2>9. CASE VsLeave
        <3>1. vsSession' = NoVsRoom /\ vsLink' = NoVsRoom /\ vsWelcomed' = FALSE /\ vsReported' = NoVsRoom
            BY <2>9, VsClosed DEF VsLeave
        <3> QED
            BY <2>9, <3>1 DEF VsLeave, vsOpenVars, VsInv, VsPlaces, VsOneRoom, VsKeychainFollows, VsForgets
    <2>10. ASSUME NEW then \in {"lock", "unlock"}, VsPart(then) PROVE VsInv'
        <3>1. vsParting' \subseteq [room : VsRooms, then : {"lock", "unlock"}]
            BY <2>10 DEF VsPart, VsInv, VsPlaces
        <3> QED
            BY <2>10, <3>1 DEF VsPart, vsRoomVars, vsKeepVars, VsInv, VsOneRoom, VsKeychainFollows, VsForgets
    <2>11. ASSUME NEW part \in vsParting, VsParted(part) PROVE VsInv'
        <3>1. /\ vsParting' \subseteq [room : VsRooms, then : {"lock", "unlock"}] /\ part.room \in VsRooms
              /\ UNCHANGED <<vsLinking, vsResuming, vsRemember, vsKeychain, vsLeft>>
            BY <2>11 DEF VsParted, VsInv
        <3>2. CASE vsSession = NoVsRoom /\ UNCHANGED <<vsRoomVars, vsDeriving, vsOpens, vsReported>>
            BY <3>1, <3>2 DEF vsRoomVars, VsInv, VsOneRoom, VsKeychainFollows, VsForgets
        <3>3. CASE vsSession # NoVsRoom /\ VsStart([key |-> vsSession.key, locked |-> TRUE], TRUE)
            <4>1. [key |-> vsSession.key, locked |-> TRUE] \in VsRooms
                BY <3>3, VsRoomsAre DEF VsInv, VsPlaces
            <4> QED
                BY <3>1, <3>3, <4>1, VsStarted DEF VsInv
        <3>4. CASE VsStart([key |-> part.room.key, locked |-> FALSE], TRUE)
            <4>1. [key |-> part.room.key, locked |-> FALSE] \in VsRooms
                BY <3>1, VsRoomsAre
            <4> QED
                BY <3>1, <3>4, <4>1, VsStarted DEF VsInv
        <3> QED
            BY <2>11, <3>2, <3>3, <3>4 DEF VsParted
    <2>12. CASE VsSetRemember
        BY <2>12 DEF VsSetRemember, vsRoomVars, vsOpenVars, VsInv, VsPlaces, VsOneRoom,
           VsKeychainFollows, VsForgets
    <2>13. CASE VsReload
        <3>1. <<>> \in Seq(VsOpenings)
            BY EmptySeq
        <3>2. vsResuming' \in VsPlaces
            BY <2>13 DEF VsReload, VsInv, VsPlaces
        <3> QED
            <4>1. /\ vsSession' = NoVsRoom /\ vsLink' = NoVsRoom /\ vsWelcomed' = FALSE
                  /\ vsReported' = NoVsRoom /\ vsDeriving' = {} /\ vsLinking' = <<>>
                  /\ vsParting' = {} /\ vsOpens' = vsOpens + 1
                  /\ UNCHANGED <<vsRemember, vsKeychain, vsLeft>>
                BY <2>13 DEF VsReload
            <4>2. VsOneRoom' /\ VsKeychainFollows' /\ VsForgets'
                BY <4>1 DEF VsInv, VsOneRoom, VsKeychainFollows, VsForgets
            <4>3. NoVsRoom \in VsPlaces /\ vsOpens' \in Nat
                BY <4>1 DEF VsInv, VsPlaces
            <4> QED
                BY <4>1, <4>2, <4>3, <3>1, <3>2 DEF VsInv
    <2>14. CASE VsEvictArrives
        BY <2>14 DEF VsEvictArrives, vsRoomVars, vsOpenVars, vsKeepVars, VsInv, VsOneRoom,
           VsKeychainFollows, VsForgets
    <2>15. ASSUME NEW f \in vsEvictions, VsEvictOpens(f) PROVE VsInv'
        BY <2>15 DEF VsEvictOpens, vsOpenVars, VsInv, VsPlaces, VsOneRoom, VsKeychainFollows, VsForgets
    <2>16. CASE UNCHANGED vsVars
        BY <2>16 DEF vsVars, vsRoomVars, vsOpenVars, vsKeepVars, vsFrameVars, VsInv, VsOneRoom,
           VsKeychainFollows, VsForgets
    <2> QED
        BY <2>1, <2>2, <2>3, <2>4, <2>5, <2>6, <2>7, <2>8, <2>9, <2>10, <2>11, <2>12, <2>13,
           <2>14, <2>15, <2>16 DEF VsNext
<1>3. VsInv => VsOneRoom /\ VsKeychainFollows /\ VsForgets
    BY DEF VsInv
<1> QED
    BY <1>1, <1>2, <1>3, PTL DEF VsSpec

\* Only what was shown and agreed to is copied, when it reads like a command.
THEOREM VsCodeAsks == VsCopySpec => []VsConsent
<1>1. VsCopyInit => VsConsent
    BY DEF VsCopyInit, VsConsent
<1>2. VsConsent /\ [VsCopyNext]_vsClipVars => VsConsent'
    <2> SUFFICES ASSUME VsConsent, [VsCopyNext]_vsClipVars PROVE VsConsent'
        OBVIOUS
    <2>1. ASSUME NEW clip \in vsHistory, VsCopyClip(clip) PROVE VsConsent'
        BY <2>1 DEF VsCopyClip, VsPut, VsConsent
    <2>2. ASSUME NEW clip \in vsAsking, NEW agreed \in BOOLEAN, VsCopyAnyway(clip, agreed)
          PROVE  VsConsent'
        BY <2>2 DEF VsCopyAnyway, VsPut, VsConsent
    <2>3. CASE UNCHANGED vsCopied
        BY <2>3 DEF VsConsent
    <2> QED
        BY <2>1, <2>2, <2>3 DEF VsCopyNext, vsClipVars, VsSetRung, VsClipArrives, VsClipOpens
<1> QED
    BY <1>1, <1>2, PTL DEF VsCopySpec

-----------------------------------------------------------------------------
(* Side by side *)

\* The machines share no variable, and any of them may move at any time: together they
\* keep what the project asks of the surfaces without a page.
THEOREM AgentsKeepTheirWord ==
    RoomSpec /\ McpSpec /\ WorkerSpec /\ CliSpec /\ RunSpec /\ VsSpec /\ VsCopySpec
        => []AgentsAreHonest
<1>1. /\ AnswersWhereAsked /\ NoClipSwallowed /\ LinesInOrder /\ ExitIsHonest /\ RunCodeTells
      /\ KeyIsNoConsent /\ ClickWritesReviewed
      /\ VsOneRoom /\ VsKeychainFollows /\ VsForgets /\ VsConsent
      => AgentsAreHonest
    BY DEF AgentsAreHonest, VsCodeKeepsItsWord
<1> QED
    BY <1>1, RoomAnswers, ClipsAreGiven, PastesAreConsented, LinesGo, RunTells,
       VsCodeRemembers, VsCodeAsks, PTL
=============================================================================
