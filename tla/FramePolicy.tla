---------------------------- MODULE FramePolicy -----------------------------
(***************************************************************************)
(* The relay's rate limits (backend/main.py): one fixed-window counter per *)
(* class of frame and connection, and the class each kind of frame is      *)
(* charged to, those the relay cannot read included.  Time is counted in   *)
(* ticks, and a window is Window of them.                                  *)
(*                                                                         *)
(* A definition marked "Fault" is the next one with a bug one could        *)
(* plausibly write.                                                        *)
(***************************************************************************)
EXTENDS Integers, Sequences, FiniteSets

CONSTANTS
    Window,         \* RATE_LIMIT_WINDOW
    Limit,          \* CLASS_LIMITS, the same for the classes here
    MaxTicks, MaxSent   \* bounds: ticks; frames sent

ASSUME FramePolicyAssumption ==
    /\ {Window, Limit} \subseteq Nat \ {0}
    /\ {MaxTicks, MaxSent} \subseteq Nat

Class == {"interactive", "stream"}
Kind == {"clip", "typing", "unreadable"}

VARIABLES
    tick,
    count, start,   \* of each class: RateBuckets
    log             \* history: what came, when, and whether it was let through

policyVars == <<tick, count, start, log>>

\* FRAME_CLASS.  Fault: live typing shares the clips' class.
ClassOfShared(kind) == "interactive"
ClassOf(kind) == IF kind = "typing" THEN "stream" ELSE "interactive"

\* allow(): a window that is over starts again with the frame that finds it so.
Elapsed(c) == tick - start[c] > Window
Counted(c) == IF Elapsed(c) THEN 1 ELSE count[c] + 1
Allow(c) ==
    /\ count' = [count EXCEPT ![c] = Counted(c)]
    /\ start' = IF Elapsed(c) THEN [start EXCEPT ![c] = tick] ELSE start

\* _handle_raw, as far as its answer depends on the rate; a frame it cannot read is charged too.
Frame(kind) ==
    LET c == ClassOf(kind) IN
    /\ Len(log) < MaxSent
    /\ Allow(c)
    /\ log' = Append(log, [kind |-> kind, at |-> tick, ok |-> Counted(c) <= Limit])
    /\ UNCHANGED tick
TimePasses == tick < MaxTicks /\ tick' = tick + 1 /\ UNCHANGED <<count, start, log>>

PolicyInit == /\ tick = 0 /\ log = <<>>
              /\ count = [c \in Class |-> 0] /\ start = [c \in Class |-> 0]
PolicyNext == TimePasses \/ \E kind \in Kind : Frame(kind)
PolicySpec == PolicyInit /\ [][PolicyNext]_policyVars

\* What came in the window's length of time that ends with a tick.
Near(t) == {n \in DOMAIN log : log[n].at \in (t - Window)..t}
Control(n) == log[n].kind # "typing"

\* A connection whose clips and other control frames kept within the limit has had every one
\* of them handled, however much it streamed (main.py:327-331).
ClipsAreNotStarved ==
    (\A t \in 0..tick : Cardinality({n \in Near(t) : Control(n)}) <= Limit)
        => \A n \in DOMAIN log : Control(n) => log[n].ok

\* No window's length of time lets through more than two windows' worth, not even astride
\* the end of one.
AtMostTwoWindows == \A c \in Class :
    Cardinality({n \in Near(tick) : ClassOf(log[n].kind) = c /\ log[n].ok}) <= 2 * Limit

\* main.py:327-331: the limits are limits, and one kind of frame does not use up another's.
FairlyMetered == ClipsAreNotStarved /\ AtMostTwoWindows
=============================================================================
