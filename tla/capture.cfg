\* Two clips of either side, one of them flagged or junk; a refused write, and a
\* change of session or mode.
SPECIFICATION FairSpec
CONSTANTS
    Own = {"own"}
    Remote = {"r", "rm", "junk"}
    Risky = {"rm"}
    Junk = {"junk"}
    None = None
    MaxArrivals = 2
    MaxCopies = 1
    MaxRefusals = 1
    MaxMoves = 1
    MaxReads = 1
INVARIANTS
    OnlyWhatMayLand
    EditorHasNewest
PROPERTIES
    PendingGoesOut
CHECK_DEADLOCK FALSE
