\* A clip that waited for the grace window against one that did not, none flagged.
SPECIFICATION Spec
CONSTANTS
    Own = {"own"}
    Remote = {"r", "rm", "junk"}
    Risky = {}
    Junk = {"junk"}
    None = None
    MaxArrivals = 2
    MaxCopies = 1
    MaxRefusals = 1
    MaxMoves = 1
    MaxReads = 1
PROPERTIES
    NeverRollsBack
CHECK_DEADLOCK FALSE
