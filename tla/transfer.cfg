\* A holder and a receiver: two requests, a frame lost, one delivered twice and
\* one cancel, over the relay (two chunks) and directly (one chunk).
\* It may stop: nobody need ask again.
SPECIFICATION FairSpec
CONSTANTS
  Size = 2
  RelayBytes = 1
  DirectBytes = 2
  MaxTries = 2
  MaxServes = 2
  MaxLost = 1
  MaxTwice = 1
  MaxCancels = 1
INVARIANTS
    EndsHonestly
PROPERTIES
    ArrivesWhole
    NothingHangs
CHECK_DEADLOCK FALSE
