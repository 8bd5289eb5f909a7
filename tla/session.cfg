\* One device: openings that overtake each other, prompts, a lock with its
\* goodbye, an eviction, a drop, a change of rung and traffic both ways.
\* It may stop: a person need not ask for anything.
SPECIFICATION FairSpec
CONSTANTS
  MaxGen = 4
  MaxTraffic = 2
  MaxDrops = 1
  MaxFlips = 1
INVARIANTS
    StaysInItsRoom
    NothingForgotten
PROPERTIES
    InOrder
    SettlesOnLastRequest
CHECK_DEADLOCK FALSE
