\* Up to three loops, started, handed out up to twice and destroyed.
CONSTANTS
  MaxThreads = 3
  Hashes = {0, 5}
  MaxPicks = 2
SPECIFICATION FairSpec
INVARIANTS LoopsConsistent NoThreadLeft
PROPERTIES CallsReturn
CHECK_DEADLOCK FALSE
