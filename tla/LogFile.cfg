\* Files of three units, days of three seconds, a check at every second line,
\* a clock that is set back once.
CONSTANTS
  RollSize = 3
  FlushInterval = 1
  CheckEveryN = 2
  RollPerSeconds = 3
  LineLengths = {1, 2}
  MaxTime = 5
  MaxFileLines = 5
  MaxSteps = 1
SPECIFICATION FileSpec
INVARIANTS FilesConsistent FlushedInTime RolledInTime
CHECK_DEADLOCK FALSE
