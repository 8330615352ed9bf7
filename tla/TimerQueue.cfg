\* Addresses are reused, and the wall clock may be set once.
CONSTANTS
  Threads = {t1}
  Addrs = {1, 2}
  Whens = {1, 2}
  Intervals = {0, 1}
  OneShot = OneShot
  Free = Free
  Never = Never
  MinDelay = 1
  MaxTime = 2
  MaxTimers = 2
  MaxCancels = 2
  MaxSteps = 1
SPECIFICATION FairSpec
INVARIANTS TimersConsistent AlarmInTime FatesKept
PROPERTY EveryTimerRuns
CHECK_DEADLOCK FALSE
