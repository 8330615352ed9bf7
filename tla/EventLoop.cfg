\* Two threads beside the owner, two user channels, two rounds of loop().
CONSTANTS
  owner = main
  Threads = {main, t1, t2}
  Io = {sock, timerfd}
  wakeup = wakeup
  MaxFunctors = 3
  MaxQuits = 1
  MaxLoops = 2
SPECIFICATION FairSpec
INVARIANTS TypeOK NoLostWakeup NoLostQuit ChannelFunctorsRun
PROPERTIES QueueSpec LoopResponds
CHECK_DEADLOCK FALSE
