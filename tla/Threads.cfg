\* Two threads; two passes, where glibc has four; the constructor of the singleton throws once.
CONSTANTS
  Threads = {t1, t2}
  MaxThrows = 1
  MaxPasses = 2
SPECIFICATION FairSpec
INVARIANTS CallsMeanIt NothingOutlived
PROPERTY CallsReturn
CHECK_DEADLOCK FALSE
