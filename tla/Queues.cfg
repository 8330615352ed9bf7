\* A bounded queue, given tasks by clients and by other tasks: enough of them
\* to block every worker in run(). All five threads put and take in the blocking queues.
CONSTANTS
  Workers = {w1, w2, w3}
  Clients = {c1, c2}
  MaxQueue = 2
  MaxTasks = 8
SPECIFICATION FairSpec
INVARIANT NoLostNotification
PROPERTIES QueueSpec CallsServed
CHECK_DEADLOCK FALSE
