-------------------------------- MODULE Queues --------------------------------
(***************************************************************************)
(* The three queues of the repository that two condition variables guard:  *)
(* thread_pool's own (ThreadPool.tla), and the templates blocking_queue    *)
(* and bounded_blocking_queue (BlockingQueue.tla).  A behavior has one of  *)
(* them; they share their variables, and what is asked of them.            *)
(***************************************************************************)
EXTENDS ThreadPool

VARIABLES
  pool,         \* whether it is a thread_pool
  capacity      \* the bound of the blocking queue, 0 if it has none

allVars == <<vars, pool, capacity>>

BQ == INSTANCE BlockingQueue WITH Users <- Threads, MaxItems <- MaxTasks, taken <- begun

AnyInit ==
  /\ Init
  /\ pool \in BOOLEAN
  /\ capacity \in IF pool THEN {0} ELSE {0, MaxQueue}
  /\ ~pool => BQ!Init

OfPool == pool /\ UNCHANGED <<pool, capacity>>

OfQueue == ~pool /\ UNCHANGED <<poolVars, refused, pool>>

AnySpec == AnyInit /\ [][(OfPool /\ Next) \/ (OfQueue /\ BQ!Next)]_allVars

(* A thread that is not waiting goes on, tasks return, and stop() joins.   *)
(* Nothing is assumed of spurious wakeups: the notifications must do.      *)
FairSpec ==
  /\ AnySpec
  /\ WF_allVars(OfPool /\ Joined)
  /\ \A w \in Workers : WF_allVars(OfPool /\ Worker(w))
  /\ \A t \in Threads : WF_allVars(OfPool /\ InRun(t))
  /\ \A t \in Threads : WF_allVars(OfQueue /\ BQ!Proceed(t))

-------------------------------------------------------------------------------
(* No condition variable forgets whom it has to wake (put, take, run).     *)
NoLostNotification ==
  IF pool THEN PoolForgetsNone ELSE BQ!AssertsHold /\ BQ!NoneForgotten

\* What the queues promise to those who put something.
Queue == INSTANCE FunctorQueue
           WITH MaxFunctors <- MaxTasks, todo <- queue, done <- begun, accepted <- accepted

(* All three implement the functor queue: what was put is taken, or begun, *)
(* exactly once and in order, whoever takes it; run() before start() and   *)
(* without threads is done by its caller, and drain() takes all there is.  *)
QueueSpec == Queue!DrainedSpec

(* Nobody sleeps for ever on what is there (notify_one in put, take, run), *)
(* without the help of spurious wakeups: items do not stay while threads   *)
(* wait for them, nor room while threads wait for it.                      *)
SleepersWake ==
  /\ []<>(queue = <<>> \/ notEmpty = {})
  /\ []<>(Len(queue) = MaxQueue \/ notFull = {})

(* What calls wait for comes: sleepers wake, the tasks of a pool are       *)
(* begun, and stop() returns.                                              *)
CallsServed == SleepersWake /\ TasksBegun /\ StopReturns
===============================================================================
