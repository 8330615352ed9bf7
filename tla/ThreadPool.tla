------------------------------ MODULE ThreadPool ------------------------------
(***************************************************************************)
(* thread_pool: workers take tasks from a queue that may be bounded, in    *)
(* which clients, and the tasks themselves, put more tasks.                *)
(*                                                                         *)
(* Each critical section of mutex_ is one step; a wait on a condition      *)
(* variable ends it and starts the next.  notify_one wakes any one of the  *)
(* threads that wait, which then tests its condition again, after whoever  *)
(* gets the mutex before it.  The workers' test of running_ in the while   *)
(* of run_in_thread is outside the mutex.                                  *)
(***************************************************************************)
EXTENDS Naturals, Sequences, FiniteSets, SequencesExt

CONSTANTS
  Workers,       \* the threads that start() may create
  Clients,       \* the other threads that call run()
  MaxQueue,      \* max_queue_size_; 0: no bound
  MaxTasks       \* bound: tasks ever given to run()

ASSUME PoolAssumption ==
  /\ Workers \cap Clients = {}
  /\ IsFiniteSet(Workers) /\ IsFiniteSet(Clients)
  /\ MaxQueue \in Nat
  /\ MaxTasks \in Nat

VARIABLES
  control,      \* where the caller of start() and stop() is
  running,      \* running_
  threads,      \* threads_
  queue,        \* queue_
  notEmpty,     \* the threads that wait on not_empty_
  notFull,      \* the threads that wait on not_full_
  pc,           \* where each thread is
  begun,        \* history: the tasks begun, oldest first
  accepted,     \* history: how many tasks were queued or run at once
  refused       \* history: how many tasks run() dropped

poolVars == <<control, running, threads>>
countVars == <<begun, accepted, refused>>
vars == <<poolVars, queue, notEmpty, notFull, pc, countVars>>

Threads == Workers \cup Clients
Tasks == 1..MaxTasks

(* idle: a client outside run(), a worker that was not started; check: at  *)
(* the test of running_; take: in take(); exec: in a task; run: in run();  *)
(* done: run_in_thread has returned.                                       *)
Places == {"idle", "check", "take", "exec", "run", "done"}

(* Types; assert(!is_full()), though between the wakeup of a thread in     *)
(* run() and its push another may take the room.                           *)
TypeOK ==
  /\ control \in {"new", "starting", "started", "joining", "joined"}
  /\ running \in BOOLEAN
  /\ threads \subseteq Workers
  /\ queue \in Seq(Tasks)
  /\ MaxQueue > 0 => Len(queue) <= MaxQueue
  /\ notEmpty \subseteq {w \in threads : pc[w] = "take"}
  /\ notFull \subseteq {t \in threads \cup Clients : pc[t] = "run"}
  /\ pc \in [Threads -> Places]
  /\ begun \in Seq(Tasks)
  /\ accepted \in 0..MaxTasks
  /\ refused \in 0..MaxTasks
  /\ \A w \in Workers \ threads : pc[w] = "idle"
  /\ \A c \in Clients : pc[c] \in {"idle", "run"}

Init ==
  /\ control = "new"
  /\ running = FALSE
  /\ threads = {}
  /\ queue = <<>>
  /\ notEmpty = {}
  /\ notFull = {}
  /\ pc = [t \in Threads |-> "idle"]
  /\ begun = <<>>
  /\ accepted = 0
  /\ refused = 0

-------------------------------------------------------------------------------
\* Tasks given to run(), those included that wait for room.
Given == accepted + refused + Cardinality({t \in Threads : pc[t] = "run"})

\* is_full
IsFull == MaxQueue > 0 /\ Len(queue) >= MaxQueue

\* What notify_one leaves of the threads that wait.
NotifyOne(waiting) == IF waiting = {} THEN {{}} ELSE {waiting \ {t} : t \in waiting}

\* start: running_ is raised before there is a thread.
Start ==
  /\ control = "new"
  /\ control' = "starting"
  /\ running' = TRUE
  /\ UNCHANGED <<threads, queue, notEmpty, notFull, pc, countVars>>

\* start: one more thread, which may take tasks while others are to come.
StartThread(w) ==
  /\ control = "starting"
  /\ w \notin threads
  /\ threads' = threads \cup {w}
  /\ pc' = [pc EXCEPT ![w] = "check"]
  /\ UNCHANGED <<control, running, queue, notEmpty, notFull, countVars>>

\* start returns: num_threads have been created.
Started ==
  /\ control = "starting"
  /\ control' = "started"
  /\ UNCHANGED <<running, threads, queue, notEmpty, notFull, pc, countVars>>

\* Faulty: only the threads that wait for tasks are told of the stop.
NotFullForgotten == notFull

\* stop: not_full_.notify_all()
NotFullAfterStop == {}

\* stop, and ~thread_pool: the critical section, before the joins.
Stop ==
  /\ control = "started"
  /\ control' = "joining"
  /\ running' = FALSE
  /\ notEmpty' = {}
  /\ notFull' = NotFullAfterStop
  /\ UNCHANGED <<threads, queue, pc, countVars>>

\* stop: every thread was joined.
Joined ==
  /\ control = "joining"
  /\ \A w \in threads : pc[w] = "done"
  /\ control' = "joined"
  /\ UNCHANGED <<running, threads, queue, notEmpty, notFull, pc, countVars>>

-------------------------------------------------------------------------------
(* run, called by a client or by a task.                                   *)

\* Where a thread returns to from run().
Caller(t) == IF t \in Clients THEN "idle" ELSE "exec"

MayCall(t) ==
  /\ Given < MaxTasks
  /\ pc[t] = Caller(t)

\* run without threads: the task is run by the caller.
RunHere(c) ==
  /\ MayCall(c)
  /\ c \in Clients
  /\ threads = {}
  /\ accepted' = accepted + 1
  /\ begun' = Append(begun, accepted + 1)
  /\ UNCHANGED <<poolVars, queue, notEmpty, notFull, pc, refused>>

\* run is called, and is about to take the mutex.
Run(t) ==
  /\ MayCall(t)
  /\ threads # {}
  /\ pc' = [pc EXCEPT ![t] = "run"]
  /\ UNCHANGED <<poolVars, queue, notEmpty, notFull, countVars>>

Awake(t) == t \notin notEmpty \cup notFull

\* The queue is full: wait.
RunWait(t) ==
  /\ pc[t] = "run" /\ Awake(t)
  /\ IsFull /\ running
  /\ notFull' = notFull \cup {t}
  /\ UNCHANGED <<poolVars, queue, notEmpty, pc, countVars>>

\* The pool was stopped: the task is dropped.
RunRefused(t) ==
  /\ pc[t] = "run" /\ Awake(t)
  /\ ~running
  /\ refused' = refused + 1
  /\ pc' = [pc EXCEPT ![t] = Caller(t)]
  /\ UNCHANGED <<poolVars, queue, notEmpty, notFull, begun, accepted>>

\* Faulty: no worker is told of the task.
NobodyTold == {notEmpty}

\* run: not_empty_.notify_one()
OneTold == NotifyOne(notEmpty)

\* There is room: push the task, wake a worker.
RunPush(t) ==
  /\ pc[t] = "run" /\ Awake(t)
  /\ ~IsFull /\ running
  /\ accepted' = accepted + 1
  /\ queue' = Append(queue, accepted + 1)
  /\ notEmpty' \in OneTold
  /\ pc' = [pc EXCEPT ![t] = Caller(t)]
  /\ UNCHANGED <<poolVars, notFull, begun, refused>>

-------------------------------------------------------------------------------
(* The workers.                                                            *)

\* while (running_), without the mutex.
Check(w) ==
  /\ pc[w] = "check"
  /\ pc' = [pc EXCEPT ![w] = IF running THEN "take" ELSE "done"]
  /\ UNCHANGED <<poolVars, queue, notEmpty, notFull, countVars>>

\* take: no task, wait.
TakeWait(w) ==
  /\ pc[w] = "take" /\ Awake(w)
  /\ queue = <<>> /\ running
  /\ notEmpty' = notEmpty \cup {w}
  /\ UNCHANGED <<poolVars, queue, notFull, pc, countVars>>

\* take: no task, and none will come.
TakeNothing(w) ==
  /\ pc[w] = "take" /\ Awake(w)
  /\ queue = <<>> /\ ~running
  /\ pc' = [pc EXCEPT ![w] = "check"]
  /\ UNCHANGED <<poolVars, queue, notEmpty, notFull, countVars>>

\* Faulty: only a take from a full queue tells of the room.
AfterTakeOfFull == IF IsFull THEN NotifyOne(notFull) ELSE {notFull}

\* The take of a task leaves room for one thread that waits in run().
AfterTake == IF MaxQueue > 0 THEN NotifyOne(notFull) ELSE {notFull}

\* Faulty: the newest task is taken.
Newest == Len(queue)

\* queue_.front()
Oldest == 1

\* take: the oldest task, which is begun at once.
Take(w) ==
  /\ pc[w] = "take" /\ Awake(w)
  /\ queue # <<>>
  /\ queue' = RemoveAt(queue, Oldest)
  /\ begun' = Append(begun, queue[Oldest])
  /\ notFull' \in AfterTake
  /\ pc' = [pc EXCEPT ![w] = "exec"]
  /\ UNCHANGED <<poolVars, notEmpty, accepted, refused>>

\* The task returns.
TaskReturns(w) ==
  /\ pc[w] = "exec"
  /\ pc' = [pc EXCEPT ![w] = "check"]
  /\ UNCHANGED <<poolVars, queue, notEmpty, notFull, countVars>>

-------------------------------------------------------------------------------
InRun(t) == RunWait(t) \/ RunRefused(t) \/ RunPush(t)

Worker(w) == Check(w) \/ TakeWait(w) \/ TakeNothing(w) \/ Take(w) \/ TaskReturns(w)

\* Threads may wake up for no reason.
Spurious ==
  \E t \in notEmpty \cup notFull :
    /\ notEmpty' = notEmpty \ {t}
    /\ notFull' = notFull \ {t}
    /\ UNCHANGED <<poolVars, queue, pc, countVars>>

Next ==
  \/ Start
  \/ \E w \in Workers : StartThread(w)
  \/ Started
  \/ Stop
  \/ Joined
  \/ \E c \in Clients : RunHere(c)
  \/ \E t \in Threads : Run(t) \/ InRun(t)
  \/ \E w \in Workers : Worker(w)
  \/ Spurious

Spec == Init /\ [][Next]_vars

-------------------------------------------------------------------------------
(* No task is forgotten (take, run): while workers wait on not_empty_, at  *)
(* least as many others are awake and about to take a task as there are    *)
(* tasks in the queue.                                                     *)
NoLostTask ==
  notEmpty # {} => Len(queue) <= Cardinality({w \in Workers : pc[w] = "take" /\ Awake(w)})

(* No room is forgotten (take, run): while threads wait on not_full_, at   *)
(* least as many others are awake in run() as there is room for tasks.     *)
NoLostRoom ==
  notFull # {} =>
    MaxQueue - Len(queue) <= Cardinality({t \in Threads : pc[t] = "run" /\ Awake(t)})

(* Types and the two of them together (run, take).                         *)
PoolForgetsNone == TypeOK /\ NoLostTask /\ NoLostRoom

\* Every worker is in run() and finds its own pool full: only stop() helps.
AllBlocked == IsFull /\ \A w \in threads : pc[w] = "run"

(* Queued tasks are begun, all there will ever be, without the help of     *)
(* spurious wakeups, unless the pool is stopped or its tasks have blocked  *)
(* all of its workers.                                                     *)
TasksBegun == []<>(queue = <<>> \/ ~running \/ AllBlocked)

(* stop() returns once the tasks do, even when every worker is blocked in  *)
(* run() on its own full pool, or between its test of running_ and its     *)
(* wait.                                                                   *)
StopReturns == control = "joining" ~> control = "joined"
===============================================================================
