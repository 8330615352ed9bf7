----------------------------- MODULE BlockingQueue -----------------------------
(***************************************************************************)
(* blocking_queue and bounded_blocking_queue: threads put items, and take  *)
(* them, and wait while they cannot.  The first has no bound, and can be   *)
(* drained; the second has a circular_buffer and a second condition        *)
(* variable for those who wait for room.                                   *)
(*                                                                         *)
(* Each critical section of mutex_ is one step, as in ThreadPool.tla.      *)
(***************************************************************************)
EXTENDS Naturals, Sequences, FiniteSets

CONSTANTS
  Users,       \* the threads
  MaxItems     \* bound: items ever put

VARIABLES
  capacity,    \* of the circular_buffer; 0: a blocking_queue, which has no bound
  queue,       \* queue_
  notEmpty,    \* the threads that wait on not_empty_
  notFull,     \* the threads that wait on not_full_
  pc,          \* where each thread is: in no call, in put or in take
  taken,       \* history: the items taken, oldest first
  accepted     \* history: how many items were put

bqVars == <<capacity, queue, notEmpty, notFull, pc, taken, accepted>>

Init ==
  /\ queue = <<>> /\ taken = <<>> /\ accepted = 0
  /\ notEmpty = {} /\ notFull = {}
  /\ pc = [t \in Users |-> "idle"]

-------------------------------------------------------------------------------
Full == capacity > 0 /\ Len(queue) = capacity

Awake(t) == t \notin notEmpty \cup notFull

NotifyOne(waiting) == IF waiting = {} THEN {{}} ELSE {waiting \ {t} : t \in waiting}

Goes(t, from, to) == pc[t] = from /\ Awake(t) /\ pc' = [pc EXCEPT ![t] = to]

\* put or take is called, and about to lock mutex_.
Call(t, operation) ==
  /\ Goes(t, "idle", operation)
  /\ operation = "put" => accepted + Cardinality({u \in Users : pc[u] = "put"}) < MaxItems
  /\ UNCHANGED <<capacity, queue, notEmpty, notFull, taken, accepted>>

\* put: there is no room.
PutWait(t) ==
  /\ Goes(t, "put", "put") /\ Full
  /\ notFull' = notFull \cup {t}
  /\ UNCHANGED <<capacity, queue, notEmpty, taken, accepted>>

\* put: push_back, and one of those who wait for items is told.
Put(t) ==
  /\ Goes(t, "put", "idle") /\ ~Full
  /\ queue' = Append(queue, accepted + 1)
  /\ accepted' = accepted + 1
  /\ notEmpty' \in NotifyOne(notEmpty)
  /\ UNCHANGED <<capacity, notFull, taken>>

\* take: there is nothing.
TakeWait(t) ==
  /\ Goes(t, "take", "take") /\ queue = <<>>
  /\ notEmpty' = notEmpty \cup {t}
  /\ UNCHANGED <<capacity, queue, notFull, taken, accepted>>

\* Faulty: room is only told of when there was none.
RoomOfFull == IF Full THEN NotifyOne(notFull) ELSE {notFull}

\* One of those who wait for room is told.
Room == NotifyOne(notFull)

\* take: front and pop_front; a bounded queue tells of the room.
Take(t) ==
  /\ Goes(t, "take", "idle") /\ queue # <<>>
  /\ taken' = Append(taken, Head(queue))
  /\ queue' = Tail(queue)
  /\ notFull' \in Room
  /\ UNCHANGED <<capacity, notEmpty, accepted>>

\* drain: the whole queue is moved out; nobody is told, as nobody waits for room.
Drain(t) ==
  /\ capacity = 0
  /\ Goes(t, "idle", "idle")
  /\ taken' = taken \o queue
  /\ queue' = <<>>
  /\ UNCHANGED <<capacity, notEmpty, notFull, accepted>>

\* Threads may wake up for no reason.
Spurious ==
  \E t \in notEmpty \cup notFull :
    /\ notEmpty' = notEmpty \ {t}
    /\ notFull' = notFull \ {t}
    /\ UNCHANGED <<capacity, queue, pc, taken, accepted>>

\* A thread goes on in its call.
Proceed(t) == PutWait(t) \/ Put(t) \/ TakeWait(t) \/ Take(t)

Next ==
  \/ \E t \in Users : (\E op \in {"put", "take"} : Call(t, op)) \/ Proceed(t) \/ Drain(t)
  \/ Spurious

-------------------------------------------------------------------------------
(* The asserts !queue_.empty() and !queue_.full(), which the waits are     *)
(* there for; nobody waits for room in a queue without a bound.            *)
AssertsHold ==
  /\ capacity > 0 => Len(queue) <= capacity
  /\ capacity = 0 => notFull = {}
  /\ \A t \in notEmpty : pc[t] = "take"
  /\ \A t \in notFull : pc[t] = "put"

\* The threads in put or in take that do not wait.
About(operation) == Cardinality({t \in Users : pc[t] = operation /\ Awake(t)})

(* While threads wait for items, or for room, at least as many others are  *)
(* about to take, or to put, as there are items, or room.                  *)
NoneForgotten ==
  /\ notEmpty # {} => Len(queue) <= About("take")
  /\ notFull # {} => capacity - Len(queue) <= About("put")
===============================================================================
