----------------------------- MODULE QueuesProofs -----------------------------
(***************************************************************************)
(* The safety of the three queues that two condition variables guard, for  *)
(* any threads and any bound: no condition variable forgets whom it has to *)
(* wake, and what is put is taken once and in order.                       *)
(*                                                                         *)
(* thread_pool and the two templates differ in what their threads do       *)
(* between two waits and not in how they wait: the lemmas of the first     *)
(* part speak of kinds of step that all three have.                        *)
(***************************************************************************)
EXTENDS Queues, FiniteSetTheorems, SequenceTheorems, TLAPS

\* Where the threads are that put something: in run() or in put().
Putting == IF pool THEN "run" ELSE "put"

\* The room there is in all; 0: no bound.
Bound == IF pool THEN MaxQueue ELSE capacity

InTake == {t \in Threads : pc[t] = "take"}
InPut == {t \in Threads : pc[t] = Putting}

\* The threads that do not wait and go on once they have mutex_.
Takers == {t \in InTake : t \notin notEmpty \cup notFull}
Putters == {t \in InPut : t \notin notEmpty \cup notFull}

(* Who waits, waits in the right place, and is not forgotten.              *)
WaitInv ==
  /\ notEmpty \subseteq InTake
  /\ notFull \subseteq InPut
  /\ Bound = 0 => notFull = {}
  /\ notEmpty # {} => Len(queue) <= Cardinality(Takers)
  /\ notFull # {} => Bound - Len(queue) <= Cardinality(Putters)

\* There is a number left for what each thread is about to put.
GivenInv == accepted + refused + Cardinality(InPut) <= MaxTasks

(* Where threads can be; run() does not wait for room in a pool that does  *)
(* not run.                                                                *)
PoolInv ==
  pool => /\ control \in {"new", "starting", "started", "joining", "joined"}
          /\ running \in BOOLEAN
          /\ threads \subseteq Workers
          /\ pc \in [Threads -> Places]
          /\ \A w \in Workers \ threads : pc[w] = "idle"
          /\ \A c \in Clients : pc[c] \in {"idle", "run"}
          /\ MaxQueue > 0 => Len(queue) <= MaxQueue
          /\ ~running => notFull = {}

QueueInv ==
  ~pool => /\ pc \in [Threads -> {"idle", "put", "take"}]
           /\ capacity > 0 => Len(queue) <= capacity
           /\ refused = 0

\* What is the same of all three, in every state.
Common ==
  /\ pool \in BOOLEAN /\ capacity \in Nat
  /\ pc \in [Threads -> Places \cup {"put"}]
  /\ queue \in Seq(Tasks)
  /\ accepted \in Nat /\ refused \in Nat
  /\ begun \in Seq(Tasks)

\* The inductive invariant.
IInv == Common /\ WaitInv /\ GivenInv /\ PoolInv /\ QueueInv

-------------------------------------------------------------------------------
(* Sets of threads.                                                        *)

LEMMA FiniteThreads == IsFiniteSet(Threads) /\ Workers \subseteq Threads /\ Clients \subseteq Threads
  BY PoolAssumption, FS_Union DEF Threads

LEMMA Counted ==
  ASSUME NEW S \in SUBSET Threads
  PROVE  IsFiniteSet(S) /\ Cardinality(S) \in Nat /\ (Cardinality(S) = 0 <=> S = {})
  BY FiniteThreads, FS_Subset, FS_CardinalityType, FS_EmptySet

LEMMA NotFewer ==
  ASSUME NEW S \in SUBSET Threads, NEW T \in SUBSET Threads, S \subseteq T
  PROVE  Cardinality(S) <= Cardinality(T)
  BY Counted, FS_Subset

LEMMA OneMore ==
  ASSUME NEW S \in SUBSET Threads, NEW T \in SUBSET Threads, NEW t \in T, t \notin S, S \subseteq T
  PROVE  Cardinality(T) >= Cardinality(S) + 1
<1>1. Cardinality(S \cup {t}) = Cardinality(S) + 1
  BY Counted, FS_AddElement
<1>2. S \cup {t} \in SUBSET Threads /\ S \cup {t} \subseteq T
  OBVIOUS
<1> QED
  BY <1>1, <1>2, NotFewer

LEMMA OneLess ==
  ASSUME NEW S \in SUBSET Threads, NEW T \in SUBSET Threads, NEW t \in S, S \ {t} \subseteq T
  PROVE  Cardinality(T) >= Cardinality(S) - 1 /\ Cardinality(S) >= 1
<1>1. Cardinality(S \ {t}) = Cardinality(S) - 1 /\ S \ {t} \in SUBSET Threads
  BY Counted, FS_RemoveElement
<1> QED
  BY <1>1, NotFewer, Counted

-------------------------------------------------------------------------------
(* Kinds of step.                                                          *)

\* The sets of threads and the numbers that the invariant compares.
LEMMA Sizes ==
  ASSUME Common
  PROVE  /\ Bound \in Nat /\ Len(queue) \in Nat /\ Putting # "take"
         /\ InTake \in SUBSET Threads /\ InPut \in SUBSET Threads
         /\ Takers \in SUBSET Threads /\ Putters \in SUBSET Threads
         /\ Cardinality(Takers) \in Nat /\ Cardinality(Putters) \in Nat
         /\ Cardinality(InPut) \in Nat
<1>1. Bound \in Nat
  BY PoolAssumption DEF Common, Bound
<1>2. /\ InTake \in SUBSET Threads /\ InPut \in SUBSET Threads
      /\ Takers \in SUBSET Threads /\ Putters \in SUBSET Threads
  BY DEF InTake, InPut, Takers, Putters
<1>3. /\ Cardinality(Takers) \in Nat /\ Cardinality(Putters) \in Nat
      /\ Cardinality(InPut) \in Nat
  BY <1>2, Counted
<1>4. Len(queue) \in Nat
  BY DEF Common
<1>5. Putting # "take"
  <2>1. CASE pool
    BY <2>1 DEF Putting
  <2>2. CASE ~pool
    BY <2>2 DEF Putting
  <2> QED
    BY <2>1, <2>2
<1> QED
  BY <1>1, <1>2, <1>3, <1>4, <1>5

\* What every kind of step needs to know of the state it leads to.
LEMMA SizesAfter ==
  ASSUME UNCHANGED <<pool, capacity>>
  PROVE  /\ Bound' = Bound /\ Putting' = Putting
         /\ Takers' \in SUBSET Threads /\ Putters' \in SUBSET Threads
         /\ Cardinality(Takers') \in Nat /\ Cardinality(Putters') \in Nat
<1>1. Bound' = Bound /\ Putting' = Putting
  BY DEF Bound, Putting
<1>2. Takers' \in SUBSET Threads /\ Putters' \in SUBSET Threads
  BY DEF InTake, InPut, Takers, Putters
<1> QED
  BY <1>1, <1>2, Counted

\* A thread that was neither taking nor putting goes elsewhere, to p.
LEMMA Enters ==
  ASSUME Common, WaitInv, UNCHANGED <<pool, capacity>>,
         UNCHANGED <<queue, notEmpty, notFull>>,
         NEW t \in Threads, NEW p, pc' = [pc EXCEPT ![t] = p], pc[t] \notin {"take", Putting}
  PROVE  WaitInv'
<1>1. Bound' = Bound /\ Putting' = Putting /\ Putting # "take"
  BY Sizes, SizesAfter
<1>2. InTake \subseteq InTake' /\ InPut \subseteq InPut'
  BY <1>1 DEF Common, WaitInv, InTake, InPut
<1>3. Takers \subseteq Takers' /\ Putters \subseteq Putters'
  BY <1>1, <1>2 DEF Common, WaitInv, InTake, InPut, Takers, Putters
<1>4. Cardinality(Takers') >= Cardinality(Takers) /\ Cardinality(Putters') >= Cardinality(Putters)
  BY <1>1, <1>3, Sizes, SizesAfter, NotFewer
<1> QED
  BY <1>1, <1>2, <1>4, Sizes, SizesAfter DEF WaitInv

\* Threads wake up without a notification.
LEMMA Spares ==
  ASSUME Common, WaitInv, UNCHANGED <<pool, capacity>>,
         UNCHANGED <<queue, pc>>, notEmpty' \subseteq notEmpty, notFull' \subseteq notFull
  PROVE  WaitInv'
<1>1. Bound' = Bound /\ Putting' = Putting /\ Putting # "take"
  BY Sizes, SizesAfter
<1>2. InTake' = InTake /\ InPut' = InPut
  BY <1>1 DEF Common, WaitInv, InTake, InPut
<1>3. Takers \subseteq Takers' /\ Putters \subseteq Putters'
  BY <1>1, <1>2 DEF Common, WaitInv, InTake, InPut, Takers, Putters
<1>4. Cardinality(Takers') >= Cardinality(Takers) /\ Cardinality(Putters') >= Cardinality(Putters)
  BY <1>1, <1>3, Sizes, SizesAfter, NotFewer
<1> QED
  BY <1>1, <1>2, <1>4, Sizes, SizesAfter DEF WaitInv

\* A thread in take finds nothing.
LEMMA WaitsForItem ==
  ASSUME Common, WaitInv, UNCHANGED <<pool, capacity>>,
         UNCHANGED <<queue, notFull, pc>>,
         NEW t \in InTake, t \notin notFull, queue = <<>>, notEmpty' = notEmpty \cup {t}
  PROVE  WaitInv'
<1>1. Bound' = Bound /\ Putting' = Putting /\ Putting # "take"
  BY Sizes, SizesAfter
<1>2. InTake' = InTake /\ InPut' = InPut /\ t \notin InPut
  BY <1>1 DEF Common, WaitInv, InTake, InPut
<1>3. Putters \subseteq Putters'
  BY <1>1, <1>2 DEF Common, WaitInv, InTake, InPut, Takers, Putters
<1>4. Cardinality(Putters') >= Cardinality(Putters) /\ Len(queue) = 0
  BY <1>1, <1>3, Sizes, SizesAfter, NotFewer
<1> QED
  BY <1>1, <1>2, <1>4, Sizes, SizesAfter DEF WaitInv

\* A thread in put finds no room.
LEMMA WaitsForRoom ==
  ASSUME Common, WaitInv, UNCHANGED <<pool, capacity>>,
         UNCHANGED <<queue, notEmpty, pc>>,
         NEW t \in InPut, t \notin notEmpty, Bound > 0, Len(queue) >= Bound, notFull' = notFull \cup {t}
  PROVE  WaitInv'
<1>1. Bound' = Bound /\ Putting' = Putting /\ Putting # "take"
  BY Sizes, SizesAfter
<1>2. InTake' = InTake /\ InPut' = InPut /\ t \notin InTake
  BY <1>1 DEF Common, WaitInv, InTake, InPut
<1>3. Takers \subseteq Takers'
  BY <1>1, <1>2 DEF Common, WaitInv, InTake, InPut, Takers, Putters
<1>4. Cardinality(Takers') >= Cardinality(Takers)
  BY <1>1, <1>3, Sizes, SizesAfter, NotFewer
<1> QED
  BY <1>1, <1>2, <1>4, Sizes, SizesAfter DEF WaitInv

\* A thread in take finds nothing, and goes elsewhere.
LEMMA TakesNothing ==
  ASSUME Common, WaitInv, UNCHANGED <<pool, capacity>>,
         UNCHANGED <<queue, notEmpty, notFull>>,
         NEW t \in Takers, queue = <<>>, NEW p, pc' = [pc EXCEPT ![t] = p]
  PROVE  WaitInv'
<1>1. Bound' = Bound /\ Putting' = Putting /\ Putting # "take"
  BY Sizes, SizesAfter
<1>2. notEmpty \subseteq InTake' /\ notFull \subseteq InPut' /\ InPut \subseteq InPut'
  BY <1>1 DEF Common, WaitInv, InTake, InPut, Takers
<1>3. Putters \subseteq Putters'
  BY <1>2 DEF Putters
<1>4. Cardinality(Putters') >= Cardinality(Putters) /\ Len(queue) = 0
  BY <1>1, <1>3, Sizes, SizesAfter, NotFewer
<1> QED
  BY <1>1, <1>2, <1>4, Sizes, SizesAfter DEF WaitInv

\* A thread in put gives up, when nobody waits for room.
LEMMA PutsNothing ==
  ASSUME Common, WaitInv, UNCHANGED <<pool, capacity>>,
         UNCHANGED <<queue, notEmpty, notFull>>, notFull = {},
         NEW t \in Putters, NEW p, pc' = [pc EXCEPT ![t] = p]
  PROVE  WaitInv'
<1>1. Bound' = Bound /\ Putting' = Putting /\ Putting # "take"
  BY Sizes, SizesAfter
<1>2. notEmpty \subseteq InTake' /\ InTake \subseteq InTake'
  BY <1>1 DEF Common, WaitInv, InTake, InPut, Putters
<1>3. Takers \subseteq Takers'
  BY <1>2 DEF Takers
<1>4. Cardinality(Takers') >= Cardinality(Takers)
  BY <1>1, <1>3, Sizes, SizesAfter, NotFewer
<1> QED
  BY <1>1, <1>2, <1>4, Sizes, SizesAfter DEF WaitInv

\* notify_one: one of those who wait is told, if any does.
OneOf(waiting, left) == \/ waiting = {} /\ left = {}
                        \/ \E t \in waiting : left = waiting \ {t}

\* A thread puts, and tells one of those who wait for items.
LEMMA Puts ==
  ASSUME Common, WaitInv, UNCHANGED <<pool, capacity>>,
         Len(queue') = Len(queue) + 1, OneOf(notEmpty, notEmpty'), notFull' = notFull,
         NEW t \in Putters, NEW p, p \notin {"take", Putting}, pc' = [pc EXCEPT ![t] = p]
  PROVE  WaitInv'
<1>1. Bound' = Bound /\ Putting' = Putting /\ Putting # "take"
  BY Sizes, SizesAfter
<1>2. InTake' = InTake /\ InPut' = InPut \ {t} /\ t \in InPut /\ t \notin notFull /\ t \notin InTake
  BY <1>1 DEF Common, InTake, InPut, Putters
<1>3. notEmpty' \subseteq notEmpty
  BY DEF OneOf
<1>4. Cardinality(Putters') >= Cardinality(Putters) - 1
  <2>1. Putters \ {t} \subseteq Putters'
    BY <1>2, <1>3 DEF Putters
  <2> QED
    BY <2>1, Sizes, SizesAfter, OneLess
<1>5. ASSUME notEmpty' # {}
      PROVE  notEmpty # {} /\ Cardinality(Takers') >= Cardinality(Takers) + 1
  <2>1. PICK u \in notEmpty : notEmpty' = notEmpty \ {u}
    BY <1>5 DEF OneOf
  <2>2. u \in InTake /\ u \notin notFull
    BY <1>1 DEF WaitInv, InTake, InPut
  <2>3. u \in Takers' /\ u \notin Takers /\ Takers \subseteq Takers'
    BY <1>2, <2>1, <2>2 DEF Takers
  <2> QED
    BY <2>1, <2>3, Sizes, SizesAfter, OneMore
<1> QED
  BY <1>1, <1>2, <1>3, <1>4, <1>5, Sizes, SizesAfter DEF WaitInv

\* A thread takes, and tells one of those who wait for room.
LEMMA Takes ==
  ASSUME Common, WaitInv, UNCHANGED <<pool, capacity>>,
         Len(queue') = Len(queue) - 1, OneOf(notFull, notFull'), notEmpty' = notEmpty,
         NEW t \in Takers, NEW p, p \notin {"take", Putting}, pc' = [pc EXCEPT ![t] = p]
  PROVE  WaitInv'
<1>1. Bound' = Bound /\ Putting' = Putting /\ Putting # "take"
  BY Sizes, SizesAfter
<1>2. InPut' = InPut /\ InTake' = InTake \ {t} /\ t \in InTake /\ t \notin notEmpty /\ t \notin InPut
  BY <1>1 DEF Common, InTake, InPut, Takers
<1>3. notFull' \subseteq notFull
  BY DEF OneOf
<1>4. Cardinality(Takers') >= Cardinality(Takers) - 1
  <2>1. Takers \ {t} \subseteq Takers'
    BY <1>2, <1>3 DEF Takers
  <2> QED
    BY <2>1, Sizes, SizesAfter, OneLess
<1>5. ASSUME notFull' # {}
      PROVE  notFull # {} /\ Cardinality(Putters') >= Cardinality(Putters) + 1
  <2>1. PICK u \in notFull : notFull' = notFull \ {u}
    BY <1>5 DEF OneOf
  <2>2. u \in InPut /\ u \notin notEmpty
    BY <1>1 DEF WaitInv, InTake, InPut
  <2>3. u \in Putters' /\ u \notin Putters /\ Putters \subseteq Putters'
    BY <1>2, <2>1, <2>2 DEF Putters
  <2> QED
    BY <2>1, <2>3, Sizes, SizesAfter, OneMore
<1> QED
  BY <1>1, <1>2, <1>3, <1>4, <1>5, Sizes, SizesAfter DEF WaitInv

\* The queue is emptied, or everybody is told, or none of this.
LEMMA Empties ==
  ASSUME Common, WaitInv, UNCHANGED <<pool, capacity>>,
         queue' = <<>>, notFull = {}, UNCHANGED <<notEmpty, notFull, pc>>
  PROVE  WaitInv'
<1>1. Len(queue') = 0 /\ InTake' = InTake
  BY DEF InTake
<1> QED
  BY <1>1, SizesAfter DEF WaitInv

LEMMA TellsAll ==
  ASSUME Common, WaitInv, UNCHANGED <<pool, capacity>>, notEmpty' = {}, notFull' = {}
  PROVE  WaitInv'
  BY DEF WaitInv

-------------------------------------------------------------------------------
(* The numbers of what is put.                                             *)

\* Nothing is given, or what a thread was about to put is given, or dropped.
LEMMA GivenSame ==
  ASSUME Common, GivenInv, UNCHANGED <<pool, accepted, refused>>, InPut' \subseteq InPut
  PROVE  GivenInv'
<1>1. Cardinality(InPut') <= Cardinality(InPut) /\ Cardinality(InPut') \in Nat
  BY Sizes, NotFewer, Counted
<1> QED
  BY <1>1, Sizes, PoolAssumption DEF Common, GivenInv

LEMMA GivenLeaves ==
  ASSUME Common, GivenInv, UNCHANGED pool,
         \/ accepted' = accepted + 1 /\ refused' = refused
         \/ accepted' = accepted /\ refused' = refused + 1,
         NEW t \in InPut, InPut' = InPut \ {t}
  PROVE  GivenInv' /\ accepted < MaxTasks
<1>1. IsFiniteSet(InPut) /\ Cardinality(InPut) \in Nat /\ Cardinality(InPut) # 0
  BY Sizes, Counted
<1>2. Cardinality(InPut \ {t}) = Cardinality(InPut) - 1
  BY <1>1, FS_RemoveElement
<1>3. accepted \in Nat /\ refused \in Nat /\ MaxTasks \in Nat
  BY PoolAssumption DEF Common
<1>4. accepted + refused + Cardinality(InPut) <= MaxTasks
  BY DEF GivenInv
<1>5. accepted' + refused' + Cardinality(InPut \ {t}) <= MaxTasks
  BY <1>1, <1>2, <1>3, <1>4
<1>6. accepted < MaxTasks
  BY <1>1, <1>3, <1>4
<1> QED
  BY <1>2, <1>5, <1>6 DEF GivenInv

\* There is a number left, for one more thread in run() or in put().
LEMMA GivenEnters ==
  ASSUME Common, UNCHANGED <<pool, accepted, refused>>,
         accepted + refused + Cardinality(InPut) < MaxTasks,
         NEW t \in Threads, InPut' \subseteq InPut \cup {t}
  PROVE  GivenInv'
<1> DEFINE more == InPut \cup {t}
<1>0. IsFiniteSet(InPut) /\ Cardinality(InPut) \in Nat /\ more \in SUBSET Threads
  BY Sizes, Counted
<1>1. Cardinality(more) <= Cardinality(InPut) + 1 /\ more \in SUBSET Threads
  <2>1. Cardinality(more) = Cardinality(InPut) \/ Cardinality(more) = Cardinality(InPut) + 1
    BY <1>0, FS_AddElement
  <2> QED
    BY <1>0, <2>1
<1>2. Cardinality(InPut') <= Cardinality(more) /\ Cardinality(InPut') \in Nat
  <2>1. InPut' \in SUBSET Threads /\ InPut' \subseteq more
    BY <1>1
  <2> QED
    BY <1>1, <2>1, NotFewer, Counted
<1>3. Cardinality(more) \in Nat
  BY <1>1, Counted
<1> QED
  BY <1>1, <1>2, <1>3, <1>0, PoolAssumption DEF Common, GivenInv

\* The history is within its bounds.
LEMMA Numbered ==
  ASSUME Common, GivenInv
  PROVE  accepted \in 0..MaxTasks /\ refused \in 0..MaxTasks
  BY Sizes, PoolAssumption DEF Common, GivenInv

-------------------------------------------------------------------------------
(* thread_pool.                                                            *)

LEMMA PutsInRun ==
  ASSUME pool
  PROVE  Putting = "run" /\ Bound = MaxQueue /\ InPut = {t \in Threads : pc[t] = "run"}
  BY DEF Putting, InPut, Bound

LEMMA NotifyOneIs == \A S, T : T \in NotifyOne(S) => OneOf(S, T)
  BY DEF NotifyOne, OneOf

\* Only the place of one thread changes in the pool, which is a client or a worker that is there.
LEMMA Moves ==
  ASSUME IInv, pool, UNCHANGED <<poolVars, pool>>,
         MaxQueue > 0 => Len(queue') <= MaxQueue, notFull' \subseteq notFull \/ running,
         NEW t \in Threads, NEW p \in Places, pc' = [pc EXCEPT ![t] = p],
         IF t \in Clients THEN p \in {"idle", "run"} ELSE pc[t] # "idle"
  PROVE  PoolInv'
  BY PoolAssumption DEF IInv, PoolInv, poolVars, Threads

\* Nothing but the caller of start() and stop() goes on.
LEMMA ControlMoves ==
  ASSUME IInv, pool, UNCHANGED <<pool, capacity, queue, notEmpty, notFull, pc, countVars>>,
         threads' = threads, control' \in {"starting", "started", "joined"},
         running' \in BOOLEAN, ~running' => ~running
  PROVE  IInv'
<1>1. Common' /\ PoolInv' /\ QueueInv'
  BY DEF IInv, Common, PoolInv, QueueInv, countVars
<1>2. WaitInv' /\ GivenInv'
  BY DEF IInv, WaitInv, GivenInv, Bound, Putting, InTake, InPut, Takers, Putters, countVars
<1> QED
  BY <1>1, <1>2 DEF IInv

LEMMA StartKeeps == ASSUME IInv, OfPool, Start PROVE IInv'
  BY ControlMoves DEF OfPool, Start

LEMMA StartedKeeps == ASSUME IInv, OfPool, Started PROVE IInv'
  BY ControlMoves DEF OfPool, Started, IInv, PoolInv

LEMMA JoinedKeeps == ASSUME IInv, OfPool, Joined PROVE IInv'
  BY ControlMoves DEF OfPool, Joined, IInv, PoolInv

LEMMA StopKeeps == ASSUME IInv, OfPool, Stop PROVE IInv'
<1>1. pool /\ UNCHANGED <<pool, capacity, queue, pc, countVars, threads>>
  BY DEF OfPool, Stop
<1>2. notEmpty' = {} /\ notFull' = {} /\ running' = FALSE /\ control' = "joining"
  BY DEF Stop, NotFullAfterStop
<1>3. WaitInv'
  BY <1>1, <1>2, TellsAll DEF IInv
<1>4. Common' /\ PoolInv' /\ QueueInv'
  BY <1>1, <1>2 DEF IInv, Common, PoolInv, QueueInv, countVars
<1>5. GivenInv'
  BY <1>1 DEF IInv, GivenInv, InPut, Putting, countVars
<1> QED
  BY <1>3, <1>4, <1>5 DEF IInv

LEMMA StartThreadKeeps ==
  ASSUME IInv, OfPool, NEW w \in Workers, StartThread(w)
  PROVE  IInv'
<1>1. /\ pool /\ UNCHANGED <<pool, capacity, control, running, queue, notEmpty, notFull, countVars>>
      /\ w \notin threads /\ threads' = threads \cup {w} /\ pc' = [pc EXCEPT ![w] = "check"]
  BY DEF OfPool, StartThread
<1>2. w \in Threads /\ pc[w] = "idle"
  BY <1>1, FiniteThreads DEF IInv, PoolInv
<1>3. WaitInv'
  BY <1>1, <1>2, Enters, PutsInRun DEF IInv
<1>4. GivenInv'
  <2>1. InPut' \subseteq InPut
    BY <1>1, PutsInRun DEF IInv, Common, InPut, Putting
  <2> QED
    BY <1>1, <2>1, GivenSame DEF IInv, countVars
<1>5. Common' /\ QueueInv'
  <2>1. pc' \in [Threads -> Places \cup {"put"}]
    BY <1>1 DEF IInv, Common, Places
  <2> QED
    BY <1>1, <2>1 DEF IInv, Common, QueueInv, countVars
<1>6. PoolInv'
  BY <1>1, <1>2, PoolAssumption DEF IInv, PoolInv, Places, Threads
<1> QED
  BY <1>3, <1>4, <1>5, <1>6 DEF IInv

\* run() without threads does not queue the task.
LEMMA RunHereKeeps ==
  ASSUME IInv, OfPool, NEW c \in Clients, RunHere(c)
  PROVE  IInv'
<1>1. /\ pool /\ UNCHANGED <<pool, capacity, control, running, threads, queue, notEmpty, notFull, pc, refused>>
      /\ accepted' = accepted + 1 /\ begun' = Append(begun, accepted + 1)
      /\ accepted + refused + Cardinality(InPut) < MaxTasks
  BY PutsInRun DEF OfPool, RunHere, MayCall, Given, poolVars
<1>2. WaitInv' /\ PoolInv' /\ QueueInv'
  BY <1>1 DEF IInv, WaitInv, PoolInv, QueueInv, Bound, Putting, InTake, InPut, Takers, Putters
<1>3. accepted + 1 \in Tasks /\ accepted' + refused' + Cardinality(InPut) <= MaxTasks
  <2>1. /\ accepted \in Nat /\ refused \in Nat /\ Cardinality(InPut) \in Nat /\ MaxTasks \in Nat
    BY Sizes, PoolAssumption DEF IInv, Common
  <2> QED
    BY <1>1, <2>1 DEF Tasks
<1>4. GivenInv' /\ Common'
  BY <1>1, <1>3 DEF IInv, Common, GivenInv, InPut, Putting
<1> QED
  BY <1>2, <1>4 DEF IInv

\* run() is called.
LEMMA RunKeeps ==
  ASSUME IInv, OfPool, NEW t \in Threads, Run(t)
  PROVE  IInv'
<1>1. /\ pool /\ UNCHANGED <<pool, capacity, control, running, threads, queue, notEmpty, notFull, countVars>>
      /\ pc' = [pc EXCEPT ![t] = "run"] /\ pc[t] \in {"idle", "exec"}
      /\ t \notin Clients => pc[t] # "idle"
      /\ accepted + refused + Cardinality(InPut) < MaxTasks
  BY PutsInRun DEF OfPool, Run, MayCall, Caller, Given, poolVars
<1>2. WaitInv'
  BY <1>1, Enters, PutsInRun DEF IInv
<1>3. GivenInv'
  <2>1. InPut' \subseteq InPut \cup {t}
    BY <1>1 DEF IInv, Common, InPut, Putting
  <2> QED
    BY <1>1, <2>1, GivenEnters DEF IInv, countVars
<1>4. Common' /\ QueueInv'
  <2>1. pc' \in [Threads -> Places \cup {"put"}]
    BY <1>1 DEF IInv, Common, Places
  <2> QED
    BY <1>1, <2>1 DEF IInv, Common, QueueInv, countVars
<1>5. PoolInv'
  BY <1>1, Moves DEF IInv, PoolInv, poolVars, Places
<1> QED
  BY <1>2, <1>3, <1>4, <1>5 DEF IInv

\* run() waits for room.
LEMMA RunWaitKeeps ==
  ASSUME IInv, OfPool, NEW t \in Threads, RunWait(t)
  PROVE  IInv'
<1>1. /\ pool /\ UNCHANGED <<pool, capacity, control, running, threads, queue, notEmpty, pc, countVars>>
      /\ pc[t] = "run" /\ t \notin notEmpty /\ running
      /\ MaxQueue > 0 /\ Len(queue) >= MaxQueue /\ notFull' = notFull \cup {t}
  BY DEF OfPool, RunWait, Awake, IsFull, poolVars
<1>2. WaitInv'
  BY <1>1, WaitsForRoom, PutsInRun DEF IInv
<1>3. GivenInv' /\ Common' /\ QueueInv' /\ PoolInv'
  BY <1>1 DEF IInv, GivenInv, Common, QueueInv, PoolInv, InPut, Putting, countVars
<1> QED
  BY <1>2, <1>3 DEF IInv

\* run() drops the task.
LEMMA RunRefusedKeeps ==
  ASSUME IInv, OfPool, NEW t \in Threads, RunRefused(t)
  PROVE  IInv'
<1>1. /\ pool /\ UNCHANGED <<pool, capacity, control, running, threads, queue, notEmpty, notFull, begun, accepted>>
      /\ pc[t] = "run" /\ t \notin notEmpty \cup notFull /\ ~running
      /\ refused' = refused + 1 /\ pc' = [pc EXCEPT ![t] = Caller(t)]
  BY DEF OfPool, RunRefused, Awake, poolVars
<1>2. Caller(t) \in {"idle", "exec"} /\ (t \in Clients => Caller(t) = "idle")
  BY DEF Caller
<1>3. notFull = {} /\ t \in Putters /\ t \in InPut
  BY <1>1, PutsInRun DEF IInv, PoolInv, Putters
<1>4. WaitInv'
  BY <1>1, <1>3, PutsNothing DEF IInv
<1>5. GivenInv'
  <2>1. InPut' = InPut \ {t}
    BY <1>1, <1>2 DEF IInv, Common, InPut, Putting
  <2> QED
    BY <1>1, <1>3, <2>1, GivenLeaves DEF IInv
<1>6. Common' /\ QueueInv'
  <2>1. pc' \in [Threads -> Places \cup {"put"}]
    BY <1>1, <1>2 DEF IInv, Common, Places
  <2> QED
    BY <1>1, <2>1 DEF IInv, Common, QueueInv
<1>7. PoolInv'
  BY <1>1, <1>2, Moves DEF IInv, PoolInv, poolVars, Places
<1> QED
  BY <1>4, <1>5, <1>6, <1>7 DEF IInv

\* run() pushes the task, and tells a worker.
LEMMA RunPushKeeps ==
  ASSUME IInv, OfPool, NEW t \in Threads, RunPush(t)
  PROVE  IInv'
<1>1. /\ pool /\ UNCHANGED <<pool, capacity, control, running, threads, notFull, begun, refused>>
      /\ pc[t] = "run" /\ t \notin notEmpty \cup notFull /\ running
      /\ ~(MaxQueue > 0 /\ Len(queue) >= MaxQueue)
      /\ accepted' = accepted + 1 /\ queue' = Append(queue, accepted + 1)
      /\ pc' = [pc EXCEPT ![t] = Caller(t)]
  BY DEF OfPool, RunPush, Awake, IsFull, poolVars
<1>2. Caller(t) \in {"idle", "exec"} /\ (t \in Clients => Caller(t) = "idle")
  BY DEF Caller
<1>3. t \in Putters /\ t \in InPut
  BY <1>1, PutsInRun DEF Putters
<1>4. OneOf(notEmpty, notEmpty')
  BY NotifyOneIs DEF RunPush, OneTold
<1>5. GivenInv' /\ accepted < MaxTasks
  <2>1. InPut' = InPut \ {t}
    BY <1>1, <1>2 DEF IInv, Common, InPut, Putting
  <2> QED
    BY <1>1, <1>3, <2>1, GivenLeaves DEF IInv
<1>6. /\ accepted + 1 \in Tasks /\ queue' \in Seq(Tasks) /\ Len(queue') = Len(queue) + 1
      /\ Len(queue) \in Nat
  BY <1>1, <1>5, PoolAssumption DEF IInv, Common, Tasks
<1>7. WaitInv'
  BY <1>1, <1>2, <1>3, <1>4, <1>6, PutsInRun, Puts DEF IInv
<1>8. Common' /\ QueueInv'
  <2>1. pc' \in [Threads -> Places \cup {"put"}]
    BY <1>1, <1>2 DEF IInv, Common, Places
  <2>2. accepted' \in Nat
    BY <1>1 DEF IInv, Common
  <2> QED
    BY <1>1, <1>6, <2>1, <2>2 DEF IInv, Common, QueueInv
<1>9. PoolInv'
  <2>1. MaxQueue > 0 => Len(queue') <= MaxQueue
    BY <1>1, <1>6, PoolAssumption
  <2> QED
    BY <1>1, <1>2, <2>1, Moves DEF IInv, PoolInv, poolVars, Places
<1> QED
  BY <1>5, <1>7, <1>8, <1>9 DEF IInv

\* A worker goes on, and puts nothing.
LEMMA WorkerMoves ==
  ASSUME IInv, OfPool, UNCHANGED <<poolVars, accepted, refused>>,
         NEW w \in Workers, NEW p \in {"check", "take", "exec", "done"},
         pc' = [pc EXCEPT ![w] = p], pc[w] \notin {"idle", "run"},
         queue' \in Seq(Tasks), Len(queue') <= Len(queue), begun' \in Seq(Tasks),
         notFull' \subseteq notFull
  PROVE  Common' /\ GivenInv' /\ PoolInv' /\ QueueInv'
<1>1. w \in Threads /\ w \notin Clients /\ pool /\ UNCHANGED <<pool, capacity>>
  BY FiniteThreads, PoolAssumption DEF OfPool
<1>2. Common'
  BY <1>1 DEF IInv, Common, Places
<1>3. GivenInv'
  <2>1. InPut' \subseteq InPut
    BY <1>1, PutsInRun DEF IInv, Common, InPut, Putting
  <2> QED
    BY <1>1, <2>1, GivenSame DEF IInv
<1>4. PoolInv'
  <2>1. Len(queue') \in Nat /\ Len(queue) \in Nat
    BY DEF IInv, Common
  <2>2. MaxQueue > 0 => Len(queue') <= MaxQueue
    BY <1>1, <2>1, PoolAssumption DEF IInv, PoolInv
  <2> QED
    BY <1>1, <2>2, Moves DEF Places
<1> QED
  BY <1>1, <1>2, <1>3, <1>4 DEF QueueInv

LEMMA CheckKeeps ==
  ASSUME IInv, OfPool, NEW w \in Workers, Check(w)
  PROVE  IInv'
<1>1. /\ pool /\ w \in Threads /\ UNCHANGED <<pool, capacity, queue, notEmpty, notFull, poolVars, countVars>>
      /\ pc[w] = "check"
  BY FiniteThreads DEF OfPool, Check
<1>2. PICK p \in {"take", "done"} : pc' = [pc EXCEPT ![w] = p]
  BY DEF Check
<1>3. WaitInv'
  BY <1>1, <1>2, Enters, PutsInRun DEF IInv
<1>4. queue' \in Seq(Tasks) /\ begun' \in Seq(Tasks) /\ Len(queue') <= Len(queue)
  BY <1>1 DEF IInv, Common, countVars
<1> QED
  BY <1>1, <1>2, <1>3, <1>4, WorkerMoves DEF IInv, countVars

LEMMA TaskReturnsKeeps ==
  ASSUME IInv, OfPool, NEW w \in Workers, TaskReturns(w)
  PROVE  IInv'
<1>1. /\ pool /\ w \in Threads /\ UNCHANGED <<pool, capacity, queue, notEmpty, notFull, poolVars, countVars>>
      /\ pc[w] = "exec" /\ pc' = [pc EXCEPT ![w] = "check"]
  BY FiniteThreads DEF OfPool, TaskReturns
<1>2. WaitInv'
  BY <1>1, Enters, PutsInRun DEF IInv
<1>3. queue' \in Seq(Tasks) /\ begun' \in Seq(Tasks) /\ Len(queue') <= Len(queue)
  BY <1>1 DEF IInv, Common, countVars
<1> QED
  BY <1>1, <1>2, <1>3, WorkerMoves DEF IInv, countVars

LEMMA TakeNothingKeeps ==
  ASSUME IInv, OfPool, NEW w \in Workers, TakeNothing(w)
  PROVE  IInv'
<1>1. /\ pool /\ w \in Threads /\ UNCHANGED <<pool, capacity, queue, notEmpty, notFull, poolVars, countVars>>
      /\ pc[w] = "take" /\ w \notin notEmpty \cup notFull /\ queue = <<>>
      /\ pc' = [pc EXCEPT ![w] = "check"]
  BY FiniteThreads DEF OfPool, TakeNothing, Awake
<1>2. WaitInv'
  <2>1. w \in Takers
    BY <1>1 DEF Takers, InTake
  <2> QED
    BY <1>1, <2>1, TakesNothing DEF IInv
<1>3. queue' \in Seq(Tasks) /\ begun' \in Seq(Tasks) /\ Len(queue') <= Len(queue)
  BY <1>1 DEF IInv, Common, countVars
<1> QED
  BY <1>1, <1>2, <1>3, WorkerMoves DEF IInv, countVars

LEMMA TakeWaitKeeps ==
  ASSUME IInv, OfPool, NEW w \in Workers, TakeWait(w)
  PROVE  IInv'
<1>1. /\ pool /\ w \in Threads /\ UNCHANGED <<pool, capacity, queue, notFull, pc, poolVars, countVars>>
      /\ pc[w] = "take" /\ w \notin notEmpty \cup notFull /\ queue = <<>>
      /\ notEmpty' = notEmpty \cup {w}
  BY FiniteThreads DEF OfPool, TakeWait, Awake
<1>2. WaitInv'
  BY <1>1, WaitsForItem DEF IInv, InTake
<1>3. Common' /\ GivenInv' /\ PoolInv' /\ QueueInv'
  BY <1>1 DEF IInv, Common, GivenInv, PoolInv, QueueInv, InPut, Putting, countVars, poolVars
<1> QED
  BY <1>2, <1>3 DEF IInv

\* The oldest task is taken, and what remains is the queue without it.
LEMMA TakenOldest ==
  ASSUME NEW q \in Seq(Tasks), q # <<>>
  PROVE  /\ RemoveAt(q, Oldest) = Tail(q) /\ q[Oldest] = Head(q)
         /\ Tail(q) \in Seq(Tasks) /\ Head(q) \in Tasks /\ Len(Tail(q)) = Len(q) - 1
<1>1. SubSeq(q, 1, 0) = <<>> /\ SubSeq(q, 2, Len(q)) = Tail(q)
  OBVIOUS
<1>2. <<>> \o Tail(q) = Tail(q)
  OBVIOUS
<1> QED
  BY <1>1, <1>2 DEF RemoveAt, Oldest

LEMMA TakeKeeps ==
  ASSUME IInv, OfPool, NEW w \in Workers, Take(w)
  PROVE  IInv'
<1>1. /\ pool /\ w \in Threads /\ UNCHANGED <<pool, capacity, notEmpty, poolVars, accepted, refused>>
      /\ pc[w] = "take" /\ w \notin notEmpty \cup notFull /\ queue # <<>>
      /\ pc' = [pc EXCEPT ![w] = "exec"]
      /\ queue' = RemoveAt(queue, Oldest) /\ begun' = Append(begun, queue[Oldest])
  BY FiniteThreads DEF OfPool, Take, Awake
<1>2. queue' = Tail(queue) /\ queue[Oldest] \in Tasks /\ queue' \in Seq(Tasks)
      /\ Len(queue') = Len(queue) - 1
  BY <1>1, TakenOldest DEF IInv, Common
<1>3. OneOf(notFull, notFull')
  <2>1. CASE MaxQueue > 0
    BY <2>1, NotifyOneIs DEF Take, AfterTake
  <2>2. CASE ~(MaxQueue > 0)
    <3>1. notFull' = notFull /\ notFull = {}
      BY <1>1, <2>2, PutsInRun, PoolAssumption DEF Take, AfterTake, IInv, WaitInv
    <3> QED
      BY <3>1 DEF OneOf
  <2> QED
    BY <2>1, <2>2
<1>4. WaitInv'
  <2>1. w \in Takers
    BY <1>1 DEF Takers, InTake
  <2>2. "exec" \notin {"take", Putting}
    BY <1>1, PutsInRun
  <2> QED
    BY <1>1, <1>2, <1>3, <2>1, <2>2, Takes DEF IInv
<1>5. begun' \in Seq(Tasks) /\ Len(queue') <= Len(queue) /\ notFull' \subseteq notFull
  <2>1. Len(queue) \in Nat /\ begun \in Seq(Tasks)
    BY DEF IInv, Common
  <2>2. notFull' \subseteq notFull
    BY <1>3 DEF OneOf
  <2> QED
    BY <1>1, <1>2, <2>1, <2>2
<1> QED
  BY <1>1, <1>2, <1>4, <1>5, WorkerMoves DEF IInv

LEMMA SpuriousKeeps == ASSUME IInv, OfPool, Spurious PROVE IInv'
<1>1. /\ pool /\ UNCHANGED <<pool, capacity, queue, pc, poolVars, countVars>>
      /\ notEmpty' \subseteq notEmpty /\ notFull' \subseteq notFull
  BY DEF OfPool, Spurious
<1>2. WaitInv'
  BY <1>1, Spares DEF IInv
<1>3. Common' /\ GivenInv' /\ PoolInv' /\ QueueInv'
  BY <1>1 DEF IInv, Common, GivenInv, PoolInv, QueueInv, InPut, Putting, countVars, poolVars
<1> QED
  BY <1>2, <1>3 DEF IInv

LEMMA PoolStep == IInv /\ OfPool /\ Next => IInv'
  BY StartKeeps, StartThreadKeeps, StartedKeeps, StopKeeps, JoinedKeeps, RunHereKeeps, RunKeeps,
     RunWaitKeeps, RunRefusedKeeps, RunPushKeeps, CheckKeeps, TakeWaitKeeps, TakeNothingKeeps,
     TakeKeeps, TaskReturnsKeeps, SpuriousKeeps, FiniteThreads
  DEF Next, InRun, Worker

-------------------------------------------------------------------------------
(* blocking_queue and bounded_blocking_queue.                              *)

LEMMA PutsInPut ==
  ASSUME ~pool
  PROVE  Putting = "put" /\ Bound = capacity /\ InPut = {t \in Threads : pc[t] = "put"}
  BY DEF Putting, InPut, Bound

LEMMA SameSize == \A S : BQ!Cardinality(S) = Cardinality(S)
  BY DEF BQ!Cardinality, Cardinality

LEMMA QueueNotifies == \A S, T : T \in BQ!NotifyOne(S) => OneOf(S, T)
  BY DEF BQ!NotifyOne, OneOf

\* A thread goes on, and what is put is numbered.
LEMMA UserMoves ==
  ASSUME IInv, OfQueue, UNCHANGED capacity, GivenInv',
         NEW t \in Threads, NEW p \in {"idle", "put", "take"}, pc' = [pc EXCEPT ![t] = p],
         queue' \in Seq(Tasks), capacity > 0 => Len(queue') <= capacity,
         begun' \in Seq(Tasks), accepted' \in Nat
  PROVE  Common' /\ PoolInv' /\ QueueInv'
<1>1. ~pool /\ UNCHANGED <<pool, refused>>
  BY DEF OfQueue
<1>2. Common'
  BY <1>1 DEF IInv, Common, Places
<1>3. QueueInv'
  BY <1>1 DEF IInv, QueueInv
<1> QED
  BY <1>1, <1>2, <1>3 DEF PoolInv

LEMMA CallKeeps ==
  ASSUME IInv, OfQueue, NEW t \in Threads, NEW op \in {"put", "take"}, BQ!Call(t, op)
  PROVE  IInv'
<1>1. /\ ~pool /\ UNCHANGED <<pool, capacity, queue, notEmpty, notFull, begun, accepted, refused>>
      /\ pc[t] = "idle" /\ pc' = [pc EXCEPT ![t] = op]
  BY DEF OfQueue, BQ!Call, BQ!Goes
<1>2. WaitInv'
  BY <1>1, Enters, PutsInPut DEF IInv
<1>3. GivenInv'
  <2>1. CASE op = "put"
    <3>1. InPut' \subseteq InPut \cup {t}
      BY <1>1 DEF IInv, Common, InPut, Putting
    <3>2. accepted + refused + Cardinality(InPut) < MaxTasks
      <4>1. refused = 0 /\ accepted \in Nat
        BY <1>1 DEF IInv, Common, QueueInv
      <4>2. accepted + Cardinality({u \in Threads : pc[u] = "put"}) < MaxTasks
        <5>1. op = "put" => accepted + Cardinality({u \in Threads : pc[u] = "put"}) < MaxTasks
          BY SameSize DEF BQ!Call
        <5> QED
          BY <2>1, <5>1
      <4>3. InPut = {u \in Threads : pc[u] = "put"}
        BY <1>1, PutsInPut
      <4> QED
        BY <4>1, <4>2, <4>3
    <3> QED
      BY <1>1, <3>1, <3>2, GivenEnters DEF IInv
  <2>2. CASE op = "take"
    <3>1. InPut' \subseteq InPut
      BY <1>1, <2>2, PutsInPut DEF IInv, Common, InPut, Putting
    <3> QED
      BY <1>1, <3>1, GivenSame DEF IInv
  <2> QED
    BY <2>1, <2>2
<1>4. /\ queue' \in Seq(Tasks) /\ (capacity > 0 => Len(queue') <= capacity)
      /\ begun' \in Seq(Tasks) /\ accepted' \in Nat
  BY <1>1 DEF IInv, Common, QueueInv
<1>5. Common' /\ PoolInv' /\ QueueInv'
  BY <1>1, <1>3, <1>4, UserMoves
<1> QED
  BY <1>2, <1>3, <1>5 DEF IInv

LEMMA PutWaitKeeps ==
  ASSUME IInv, OfQueue, NEW t \in Threads, BQ!PutWait(t)
  PROVE  IInv'
<1>1. /\ ~pool /\ UNCHANGED <<pool, capacity, queue, notEmpty, begun, accepted, refused>>
      /\ pc[t] = "put" /\ t \notin notEmpty \cup notFull /\ pc' = [pc EXCEPT ![t] = "put"]
      /\ capacity > 0 /\ Len(queue) = capacity /\ notFull' = notFull \cup {t}
  BY DEF OfQueue, BQ!PutWait, BQ!Goes, BQ!Awake, BQ!Full
<1>2. pc' = pc
  BY <1>1 DEF IInv, Common
<1>3. WaitInv'
  <2>1. t \in InPut /\ Bound > 0 /\ Len(queue) >= Bound
    BY <1>1, PutsInPut DEF IInv, Common
  <2> QED
    BY <1>1, <1>2, <2>1, WaitsForRoom DEF IInv
<1>4. Common' /\ GivenInv' /\ PoolInv' /\ QueueInv'
  BY <1>1, <1>2 DEF IInv, Common, GivenInv, PoolInv, QueueInv, InPut, Putting
<1> QED
  BY <1>3, <1>4 DEF IInv

LEMMA PutKeeps ==
  ASSUME IInv, OfQueue, NEW t \in Threads, BQ!Put(t)
  PROVE  IInv'
<1>1. /\ ~pool /\ UNCHANGED <<pool, capacity, notFull, begun, refused>>
      /\ pc[t] = "put" /\ t \notin notEmpty \cup notFull /\ pc' = [pc EXCEPT ![t] = "idle"]
      /\ ~BQ!Full
      /\ accepted' = accepted + 1 /\ queue' = Append(queue, accepted + 1)
  BY DEF OfQueue, BQ!Put, BQ!Goes, BQ!Awake
<1>2. t \in Putters /\ t \in InPut
  BY <1>1, PutsInPut DEF Putters
<1>3. OneOf(notEmpty, notEmpty')
  BY QueueNotifies DEF BQ!Put
<1>4. GivenInv' /\ accepted < MaxTasks
  <2>1. InPut' = InPut \ {t}
    BY <1>1, PutsInPut DEF IInv, Common, InPut, Putting
  <2> QED
    BY <1>1, <1>2, <2>1, GivenLeaves DEF IInv
<1>5. /\ accepted + 1 \in Tasks /\ queue' \in Seq(Tasks) /\ Len(queue') = Len(queue) + 1
      /\ begun' \in Seq(Tasks) /\ accepted' \in Nat
  BY <1>1, <1>4, PoolAssumption DEF IInv, Common, Tasks
<1>6. WaitInv'
  <2>1. "idle" \notin {"take", Putting}
    BY <1>1, PutsInPut
  <2> QED
    BY <1>1, <1>2, <1>3, <1>5, <2>1, Puts DEF IInv
<1>7. capacity > 0 => Len(queue') <= capacity
  <2>1. Len(queue) \in Nat /\ capacity \in Nat
    BY DEF IInv, Common
  <2> QED
    BY <1>1, <1>5, <2>1 DEF IInv, QueueInv, BQ!Full
<1>8. Common' /\ PoolInv' /\ QueueInv'
  BY <1>1, <1>4, <1>5, <1>7, UserMoves
<1> QED
  BY <1>4, <1>6, <1>8 DEF IInv

LEMMA QueueTakeWaitKeeps ==
  ASSUME IInv, OfQueue, NEW t \in Threads, BQ!TakeWait(t)
  PROVE  IInv'
<1>1. /\ ~pool /\ UNCHANGED <<pool, capacity, queue, notFull, begun, accepted, refused>>
      /\ pc[t] = "take" /\ t \notin notEmpty \cup notFull /\ pc' = [pc EXCEPT ![t] = "take"]
      /\ queue = <<>> /\ notEmpty' = notEmpty \cup {t}
  BY DEF OfQueue, BQ!TakeWait, BQ!Goes, BQ!Awake
<1>2. pc' = pc
  BY <1>1 DEF IInv, Common
<1>3. WaitInv'
  BY <1>1, <1>2, WaitsForItem DEF IInv, InTake
<1>4. Common' /\ GivenInv' /\ PoolInv' /\ QueueInv'
  BY <1>1, <1>2 DEF IInv, Common, GivenInv, PoolInv, QueueInv, InPut, Putting
<1> QED
  BY <1>3, <1>4 DEF IInv

LEMMA QueueTakeKeeps ==
  ASSUME IInv, OfQueue, NEW t \in Threads, BQ!Take(t)
  PROVE  IInv'
<1>1. /\ ~pool /\ UNCHANGED <<pool, capacity, notEmpty, accepted, refused>>
      /\ pc[t] = "take" /\ t \notin notEmpty \cup notFull /\ pc' = [pc EXCEPT ![t] = "idle"]
      /\ queue # <<>> /\ queue' = Tail(queue) /\ begun' = Append(begun, Head(queue))
  BY DEF OfQueue, BQ!Take, BQ!Goes, BQ!Awake
<1>2. OneOf(notFull, notFull')
  BY QueueNotifies DEF BQ!Take, BQ!Room
<1>3. Head(queue) \in Tasks /\ queue' \in Seq(Tasks) /\ Len(queue') = Len(queue) - 1
  BY <1>1, TakenOldest DEF IInv, Common
<1>4. WaitInv'
  <2>1. t \in Takers /\ "idle" \notin {"take", Putting}
    BY <1>1, PutsInPut DEF Takers, InTake
  <2> QED
    BY <1>1, <1>2, <1>3, <2>1, Takes DEF IInv
<1>5. GivenInv'
  <2>1. InPut' \subseteq InPut
    BY <1>1, PutsInPut DEF IInv, Common, InPut, Putting
  <2> QED
    BY <1>1, <2>1, GivenSame DEF IInv
<1>6. begun' \in Seq(Tasks) /\ accepted' \in Nat
  BY <1>1, <1>3 DEF IInv, Common
<1>8. capacity > 0 => Len(queue') <= capacity
  <2>1. Len(queue) \in Nat /\ capacity \in Nat
    BY DEF IInv, Common
  <2> QED
    BY <1>1, <1>3, <2>1 DEF IInv, QueueInv
<1>7. Common' /\ PoolInv' /\ QueueInv'
  BY <1>1, <1>3, <1>5, <1>6, <1>8, UserMoves
<1> QED
  BY <1>4, <1>5, <1>7 DEF IInv

LEMMA DrainKeeps ==
  ASSUME IInv, OfQueue, NEW t \in Threads, BQ!Drain(t)
  PROVE  IInv'
<1>1. /\ ~pool /\ UNCHANGED <<pool, capacity, notEmpty, notFull, accepted, refused>>
      /\ capacity = 0 /\ pc[t] = "idle" /\ pc' = [pc EXCEPT ![t] = "idle"]
      /\ queue' = <<>> /\ begun' = begun \o queue
  BY DEF OfQueue, BQ!Drain, BQ!Goes
<1>2. pc' = pc
  BY <1>1 DEF IInv, Common
<1>3. WaitInv'
  <2>1. notFull = {}
    BY <1>1, PutsInPut DEF IInv, WaitInv
  <2> QED
    BY <1>1, <1>2, <2>1, Empties DEF IInv
<1>4. begun' \in Seq(Tasks) /\ queue' \in Seq(Tasks)
  BY <1>1 DEF IInv, Common
<1>5. Common' /\ PoolInv' /\ QueueInv'
  BY <1>1, <1>2, <1>4 DEF IInv, Common, PoolInv, QueueInv
<1>6. GivenInv'
  BY <1>1, <1>2 DEF IInv, GivenInv, InPut, Putting
<1> QED
  BY <1>3, <1>5, <1>6 DEF IInv

LEMMA QueueSpuriousKeeps == ASSUME IInv, OfQueue, BQ!Spurious PROVE IInv'
<1>1. /\ ~pool /\ UNCHANGED <<pool, capacity, queue, pc, begun, accepted, refused>>
      /\ notEmpty' \subseteq notEmpty /\ notFull' \subseteq notFull
  BY DEF OfQueue, BQ!Spurious
<1>2. WaitInv'
  BY <1>1, Spares DEF IInv
<1>3. Common' /\ GivenInv' /\ PoolInv' /\ QueueInv'
  BY <1>1 DEF IInv, Common, GivenInv, PoolInv, QueueInv, InPut, Putting
<1> QED
  BY <1>2, <1>3 DEF IInv

LEMMA QueueStep == IInv /\ OfQueue /\ BQ!Next => IInv'
  BY CallKeeps, PutWaitKeeps, PutKeeps, QueueTakeWaitKeeps, QueueTakeKeeps, DrainKeeps,
     QueueSpuriousKeeps
  DEF BQ!Next, BQ!Proceed

-------------------------------------------------------------------------------
LEMMA InitIInv == AnyInit => IInv
<1> SUFFICES ASSUME AnyInit PROVE IInv
  OBVIOUS
<1>1. /\ queue = <<>> /\ notEmpty = {} /\ notFull = {} /\ begun = <<>> /\ accepted = 0 /\ refused = 0
      /\ control = "new" /\ running = FALSE /\ threads = {} /\ pc = [t \in Threads |-> "idle"]
      /\ pool \in BOOLEAN /\ capacity \in Nat
  BY PoolAssumption DEF AnyInit, Init
<1>2. Common
  BY <1>1 DEF Common, Places
<1>5. Len(queue) = 0
  BY <1>1
<1>6. PoolInv
  <2>1. /\ \A t \in Threads : pc[t] = "idle"
        /\ Workers \subseteq Threads /\ Clients \subseteq Threads /\ MaxQueue \in Nat
    BY <1>1, PoolAssumption, FiniteThreads
  <2>2. pc \in [Threads -> Places]
    BY <1>1 DEF Places
  <2>3. MaxQueue > 0 => Len(queue) <= MaxQueue
    BY <1>5, <2>1
  <2>4. /\ control \in {"new", "starting", "started", "joining", "joined"}
        /\ running \in BOOLEAN /\ threads \subseteq Workers /\ notFull = {}
    BY <1>1
  <2>5. /\ \A w \in Workers \ threads : pc[w] = "idle"
        /\ \A c \in Clients : pc[c] \in {"idle", "run"}
    BY <2>1
  <2> QED
    BY <2>2, <2>3, <2>4, <2>5 DEF PoolInv
<1>7. QueueInv
  BY <1>1, <1>5 DEF QueueInv
<1>3. WaitInv
  BY <1>1 DEF WaitInv
<1>4. GivenInv
  <2>1. InPut = {}
    <3>1. Putting # "idle"
      BY <1>1 DEF Putting
    <3> QED
      BY <1>1, <3>1 DEF InPut
  <2> QED
    BY <1>1, <2>1, FS_EmptySet, PoolAssumption DEF GivenInv
<1> QED
  BY <1>2, <1>3, <1>4, <1>6, <1>7 DEF IInv

LEMMA NextIInv == IInv /\ [(OfPool /\ Next) \/ (OfQueue /\ BQ!Next)]_allVars => IInv'
<1>1. IInv /\ UNCHANGED allVars => IInv'
  BY DEF IInv, Common, WaitInv, GivenInv, PoolInv, QueueInv, Takers, Putters, InTake, InPut, Putting,
         Bound, allVars, vars, poolVars, countVars
<1> QED
  BY <1>1, PoolStep, QueueStep

LEMMA Invariant == AnySpec => []IInv
  BY InitIInv, NextIInv, PTL DEF AnySpec

-------------------------------------------------------------------------------
(* What the invariant says of each of the three queues.                    *)

LEMMA PoolKept == IInv /\ pool => PoolForgetsNone
<1> SUFFICES ASSUME IInv, pool PROVE PoolForgetsNone
  OBVIOUS
<1>1. /\ Bound = MaxQueue /\ InPut = {t \in Threads : pc[t] = "run"}
      /\ PoolInv /\ WaitInv /\ Common
  BY PutsInRun DEF IInv
<1>2. \A t \in Threads : pc[t] = "take" => t \in Workers
  BY <1>1 DEF PoolInv, Threads
<1>3. TypeOK
  <2>1. notEmpty \subseteq {w \in threads : pc[w] = "take"}
    BY <1>1, <1>2 DEF PoolInv, WaitInv, InTake
  <2>2. notFull \subseteq {t \in threads \cup Clients : pc[t] = "run"}
    BY <1>1 DEF PoolInv, WaitInv, Threads
  <2>3. accepted \in 0..MaxTasks /\ refused \in 0..MaxTasks
    BY Numbered DEF IInv
  <2> QED
    BY <1>1, <2>1, <2>2, <2>3 DEF TypeOK, PoolInv, Common
<1>4. NoLostTask
  <2>1. Takers = {w \in Workers : pc[w] = "take" /\ Awake(w)}
    BY <1>2, FiniteThreads DEF Takers, InTake, Awake
  <2> QED
    BY <1>1, <2>1 DEF NoLostTask, WaitInv
<1>5. NoLostRoom
  <2>1. Putters = {t \in Threads : pc[t] = "run" /\ Awake(t)}
    BY <1>1 DEF Putters, Awake
  <2> QED
    BY <1>1, <2>1 DEF NoLostRoom, WaitInv
<1> QED
  BY <1>3, <1>4, <1>5 DEF PoolForgetsNone

LEMMA QueueKept == IInv /\ ~pool => BQ!AssertsHold /\ BQ!NoneForgotten
<1> SUFFICES ASSUME IInv, ~pool PROVE BQ!AssertsHold /\ BQ!NoneForgotten
  OBVIOUS
<1>1. /\ Bound = capacity /\ InPut = {t \in Threads : pc[t] = "put"}
      /\ QueueInv /\ WaitInv
  BY PutsInPut DEF IInv
<1>2. Takers = {t \in Threads : pc[t] = "take" /\ BQ!Awake(t)}
  BY DEF Takers, InTake, BQ!Awake
<1>3. Putters = {t \in Threads : pc[t] = "put" /\ BQ!Awake(t)}
  BY <1>1 DEF Putters, BQ!Awake
<1>4. BQ!AssertsHold
  BY <1>1 DEF BQ!AssertsHold, QueueInv, WaitInv, InTake
<1>5. BQ!NoneForgotten
  BY <1>1, <1>2, <1>3, SameSize DEF BQ!NoneForgotten, BQ!About, WaitInv
<1> QED
  BY <1>4, <1>5

(* No condition variable of thread_pool, blocking_queue or                 *)
(* bounded_blocking_queue forgets whom it has to wake: while threads wait  *)
(* for something to take, at least as many are awake and about to take as  *)
(* there are things; while threads wait for room, at least as many are     *)
(* awake and about to put as there is room (run, take, put, stop).         *)
THEOREM NotificationsKept == AnySpec => []NoLostNotification
<1>1. IInv => NoLostNotification
  BY PoolKept, QueueKept DEF NoLostNotification
<1> QED
  BY <1>1, Invariant, PTL

-------------------------------------------------------------------------------
(* What is put is taken once, in order.                                    *)

\* Steps that neither put nor take.
Quiet == UNCHANGED <<queue, begun, accepted>>

QueueNext == [Queue!Next \/ Queue!ExecuteAll]_(Queue!fqVars)

LEMMA QuietMaps == Quiet => QueueNext
  BY DEF Quiet, QueueNext, Queue!fqVars

LEMMA PutsMap ==
  ASSUME accepted < MaxTasks, accepted' = accepted + 1, queue' = Append(queue, accepted + 1),
         begun' = begun
  PROVE  QueueNext
  BY DEF QueueNext, Queue!Next, Queue!Accept

LEMMA TakesMap ==
  ASSUME queue # <<>>, queue' = Tail(queue), begun' = Append(begun, Head(queue)),
         accepted' = accepted
  PROVE  QueueNext
  BY DEF QueueNext, Queue!Next, Queue!Execute

LEMMA PoolMaps == IInv /\ OfPool /\ Next => QueueNext
<1> SUFFICES ASSUME IInv, OfPool, Next PROVE QueueNext
  OBVIOUS
<1>1. ASSUME Start \/ (\E w \in Workers : StartThread(w)) \/ Started \/ Stop \/ Joined \/ Spurious
      PROVE  QueueNext
  <2>1. Quiet
    BY <1>1 DEF Quiet, Start, StartThread, Started, Stop, Joined, Spurious, countVars
  <2> QED
    BY <2>1, QuietMaps
<1>2. ASSUME NEW c \in Clients, RunHere(c)
      PROVE  QueueNext
  <2>1. accepted < MaxTasks
    <3>1. accepted + refused + Cardinality(InPut) < MaxTasks
      BY <1>2, PutsInRun DEF OfPool, RunHere, MayCall, Given
    <3>2. accepted \in Nat /\ refused \in Nat /\ Cardinality(InPut) \in Nat /\ MaxTasks \in Nat
      BY Sizes, PoolAssumption DEF IInv, Common
    <3> QED
      BY <3>1, <3>2
  <2> QED
    BY <1>2, <2>1 DEF RunHere, QueueNext, Queue!Next, Queue!ExecuteNow
<1>3. ASSUME NEW t \in Threads, Run(t) \/ RunWait(t) \/ RunRefused(t)
      PROVE  QueueNext
  <2>1. Quiet
    BY <1>3 DEF Quiet, Run, RunWait, RunRefused, countVars
  <2> QED
    BY <2>1, QuietMaps
<1>4. ASSUME NEW t \in Threads, RunPush(t)
      PROVE  QueueNext
  <2>1. /\ pool /\ pool' = pool /\ pc[t] = "run" /\ pc' = [pc EXCEPT ![t] = Caller(t)]
        /\ accepted' = accepted + 1 /\ refused' = refused /\ begun' = begun
        /\ queue' = Append(queue, accepted + 1) /\ Caller(t) # "run"
    BY <1>4 DEF OfPool, RunPush, Caller
  <2>2. t \in InPut /\ InPut' = InPut \ {t}
    BY <2>1, PutsInRun DEF IInv, Common, InPut, Putting
  <2>3. accepted < MaxTasks
    BY <2>1, <2>2, GivenLeaves DEF IInv
  <2> QED
    BY <2>1, <2>3, PutsMap
<1>5. ASSUME NEW w \in Workers, Check(w) \/ TakeWait(w) \/ TakeNothing(w) \/ TaskReturns(w)
      PROVE  QueueNext
  <2>1. Quiet
    BY <1>5 DEF Quiet, Check, TakeWait, TakeNothing, TaskReturns, countVars
  <2> QED
    BY <2>1, QuietMaps
<1>6. ASSUME NEW w \in Workers, Take(w)
      PROVE  QueueNext
  <2>1. /\ queue # <<>> /\ queue' = RemoveAt(queue, Oldest)
        /\ begun' = Append(begun, queue[Oldest]) /\ accepted' = accepted
    BY <1>6 DEF Take
  <2>2. RemoveAt(queue, Oldest) = Tail(queue) /\ queue[Oldest] = Head(queue)
    BY <2>1, TakenOldest DEF IInv, Common
  <2> QED
    BY <2>1, <2>2, TakesMap
<1> QED
  BY <1>1, <1>2, <1>3, <1>4, <1>5, <1>6 DEF Next, InRun, Worker

LEMMA QueueMaps == IInv /\ OfQueue /\ BQ!Next => QueueNext
<1> SUFFICES ASSUME IInv, OfQueue, BQ!Next PROVE QueueNext
  OBVIOUS
<1>1. ASSUME NEW t \in Threads, NEW op \in {"put", "take"}, BQ!Call(t, op)
      PROVE  QueueNext
  BY <1>1, QuietMaps DEF Quiet, BQ!Call
<1>2. ASSUME NEW t \in Threads, BQ!PutWait(t) \/ BQ!TakeWait(t)
      PROVE  QueueNext
  BY <1>2, QuietMaps DEF Quiet, BQ!PutWait, BQ!TakeWait
<1>3. ASSUME NEW t \in Threads, BQ!Put(t)
      PROVE  QueueNext
  <2>1. /\ ~pool /\ pool' = pool /\ pc[t] = "put" /\ pc' = [pc EXCEPT ![t] = "idle"]
        /\ accepted' = accepted + 1 /\ refused' = refused /\ begun' = begun
        /\ queue' = Append(queue, accepted + 1)
    BY <1>3 DEF OfQueue, BQ!Put, BQ!Goes
  <2>2. t \in InPut /\ InPut' = InPut \ {t}
    BY <2>1, PutsInPut DEF IInv, Common, InPut, Putting
  <2>3. accepted < MaxTasks
    BY <2>1, <2>2, GivenLeaves DEF IInv
  <2> QED
    BY <2>1, <2>3, PutsMap
<1>4. ASSUME NEW t \in Threads, BQ!Take(t)
      PROVE  QueueNext
  <2>1. /\ queue # <<>> /\ queue' = Tail(queue)
        /\ begun' = Append(begun, Head(queue)) /\ accepted' = accepted
    BY <1>4 DEF BQ!Take
  <2> QED
    BY <2>1, TakesMap
<1>5. ASSUME NEW t \in Threads, BQ!Drain(t)
      PROVE  QueueNext
  BY <1>5 DEF BQ!Drain, QueueNext, Queue!ExecuteAll
<1>6. ASSUME BQ!Spurious
      PROVE  QueueNext
  BY <1>6, QuietMaps DEF Quiet, BQ!Spurious
<1> QED
  BY <1>1, <1>2, <1>3, <1>4, <1>5, <1>6 DEF BQ!Next, BQ!Proceed

(* All three implement the functor queue: what was put, or given to run(), *)
(* is taken exactly once, in the order in which it was accepted, whoever   *)
(* puts and whoever takes; what run() does itself, without threads, and    *)
(* what drain() takes are also done once (run, take, put, drain).          *)
THEOREM QueuesImplement == AnySpec => QueueSpec
<1>1. AnyInit => Queue!Init
  BY DEF AnyInit, Init, Queue!Init
<1>2. IInv /\ [(OfPool /\ Next) \/ (OfQueue /\ BQ!Next)]_allVars => QueueNext
  <2>1. UNCHANGED allVars => QueueNext
    BY QuietMaps DEF Quiet, allVars, vars, countVars
  <2> QED
    BY <2>1, PoolMaps, QueueMaps
<1> QED
  BY <1>1, <1>2, Invariant, PTL DEF AnySpec, QueueSpec, Queue!DrainedSpec, QueueNext
===============================================================================
