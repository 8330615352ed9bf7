-------------------------------- MODULE LoopPool --------------------------------
(***************************************************************************)
(* event_loop_thead_pool_t, the event_loop_thread_t objects it owns, and   *)
(* the life of the event_loop_t on the stack of each of their threads.     *)
(* The thread of the base loop starts them one after the other, hands out  *)
(* the pointers that start_loop() returned, and destroys them one after    *)
(* the other; the destructor reads loop_ without mutex_.                   *)
(*                                                                         *)
(* Each loop is that of EventLoop.tla, seen through quit_ and QuitEndsLoop *)
(* there.  Other threads that were given a loop may ask it to quit.        *)
(***************************************************************************)
EXTENDS Integers, Sequences, FiniteSets

CONSTANTS
  MaxThreads,    \* bound: num_threads_
  Hashes,        \* the hash codes asked of get_loop_for_hash
  MaxPicks       \* bound: calls of get_next_loop

ASSUME PoolAssumption ==
  /\ MaxThreads \in Nat
  /\ Hashes \subseteq Nat
  /\ MaxPicks \in Nat

VARIABLES
  caller,      \* where the thread of the base loop is
  numThreads,  \* num_threads_
  mine,        \* which of threads_ that thread is starting or destroying
  loops,       \* loops_
  next,        \* next_
  given,       \* the loop handed out last; 0 is the base loop
  picks,       \* history: how often get_next_loop returned each loop
  pc,          \* where each thread is
  loopPtr,     \* loop_ of each event_loop_thread_t is not null
  signaled,    \* the wait on its cond_ was notified
  quit,        \* quit_ of each loop
  asked,       \* history: loops that another thread asked to quit
  early,       \* history: loops whose destructor asked before quit_ was reset
  dangling     \* history: loops that were called when they were gone

poolVars == <<numThreads, mine, loops, next, given, picks>>
threadVars == <<pc, loopPtr, signaled, quit, asked, early, dangling>>
vars == <<caller, poolVars, threadVars>>

Ks == 1..MaxThreads

(* idle: outside the pool's code, start() not called; latch: thread_t      *)
(* start() waits for its latch; test: start_loop is about to test loop_;   *)
(* wait: it waits on cond_; started: outside the pool's code; destroy: in  *)
(* ~event_loop_thread_t; quitting: there, loop_ was found set; join: quit  *)
(* was called; gone: the pool is destroyed.                                *)
Callers == {"idle", "latch", "test", "wait", "started", "destroy", "quitting", "join", "gone"}

(* none: not started; born: before count_down; counted: after it; built:   *)
(* the loop is constructed; published: loop_ is set; looping: looping_ is  *)
(* set; running: quit_ is reset; left: loop() has returned; locked: loop_  *)
(* is null again, mutex_ is held; unlocked: it is not; done: the loop is   *)
(* destroyed.                                                              *)
Places == {"none", "born", "counted", "built", "published", "looping", "running",
           "left", "locked", "unlocked", "done"}

\* The event_loop_t of thread k is constructed.
Live(k) == pc[k] \in Places \ {"none", "born", "counted", "done"}

(* Types, and what the fields of each event_loop_thread_t say about where  *)
(* its thread is.                                                          *)
TypeOK ==
  /\ caller \in Callers
  /\ numThreads \in 0..MaxThreads /\ mine \in 0..(MaxThreads + 1)
  /\ loops \in Seq(Ks)
  /\ given \in 0..MaxThreads /\ next \in 0..MaxThreads
  /\ loops # <<>> => next < Len(loops)
  /\ picks \in [0..MaxThreads -> Nat]
  /\ pc \in [Ks -> Places]
  /\ loopPtr \in [Ks -> BOOLEAN] /\ signaled \in [Ks -> BOOLEAN] /\ quit \in [Ks -> BOOLEAN]
  /\ \A k \in Ks : loopPtr[k] <=> pc[k] \in {"published", "looping", "running", "left"}
  /\ asked \cup early \cup dangling \subseteq Ks

Init ==
  /\ caller = "idle"
  /\ numThreads = 0 /\ mine = 0 /\ loops = <<>> /\ next = 0 /\ given = 0
  /\ picks = [k \in 0..MaxThreads |-> 0]
  /\ pc = [k \in Ks |-> "none"]
  /\ loopPtr = [k \in Ks |-> FALSE] /\ signaled = loopPtr /\ quit = loopPtr
  /\ asked = {} /\ early = {} /\ dangling = {}

-------------------------------------------------------------------------------
(* start().                                                                *)

\* set_thread_num
SetThreadNum(n) ==
  /\ caller = "idle"
  /\ numThreads' = n
  /\ UNCHANGED <<caller, mine, loops, next, given, picks, threadVars>>

\* new event_loop_thread_t, and start_loop up to the wait for the latch.
StartThread(k) ==
  /\ mine' = k
  /\ pc' = [pc EXCEPT ![k] = "born"]
  /\ caller' = "latch"

\* start: assert(!started_), the first thread.
Start ==
  /\ caller = "idle"
  /\ IF numThreads = 0
       THEN caller' = "started" /\ UNCHANGED <<mine, pc>>
       ELSE StartThread(1)
  /\ UNCHANGED <<numThreads, loops, next, given, picks, loopPtr, signaled, quit, asked, early,
                 dangling>>

\* thread_t::start returns: the thread has counted down the latch.
LatchOpens ==
  /\ caller = "latch"
  /\ pc[mine] # "born"
  /\ caller' = "test"
  /\ UNCHANGED <<poolVars, threadVars>>

\* Faulty: start_loop does not look at loop_.
Assumed(k) == TRUE

\* while (loop_ == nullptr)
Seen(k) == loopPtr[k]

\* start_loop: loop_ is set; start pushes it and turns to the next thread.
TestSet ==
  /\ caller = "test"
  /\ Seen(mine)
  /\ loops' = Append(loops, mine)
  /\ IF mine < numThreads
       THEN StartThread(mine + 1)
       ELSE caller' = "started" /\ UNCHANGED <<mine, pc>>
  /\ UNCHANGED <<numThreads, next, given, picks, loopPtr, signaled, quit, asked, early, dangling>>

\* start_loop: loop_ is null, wait on cond_.
TestNull ==
  /\ caller = "test"
  /\ ~loopPtr[mine]
  /\ caller' = "wait"
  /\ signaled' = [signaled EXCEPT ![mine] = FALSE]
  /\ UNCHANGED <<poolVars, pc, loopPtr, quit, asked, early, dangling>>

\* The wait ends, notified.
WaitEnds ==
  /\ caller = "wait"
  /\ signaled[mine]
  /\ caller' = "test"
  /\ UNCHANGED <<poolVars, threadVars>>

\* The wait ends for no reason.
WaitSpurious ==
  /\ caller = "wait"
  /\ caller' = "test"
  /\ UNCHANGED <<poolVars, threadVars>>

-------------------------------------------------------------------------------
(* Loops are handed out.                                                   *)

Picked(k) == picks' = [picks EXCEPT ![k] = @ + 1]

\* next_ after a loop was handed out.
Wrapped(n) == IF n >= Len(loops) THEN 0 ELSE n

\* get_next_loop
GetNextLoop ==
  /\ caller = "started"
  /\ \A k \in 0..MaxThreads : picks[k] < MaxPicks
  /\ IF loops = <<>>
       THEN given' = 0 /\ next' = next
       ELSE given' = loops[next + 1] /\ next' = Wrapped(next + 1)
  /\ Picked(given')
  /\ UNCHANGED <<caller, numThreads, mine, loops, threadVars>>

\* get_loop_for_hash
GetLoopForHash(h) ==
  /\ caller = "started"
  /\ given' = IF loops = <<>> THEN 0 ELSE loops[(h % Len(loops)) + 1]
  /\ UNCHANGED <<caller, numThreads, mine, loops, next, picks, threadVars>>

(* Another thread that was given a loop, by the pool or by the callback of *)
(* the loop's thread, asks it to quit; or the loop itself does.            *)
QuitByOther(k) ==
  /\ k \notin asked
  /\ Live(k)
  /\ quit' = [quit EXCEPT ![k] = TRUE]
  /\ asked' = asked \cup {k}
  /\ UNCHANGED <<caller, poolVars, pc, loopPtr, signaled, early, dangling>>

-------------------------------------------------------------------------------
(* The destructors.                                                        *)

\* ~event_loop_thead_pool_t: the destructor of the first thread begins.
Destroy ==
  /\ caller = "started"
  /\ mine' = 1
  /\ caller' = IF loops = <<>> THEN "gone" ELSE "destroy"
  /\ UNCHANGED <<numThreads, loops, next, given, picks, threadVars>>

\* The destructor of one thread has returned; that of the next begins.
DestroyNext ==
  /\ mine' = mine + 1
  /\ caller' = IF mine = Len(loops) THEN "gone" ELSE "destroy"

\* ~event_loop_thread_t: loop_ is null, nothing is waited for.
DestroyNull ==
  /\ caller = "destroy"
  /\ ~loopPtr[mine]
  /\ DestroyNext
  /\ UNCHANGED <<numThreads, loops, next, given, picks, threadVars>>

\* ~event_loop_thread_t: loop_ is set.
DestroySet ==
  /\ caller = "destroy"
  /\ loopPtr[mine]
  /\ caller' = "quitting"
  /\ UNCHANGED <<poolVars, threadVars>>

\* Faulty: the loop is not asked to quit.
QuitUnchanged(k) == quit[k]

\* quit_ after quit() of a loop that is there.
QuitRaised(k) == Live(k)

\* ~event_loop_thread_t: loop_->quit(), if the loop is still there.
Quit ==
  /\ caller = "quitting"
  /\ quit' = [quit EXCEPT ![mine] = QuitRaised(mine)]
  /\ dangling' = IF Live(mine) THEN dangling ELSE dangling \cup {mine}
  /\ early' = IF pc[mine] \in {"published", "looping"} THEN early \cup {mine} ELSE early
  /\ caller' = "join"
  /\ UNCHANGED <<poolVars, pc, loopPtr, signaled, asked>>

\* Faulty: the thread is not joined.
NotJoined(k) == TRUE

\* thread::join waits for the end of the thread.
Joined(k) == pc[k] = "done"

\* ~event_loop_thread_t: thread_.join() returns.
Join ==
  /\ caller = "join"
  /\ Joined(mine)
  /\ DestroyNext
  /\ UNCHANGED <<numThreads, loops, next, given, picks, threadVars>>

-------------------------------------------------------------------------------
(* The threads.                                                            *)

Goes(k, from, to) == pc[k] = from /\ pc' = [pc EXCEPT ![k] = to]

\* A step in which nothing else changes.
GoesOnly(k, from, to) ==
  /\ Goes(k, from, to)
  /\ UNCHANGED <<caller, poolVars, loopPtr, signaled, quit, asked, early, dangling>>

CountDown(k) == GoesOnly(k, "born", "counted")

\* thread_func: the loop is constructed, the callback is called.
Build(k) == GoesOnly(k, "counted", "built")

\* thread_func, the first critical section: loop_ = &loop, notify_one.
Publish(k) ==
  /\ Goes(k, "built", "published")
  /\ loopPtr' = [loopPtr EXCEPT ![k] = TRUE]
  /\ signaled' = [signaled EXCEPT ![k] = TRUE]
  /\ UNCHANGED <<caller, poolVars, quit, asked, early, dangling>>

\* event_loop_t::loop is entered: looping_ = true.
Enter(k) == GoesOnly(k, "published", "looping")

\* event_loop_t::loop: quit_ = false.
ResetQuit(k) ==
  /\ Goes(k, "looping", "running")
  /\ quit' = [quit EXCEPT ![k] = FALSE]
  /\ UNCHANGED <<caller, poolVars, loopPtr, signaled, asked, early, dangling>>

\* event_loop_t::loop returns.
Leave(k) ==
  /\ quit[k]
  /\ Goes(k, "running", "left")
  /\ UNCHANGED <<caller, poolVars, loopPtr, signaled, quit, asked, early, dangling>>

\* thread_func, the second critical section begins: loop_ = nullptr.
Unpublish(k) ==
  /\ Goes(k, "left", "locked")
  /\ loopPtr' = [loopPtr EXCEPT ![k] = FALSE]
  /\ UNCHANGED <<caller, poolVars, signaled, quit, asked, early, dangling>>

\* thread_func: mutex_ is given back.
Unlock(k) == GoesOnly(k, "locked", "unlocked")

\* The loop is destroyed with the stack of thread_func.
Finish(k) == GoesOnly(k, "unlocked", "done")

-------------------------------------------------------------------------------
Thread(k) ==
  \/ CountDown(k) \/ Build(k) \/ Publish(k)
  \/ Enter(k) \/ ResetQuit(k) \/ Leave(k)
  \/ Unpublish(k) \/ Unlock(k) \/ Finish(k)

\* The base thread inside the pool's code.
Base ==
  \/ LatchOpens \/ TestSet \/ TestNull \/ WaitEnds
  \/ DestroyNull \/ DestroySet \/ Quit \/ Join

Next ==
  \/ \E n \in 0..MaxThreads : SetThreadNum(n)
  \/ Start
  \/ Base
  \/ WaitSpurious
  \/ GetNextLoop
  \/ \E h \in Hashes : GetLoopForHash(h)
  \/ Destroy
  \/ \E k \in Ks : QuitByOther(k) \/ Thread(k)

Spec == Init /\ [][Next]_vars

(* Threads inside the code that is modelled go on; a loop asked to quit    *)
(* leaves (EventLoop.tla, QuitEndsLoop).  No spurious wakeup is needed.    *)
FairSpec == Spec /\ WF_vars(Base) /\ \A k \in Ks : WF_vars(Thread(k))

-------------------------------------------------------------------------------
Members(s) == {s[i] : i \in DOMAIN s}

(* start_loop: a loop that was handed to the pool is there, for everybody  *)
(* who is given it, as long as nobody asks it to quit and the pool has not *)
(* come to destroy it.                                                     *)
LoopsAlive ==
  \A k \in Members(loops) \ asked :
    ~(caller \in {"join", "gone"} /\ k <= mine) /\ ~(caller \in {"destroy", "quitting"} /\ k < mine)
      => Live(k) /\ loopPtr[k]

(* ~event_loop_thread_t: when nobody else asked the loop to quit, the      *)
(* destructor finds it there, and no thread outlives the object whose      *)
(* members it uses.                                                        *)
NoThreadLeft ==
  /\ dangling \subseteq asked
  /\ \A k \in Members(loops) \ asked :
       caller = "gone" \/ (caller \in {"destroy", "quitting", "join"} /\ k < mine) => pc[k] = "done"

(* get_next_loop hands out the loops evenly, whatever is asked of          *)
(* get_loop_for_hash in between.                                           *)
Balanced ==
  \A j, k \in Members(loops) : picks[j] - picks[k] \in {-1, 0, 1}

(* The pool hands out its loops evenly, and only such as are there.        *)
LoopsConsistent == TypeOK /\ LoopsAlive /\ Balanced

(* start() ends: start_loop misses no notification of its thread, whether  *)
(* it comes before, between or after its test and its wait; unless the     *)
(* loop is asked to quit, and gone, before start_loop has seen it.         *)
StartReturns == caller = "latch" ~> caller = "started" \/ asked \ Members(loops) # {}

(* The pool is destroyed, unless a quit() of a destructor came between     *)
(* looping_ = true and quit_ = false of its loop, or before; then join()   *)
(* waits for ever.                                                         *)
DestroyReturns == caller = "destroy" ~> caller = "gone" \/ early # {}

(* Neither the start of the pool nor its end waits for a thread in vain.   *)
CallsReturn == StartReturns /\ DestroyReturns
===============================================================================
