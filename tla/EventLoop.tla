------------------------------ MODULE EventLoop ------------------------------
(***************************************************************************)
(* event_loop_t: one thread (the owner) polls, handles the active channels *)
(* and runs pending functors; any thread may queue a functor or ask the    *)
(* loop to quit.  The wakeup eventfd is what brings the owner out of a     *)
(* blocking poll.                                                          *)
(*                                                                         *)
(* Grain of atomicity.  pending_functors_ is touched only under mutex_, in *)
(* two critical sections that do nothing else (the push and the swap), so  *)
(* each is one step.  quit_ is atomic.  calling_pending_functors_ is       *)
(* written by the owner only, and queue_in_loop looks at it only when the  *)
(* caller is the owner ("!is_in_loop_thread() || calling"), so it changes  *)
(* in the step of the owner that surrounds it.  The write to the eventfd   *)
(* is a step of its own, after the push or after quit_ was set.            *)
(***************************************************************************)
EXTENDS Naturals, Sequences, FiniteSets

CONSTANTS
  Threads,       \* the threads that call the loop, the owner among them
  owner,         \* thread_id_: the thread that created the loop
  Io,            \* the channels of the user registered with the loop
  wakeup,        \* wakeup_channel_
  MaxFunctors,   \* bound: functors ever handed to the loop
  MaxQuits,      \* bound: calls of quit()
  MaxLoops       \* bound: calls of loop()

ASSUME LoopAssumption ==
  /\ owner \in Threads
  /\ wakeup \notin Io
  /\ MaxFunctors \in Nat /\ MaxQuits \in Nat /\ MaxLoops \in Nat

VARIABLES
  looping,       \* looping_
  quit,          \* quit_
  calling,       \* calling_pending_functors_
  unhandled,     \* the part of active_channels_ still to be handled
  pending,       \* pending_functors_
  functors,      \* the vector local to do_pending_functors, still to be run
  wakeupFd,      \* the counter of the eventfd
  pc,            \* where the owner is
  op,            \* what each thread still has to do before its call returns
  executed,      \* history: the functors executed, oldest first
  created,       \* history: how many functors were handed over
  origin,        \* history: where each functor was queued
  quits,         \* how many times quit() was called
  starts         \* how many times loop() was called

queueVars == <<calling, pending, functors, executed>>
callVars == <<created, origin, quits, starts>>
vars == <<looping, quit, unhandled, wakeupFd, pc, op, queueVars, callVars>>

Functors == 1..MaxFunctors

(* idle: outside loop(); starting: between "looping_ = true" and           *)
(* "quit_ = false"; check: at the test of the while; poll: inside poll();  *)
(* handling: in the loop over active_channels_; running: in the loop over  *)
(* the swapped functors; callback: inside user code called from either.    *)
Places == {"idle", "starting", "check", "poll", "handling", "running", "callback"}

(* Where a functor was queued: by another thread, by the owner outside     *)
(* loop(), in the callback of a channel, or in another functor.            *)
Origins == {"none", "thread", "outside", "channel", "functor"}

\* What a thread still has to do: write to the eventfd after a push or a quit.
Duties == {"none", "queued", "quit"}

(* Types, and what assert(!looping_) and the two flags of the owner say    *)
(* about where it is.                                                      *)
TypeOK ==
  /\ looping = (pc # "idle")
  /\ quit \in BOOLEAN /\ calling \in BOOLEAN
  /\ calling => pc \in {"running", "callback"}
  /\ pc = "running" => calling
  /\ unhandled \in SUBSET (Io \cup {wakeup})
  /\ pending \in Seq(Functors) /\ functors \in Seq(Functors)
  /\ wakeupFd \in Nat
  /\ pc \in Places
  /\ op \in [Threads -> Duties]
  /\ executed \in Seq(Functors)
  /\ created \in 0..MaxFunctors /\ quits \in 0..MaxQuits /\ starts \in 0..MaxLoops
  /\ origin \in [Functors -> Origins]

Init ==
  /\ looping = FALSE /\ quit = FALSE /\ calling = FALSE
  /\ unhandled = {} /\ pending = <<>> /\ functors = <<>>
  /\ wakeupFd = 0
  /\ pc = "idle"
  /\ op = [t \in Threads |-> "none"]
  /\ executed = <<>>
  /\ created = 0 /\ quits = 0 /\ starts = 0
  /\ origin = [f \in Functors |-> "none"]

-------------------------------------------------------------------------------
(* Calls that any thread makes.  The owner makes them outside loop() or    *)
(* from a callback; every other thread at any moment.                      *)

\* is_in_loop_thread()
InLoopThread(t) == t = owner

CanCall(t) ==
  /\ op[t] = "none"
  /\ InLoopThread(t) => pc \in {"idle", "callback"}

OriginOf(t) ==
  IF ~InLoopThread(t) THEN "thread"
  ELSE IF pc = "idle" THEN "outside"
  ELSE IF calling THEN "functor" ELSE "channel"

\* Faulty: a functor overtakes those that wait.
PushedFirst(f) == <<f>> \o pending

\* pending_functors_.push_back
Pushed(f) == Append(pending, f)

\* queue_in_loop, the critical section: push the functor.
QueueInLoop(t) ==
  /\ CanCall(t)
  /\ created < MaxFunctors
  /\ created' = created + 1
  /\ pending' = Pushed(created + 1)
  /\ op' = [op EXCEPT ![t] = "queued"]
  /\ origin' = [origin EXCEPT ![created + 1] = OriginOf(t)]
  /\ UNCHANGED <<looping, quit, calling, unhandled, functors, wakeupFd, pc, executed, quits,
                 starts>>

\* Faulty: wakeup() writes nothing.
Unwritten == wakeupFd

\* wakeup: one is added to the eventfd.
Written == wakeupFd + 1

\* Faulty: the test forgets that a functor may queue another functor.
MustWakeForeign(t) == ~InLoopThread(t)

\* Whether the owner may poll before it looks at pending_functors_ again.
MustWake(t) == ~InLoopThread(t) \/ calling

\* queue_in_loop, after the critical section: wake the owner unless it is
\* the caller and will look at pending_functors_ before it polls again.
QueueWakeup(t) ==
  /\ op[t] = "queued"
  /\ wakeupFd' = IF MustWake(t) THEN Written ELSE wakeupFd
  /\ op' = [op EXCEPT ![t] = "none"]
  /\ UNCHANGED <<looping, quit, unhandled, pc, queueVars, callVars>>

\* run_in_loop by the owner: the functor is executed there and then.
RunNow ==
  /\ CanCall(owner)
  /\ created < MaxFunctors
  /\ created' = created + 1
  /\ executed' = Append(executed, created + 1)
  /\ UNCHANGED <<looping, quit, calling, unhandled, pending, functors, wakeupFd, pc, op,
                 origin, quits, starts>>

\* run_in_loop
RunInLoop(t) == IF InLoopThread(t) THEN RunNow ELSE QueueInLoop(t)

\* quit, first half: raise the flag.
Quit(t) ==
  /\ CanCall(t)
  /\ quits < MaxQuits
  /\ quits' = quits + 1
  /\ quit' = TRUE
  /\ op' = IF InLoopThread(t) THEN op ELSE [op EXCEPT ![t] = "quit"]
  /\ UNCHANGED <<looping, unhandled, wakeupFd, pc, created, origin, starts, queueVars>>

\* quit, second half: another thread wakes the loop.
QuitWakeup(t) ==
  /\ op[t] = "quit"
  /\ wakeupFd' = Written
  /\ op' = [op EXCEPT ![t] = "none"]
  /\ UNCHANGED <<looping, quit, unhandled, pc, queueVars, callVars>>

-------------------------------------------------------------------------------
(* The owner inside loop().                                                *)

\* loop() is entered: assert(!looping_), looping_ = true.
LoopStart ==
  /\ pc = "idle"
  /\ op[owner] = "none"
  /\ starts < MaxLoops
  /\ starts' = starts + 1
  /\ looping' = TRUE
  /\ pc' = "starting"
  /\ UNCHANGED <<quit, unhandled, wakeupFd, op, created, origin, quits, queueVars>>

\* quit_ = false: a quit() that came earlier is forgotten.
ResetQuit ==
  /\ pc = "starting"
  /\ quit' = FALSE
  /\ pc' = "check"
  /\ UNCHANGED <<looping, unhandled, wakeupFd, op, queueVars, callVars>>

\* Faulty: looping_ is not lowered.
StillLooping == looping

\* looping_ = false
NotLooping == FALSE

\* while (!quit_) fails: loop() returns.
LoopExit ==
  /\ pc = "check"
  /\ quit
  /\ looping' = NotLooping
  /\ pc' = "idle"
  /\ UNCHANGED <<quit, unhandled, wakeupFd, op, queueVars, callVars>>

\* while (!quit_) holds: clear active_channels_ and call poll().
EnterPoll ==
  /\ pc = "check"
  /\ ~quit
  /\ unhandled' = {}
  /\ pc' = "poll"
  /\ UNCHANGED <<looping, quit, wakeupFd, op, queueVars, callVars>>

\* poll() returns with the channels in S active.
PollReturns(S) ==
  /\ pc = "poll"
  /\ unhandled' = S
  /\ pc' = "handling"
  /\ UNCHANGED <<looping, quit, wakeupFd, op, queueVars, callVars>>

\* The eventfd is readable: the wakeup channel is active, others may be.
PollWakeup == wakeupFd > 0 /\ \E S \in SUBSET Io : PollReturns(S \cup {wakeup})

\* Only channels of the user are ready.
PollIo == wakeupFd = 0 /\ \E S \in (SUBSET Io) \ {{}} : PollReturns(S)

\* k_poll_time_ms went by, or a signal interrupted the wait.
PollTimeout == wakeupFd = 0 /\ PollReturns({})

\* handle_read: reading the eventfd resets its counter.
HandleRead ==
  /\ pc = "handling"
  /\ wakeup \in unhandled
  /\ wakeupFd' = 0
  /\ unhandled' = unhandled \ {wakeup}
  /\ UNCHANGED <<looping, quit, pc, op, queueVars, callVars>>

\* handle_event of a channel of the user enters its callback.
HandleIo(c) ==
  /\ pc = "handling"
  /\ c \in unhandled \ {wakeup}
  /\ unhandled' = unhandled \ {c}
  /\ pc' = "callback"
  /\ UNCHANGED <<looping, quit, wakeupFd, op, queueVars, callVars>>

\* Faulty: loop() looks at quit_ before it runs the pending functors.
SwapPendingUnlessQuit ==
  /\ pc = "handling"
  /\ unhandled = {}
  /\ calling' = ~quit
  /\ functors' = IF quit THEN <<>> ELSE pending
  /\ pending' = IF quit THEN pending ELSE <<>>
  /\ pc' = IF quit THEN "check" ELSE "running"
  /\ UNCHANGED <<looping, quit, unhandled, wakeupFd, op, executed, callVars>>

\* do_pending_functors begins: take the pending functors in one swap.
SwapPending ==
  /\ pc = "handling"
  /\ unhandled = {}
  /\ calling' = TRUE
  /\ functors' = pending
  /\ pending' = <<>>
  /\ pc' = "running"
  /\ UNCHANGED <<looping, quit, unhandled, wakeupFd, op, executed, callVars>>

\* do_pending_functors calls the next functor.
RunFunctor ==
  /\ pc = "running"
  /\ functors # <<>>
  /\ executed' = Append(executed, Head(functors))
  /\ functors' = Tail(functors)
  /\ pc' = "callback"
  /\ UNCHANGED <<looping, quit, calling, unhandled, pending, wakeupFd, op, callVars>>

\* User code returns to the loop that called it.
CallbackReturn ==
  /\ pc = "callback"
  /\ op[owner] = "none"
  /\ pc' = IF calling THEN "running" ELSE "handling"
  /\ UNCHANGED <<looping, quit, unhandled, wakeupFd, op, queueVars, callVars>>

\* do_pending_functors returns.
PendingDone ==
  /\ pc = "running"
  /\ functors = <<>>
  /\ calling' = FALSE
  /\ pc' = "check"
  /\ UNCHANGED <<looping, quit, unhandled, pending, functors, wakeupFd, op, executed, callVars>>

-------------------------------------------------------------------------------
Call(t) ==
  \/ QueueInLoop(t)
  \/ RunInLoop(t)
  \/ Quit(t)

Wake(t) == QueueWakeup(t) \/ QuitWakeup(t)

\* What the owner does next inside loop() without waiting for anything.
OwnerStep ==
  \/ ResetQuit
  \/ LoopExit
  \/ EnterPoll
  \/ PollWakeup
  \/ HandleRead
  \/ \E c \in Io : HandleIo(c)
  \/ SwapPending
  \/ RunFunctor
  \/ CallbackReturn
  \/ PendingDone

Next ==
  \/ \E t \in Threads : Call(t) \/ Wake(t)
  \/ LoopStart
  \/ OwnerStep
  \/ PollIo
  \/ PollTimeout

Spec == Init /\ [][Next]_vars

(* A thread that is inside the loop's code keeps running, and callbacks    *)
(* return: every thread finishes the call it is in, and the owner takes    *)
(* its next step.  PollTimeout is left out on purpose: the wakeup protocol *)
(* must do without the help of k_poll_time_ms, and EventuallyRun, which    *)
(* needs it, says so.                                                      *)
FairSpec ==
  /\ Spec
  /\ WF_vars(OwnerStep)
  /\ \A t \in Threads : WF_vars(Wake(t))

-------------------------------------------------------------------------------
\* The functors in a sequence.
Members(s) == {s[i] : i \in DOMAIN s}

\* Functors the owner queued before it entered loop(): nothing wakes it for them.
Unhurried == {f \in Functors : origin[f] = "outside"}

\* A wakeup is on its way: in the eventfd, or about to be written to it.
WakeupComing(duty) == wakeupFd > 0 \/ \E t \in Threads : op[t] = duty

(* No lost wakeup (queue_in_loop): while the owner blocks in poll(), every *)
(* pending functor has a wakeup coming.  Only functors that the owner      *)
(* queued before it entered loop() wait for another event.                 *)
NoLostWakeup ==
  pc = "poll" /\ ~(Members(pending) \subseteq Unhurried) => WakeupComing("queued")

(* quit() is noticed: the owner never blocks in poll() with quit_ raised   *)
(* and no wakeup coming, although it tested quit_ before it blocked.       *)
NoLostQuit ==
  pc = "poll" /\ quit => WakeupComing("quit")

(* What a channel's callback queues runs in the same iteration: when the   *)
(* owner tests quit_ again, no such functor is left pending, so loop()     *)
(* never returns without having run it, whoever called quit() and when.    *)
ChannelFunctorsRun ==
  pc \in {"check", "poll", "idle"} =>
    \A f \in Members(pending) : origin[f] # "channel"

(* Every functor queued from another thread or from a callback is run      *)
(* unless loop() returns first, even if no poll ever times out.            *)
PromptlyRun ==
  \A f \in Functors :
    f \in Members(pending) \ Unhurried ~> f \in Members(executed) \/ pc = "idle"

(* Where polls time out, every functor queued at all is run unless loop()  *)
(* returns first, those included that the owner queued before loop().      *)
EventuallyRun ==
  WF_vars(PollTimeout) =>
    \A f \in Functors :
      f \in Members(pending) ~> f \in Members(executed) \/ pc = "idle"

(* quit() called after loop() has reset quit_ ends loop(), even if no poll *)
(* ever times out.                                                         *)
QuitEndsLoop == quit /\ pc \notin {"idle", "starting"} ~> pc = "idle"

(* The loop serves those who call it: what is queued is run, and a quit()  *)
(* is obeyed, in the end.                                                  *)
LoopResponds == PromptlyRun /\ EventuallyRun /\ QuitEndsLoop

\* The promise of the loop to the threads that queue functors.
Queue == INSTANCE FunctorQueue
           WITH todo <- functors \o pending, done <- executed, accepted <- created

(* The loop implements the functor queue (queue_in_loop, run_in_loop and   *)
(* do_pending_functors): each functor runs exactly once, one at a time, in *)
(* the order of acceptance, functors run at once by the owner excepted.    *)
QueueSpec == Queue!Spec
===============================================================================
