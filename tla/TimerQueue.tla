----------------------------- MODULE TimerQueue ------------------------------
(***************************************************************************)
(* timer_queue_t, timer_t and timer_id_t: the timers of one event loop.    *)
(*                                                                         *)
(* Timers live on the heap and addresses are reused after a delete, so a   *)
(* timer is identified by its address and its sequence number.  Threads    *)
(* other than the owner of the loop hand add_timer_in_loop and             *)
(* cancel_in_loop to the loop as functors; the owner runs them at once,    *)
(* possibly from the callback of a timer.  A timerfd on the monotonic      *)
(* clock wakes the loop, expirations are compared with the wall clock.     *)
(*                                                                         *)
(* The loop is the one of EventLoop.tla, seen through FunctorQueue.tla: a  *)
(* queue whose functors the owner runs in order when it is not handling    *)
(* channels.  Both clocks saturate at MaxTime: the last instant stands for *)
(* all the time that follows, in which every timer is due.                 *)
(***************************************************************************)
EXTENDS Integers, Sequences

CONSTANTS
  Threads,      \* the threads that call add_timer and cancel, owner excluded
  Addrs,        \* heap addresses of timers; std::set orders timers by them
  Whens,        \* the times asked of run_at, run_after and run_every
  Intervals,    \* the intervals asked of run_every (0: below a microsecond)
  OneShot,      \* no interval: repeat_ is false
  Free,         \* no timer at this address
  Never,        \* the timerfd is disarmed
  MinDelay,     \* how_much_time_from_now: at least 100 microseconds
  MaxTime,      \* bound: the last instant of both clocks
  MaxTimers,    \* bound: timers ever created
  MaxCancels,   \* bound: calls of cancel()
  MaxSteps      \* bound: how often the wall clock is set

ASSUME TimerAssumption ==
  /\ Addrs \subseteq Nat
  /\ MaxTime \in Nat \ {0}
  /\ Whens \subseteq 1..MaxTime
  /\ Intervals \subseteq Nat
  /\ OneShot \notin Nat
  /\ Never \notin Nat
  /\ MinDelay \in Nat \ {0}
  /\ MaxTimers \in Nat /\ MaxCancels \in Nat /\ MaxSteps \in Nat

VARIABLES
  heap,       \* what is at each address: a timer_t or nothing
  created,    \* s_num_created_
  timers,     \* timers_: <<expiration, address>>
  active,     \* active_timers_: <<address, sequence>>
  canceling,  \* canceling_timers_: <<address, sequence>>
  expired,    \* the vector local to handle_read
  toRun,      \* the part of expired whose callbacks have not been called
  now,        \* the time handle_read took at its start
  alarm,      \* when the timerfd fires, on the monotonic clock
  mono,       \* CLOCK_MONOTONIC
  wall,       \* timestamp::now()
  pc,         \* where the owner is
  inbox,      \* functors handed to the loop: pending_functors_
  call,       \* where each other thread is in add_timer
  ids,        \* the timer_id_t values given out
  cancels,    \* how many times cancel() was called
  steps,      \* how many times the wall clock was set
  fate        \* history: what became of the timer with each sequence number

queueVars == <<timers, active, canceling, expired, toRun, now, alarm>>
clockVars == <<mono, wall, steps>>
vars == <<heap, created, queueVars, clockVars, pc, inbox, call, ids, cancels, fate>>

Times == 1..MaxTime
Seqs == 1..MaxTimers
Ids == Addrs \X Seqs
Timer == [seq : Seqs, when : Times, interval : Intervals \cup {OneShot}]

\* A free address holds no timer.
ASSUME FreeAssumption == Free \notin Timer

Requests == [do : {"add"}, addr : Addrs] \cup [do : {"cancel"}, id : Ids]

\* A thread in add_timer: before run_in_loop, or before the return of the id.
Calls == [at : {"none"}] \cup [at : {"new", "pushed"}, addr : Addrs]

(* adding: created, add_timer_in_loop not run yet; armed: in the hands of  *)
(* the queue; ran: a one-shot timer whose callback was called; cancelled.  *)
Fates == {"none", "adding", "armed", "ran", "cancelled"}

(* loop: anywhere in loop() but in what follows; reported: poll returned   *)
(* the timerfd's channel and handle_read has not been called yet;          *)
(* callbacks: handle_read is calling the expired timers; gone: destroyed.  *)
Places == {"loop", "reported", "callbacks", "gone"}

TypeOK ==
  /\ heap \in [Addrs -> Timer \cup {Free}]
  /\ created \in 0..MaxTimers /\ cancels \in 0..MaxCancels /\ steps \in 0..MaxSteps
  /\ timers \cup expired \subseteq Times \X Addrs /\ toRun \subseteq expired
  /\ active \cup canceling \cup ids \subseteq Ids
  /\ mono \in 0..MaxTime /\ {wall, now} \subseteq Times /\ alarm \in (0..MaxTime) \cup {Never}
  /\ pc \in Places
  /\ inbox \in Seq(Requests)
  /\ call \in [Threads -> Calls]
  /\ fate \in [Seqs -> Fates]

Init ==
  /\ heap = [a \in Addrs |-> Free]
  /\ created = 0 /\ cancels = 0 /\ steps = 0
  /\ timers = {} /\ active = {} /\ canceling = {} /\ expired = {} /\ toRun = {}
  /\ mono = 0 /\ wall = 1 /\ now = 1 /\ alarm = Never
  /\ pc = "loop" /\ inbox = <<>> /\ ids = {}
  /\ call = [t \in Threads |-> [at |-> "none"]]
  /\ fate = [s \in Seqs |-> "none"]

-------------------------------------------------------------------------------
(* The clocks and the timerfd.                                             *)

Later(time, delay) == IF time + delay < MaxTime THEN time + delay ELSE MaxTime

Tick ==
  /\ mono < MaxTime \/ wall < MaxTime
  /\ mono' = Later(mono, 1)
  /\ wall' = Later(wall, 1)
  /\ UNCHANGED <<heap, created, queueVars, pc, inbox, call, ids, cancels, steps, fate>>

\* Somebody sets the wall clock.
SetWallClock ==
  /\ steps < MaxSteps
  /\ steps' = steps + 1
  /\ wall' \in Times
  /\ UNCHANGED <<heap, created, queueVars, mono, pc, inbox, call, ids, cancels, fate>>

Readable == alarm # Never /\ alarm <= mono

\* how_much_time_from_now
HowMuchTimeFromNow(when) == IF when - wall < MinDelay THEN MinDelay ELSE when - wall

\* Faulty: no least delay; a zero it_value disarms the timerfd.
ResetTimerFdNoFloor(when) == IF when <= wall THEN Never ELSE Later(mono, when - wall)

\* reset_timer_fd: the alarm for a time on the wall clock.
ResetTimerFd(when) == Later(mono, HowMuchTimeFromNow(when))

-------------------------------------------------------------------------------
(* The queue.                                                              *)

\* The order of timers_: by expiration, then by address.
Before(e, f) == e[1] < f[1] \/ (e[1] = f[1] /\ e[2] < f[2])

AddrsOf(entries) == {e[2] : e \in entries}

\* begin()->first
Earliest(entries) == (CHOOSE e \in entries : \A f \in entries \ {e} : Before(e, f))[1]

\* add_timer_in_loop, of a timer t already at address a.
AddTimerInLoop(a, t) ==
  /\ timers' = timers \cup {<<t.when, a>>}
  /\ active' = active \cup {<<a, t.seq>>}
  /\ alarm' = IF timers = {} \/ t.when < Earliest(timers)
                THEN ResetTimerFd(t.when) ELSE alarm

\* The timers whose callbacks handle_read is calling, or has called.
InBatch(id) ==
  pc = "callbacks" /\ \E e \in expired : e[2] = id[1] /\ heap[id[1]].seq = id[2]

\* Faulty: a timer is looked up by its address alone.
FoundByAddr(id) == {i \in active : i[1] = id[1]}

\* Faulty: a timer of the batch is deleted while the batch is being run.
FoundAtOnce(id) == IF InBatch(id) THEN {id} ELSE active \cap {id}

\* active_timers_.find(timer)
Found(id) == active \cap {id}

(* cancel_in_loop: an active timer is deleted; one that is being run is    *)
(* only noted, and any other cancellation is lost.                         *)
CancelInLoop(id) ==
  LET found == Found(id) IN
  /\ timers' = timers \ {<<heap[i[1]].when, i[1]>> : i \in found}
  /\ active' = active \ found
  /\ heap' = IF found = {} THEN heap ELSE [heap EXCEPT ![id[1]] = Free]
  /\ canceling' = IF found = {} /\ pc = "callbacks" THEN canceling \cup {id} ELSE canceling
  /\ fate' = [fate EXCEPT ![id[2]] = IF id \in active \/ InBatch(id) THEN "cancelled" ELSE @]

-------------------------------------------------------------------------------
(* add_timer and cancel, called by another thread.                         *)

\* The timer_t that the constructor builds.
NewTimer(when, interval) == [seq |-> created + 1, when |-> when, interval |-> interval]

\* new timer_t(...)
New(t, a, when, interval) ==
  /\ pc # "gone"
  /\ call[t].at = "none"
  /\ created < MaxTimers
  /\ heap[a] = Free
  /\ created' = created + 1
  /\ heap' = [heap EXCEPT ![a] = NewTimer(when, interval)]
  /\ call' = [call EXCEPT ![t] = [at |-> "new", addr |-> a]]
  /\ fate' = [fate EXCEPT ![created + 1] = "adding"]
  /\ UNCHANGED <<queueVars, clockVars, pc, inbox, ids, cancels>>

\* run_in_loop queues add_timer_in_loop.
PushAdd(t) ==
  /\ pc # "gone"
  /\ call[t].at = "new"
  /\ inbox' = Append(inbox, [do |-> "add", addr |-> call[t].addr])
  /\ call' = [call EXCEPT ![t].at = "pushed"]
  /\ UNCHANGED <<heap, created, queueVars, clockVars, pc, ids, cancels, fate>>

(* timer_id_t(timer, timer->sequence()): the timer is read after it was    *)
(* handed over.  When the loop has deleted it in the meantime the read is  *)
(* undefined, and yields any number.                                       *)
ReturnId(t) ==
  /\ call[t].at = "pushed"
  /\ LET a == call[t].addr IN
       \E s \in IF heap[a] = Free THEN Seqs ELSE {heap[a].seq} :
         ids' = ids \cup {<<a, s>>}
  /\ call' = [call EXCEPT ![t] = [at |-> "none"]]
  /\ UNCHANGED <<heap, created, queueVars, clockVars, pc, inbox, cancels, fate>>

\* cancel
Cancel(t, id) ==
  /\ pc # "gone"
  /\ call[t].at = "none"
  /\ cancels < MaxCancels
  /\ cancels' = cancels + 1
  /\ inbox' = Append(inbox, [do |-> "cancel", id |-> id])
  /\ UNCHANGED <<heap, created, queueVars, clockVars, pc, call, ids, fate>>

-------------------------------------------------------------------------------
(* The owner.                                                              *)

(* add_timer in the loop's thread, from any callback: run_in_loop runs     *)
(* add_timer_in_loop at once.                                              *)
AddByOwner(a, when, interval) ==
  /\ pc # "gone"
  /\ created < MaxTimers
  /\ heap[a] = Free
  /\ created' = created + 1
  /\ heap' = [heap EXCEPT ![a] = NewTimer(when, interval)]
  /\ AddTimerInLoop(a, NewTimer(when, interval))
  /\ ids' = ids \cup {<<a, created + 1>>}
  /\ fate' = [fate EXCEPT ![created + 1] = "armed"]
  /\ UNCHANGED <<canceling, expired, toRun, now, clockVars, pc, inbox, call, cancels>>

\* cancel in the loop's thread: cancel_in_loop at once.
CancelByOwner(id) ==
  /\ pc # "gone"
  /\ cancels < MaxCancels
  /\ cancels' = cancels + 1
  /\ CancelInLoop(id)
  /\ UNCHANGED <<created, expired, toRun, now, alarm, clockVars, pc, inbox, call, ids>>

\* do_pending_functors runs the functor of an add_timer.
RunAdd ==
  /\ pc = "loop"
  /\ inbox # <<>> /\ Head(inbox).do = "add"
  /\ inbox' = Tail(inbox)
  /\ LET a == Head(inbox).addr IN
       /\ AddTimerInLoop(a, heap[a])
       /\ fate' = [fate EXCEPT ![heap[a].seq] = "armed"]
  /\ UNCHANGED <<heap, created, canceling, expired, toRun, now, clockVars, pc, call, ids, cancels>>

\* do_pending_functors runs the functor of a cancel.
RunCancel ==
  /\ pc = "loop"
  /\ inbox # <<>> /\ Head(inbox).do = "cancel"
  /\ inbox' = Tail(inbox)
  /\ CancelInLoop(Head(inbox).id)
  /\ UNCHANGED <<created, expired, toRun, now, alarm, clockVars, pc, call, ids, cancels>>

\* poll() reports the timerfd's channel.
PollReports ==
  /\ pc = "loop"
  /\ Readable
  /\ pc' = "reported"
  /\ UNCHANGED <<heap, created, queueVars, clockVars, inbox, call, ids, cancels, fate>>

\* get_expired: the timers up to the sentry <<now, UINTPTR_MAX>>.
Due(time) == {e \in timers : e[1] <= time}

(* handle_read, up to the first callback.  Another callback of this        *)
(* iteration may have set the timerfd again, which clears it: then the     *)
(* read takes nothing, and maybe no timer is due.                          *)
HandleRead ==
  /\ pc = "reported"
  /\ now' = wall
  /\ alarm' = IF Readable THEN Never ELSE alarm
  /\ expired' = Due(wall)
  /\ toRun' = Due(wall)
  /\ timers' = timers \ Due(wall)
  /\ active' = active \ {<<e[2], heap[e[2]].seq>> : e \in Due(wall)}
  /\ canceling' = {}
  /\ pc' = "callbacks"
  /\ UNCHANGED <<heap, created, clockVars, inbox, call, ids, cancels, fate>>

\* it.second->run(), in the order of timers_.
RunTimer ==
  /\ pc = "callbacks"
  /\ \E e \in toRun :
       /\ \A f \in toRun \ {e} : Before(e, f)
       /\ toRun' = toRun \ {e}
       /\ LET timer == heap[e[2]] IN
            fate' = [fate EXCEPT ![timer.seq] =
                       IF timer.interval = OneShot /\ @ = "armed" THEN "ran" ELSE @]
  /\ UNCHANGED <<heap, created, timers, active, canceling, expired, now, alarm,
                 clockVars, pc, inbox, call, ids, cancels>>

\* A timer of the batch that reset puts back.
Restarts(e) ==
  /\ heap[e[2]].interval # OneShot
  /\ <<e[2], heap[e[2]].seq>> \notin canceling

\* restart: the next expiration, counted from the time the batch began.
Restarted(timer) ==
  [timer EXCEPT !.when = IF timer.interval = OneShot THEN 0 ELSE Later(now, timer.interval)]

\* The entry of a timer that was restarted.
EntryAgain(e) == <<Restarted(heap[e[2]]).when, e[2]>>

\* reset, when every callback has returned.
Reset ==
  /\ pc = "callbacks"
  /\ toRun = {}
  /\ LET again == {e \in expired : Restarts(e)}
         over == expired \ again
     IN /\ heap' = [a \in Addrs |-> IF a \in AddrsOf(again) THEN Restarted(heap[a])
                                    ELSE IF a \in AddrsOf(over) THEN Free ELSE heap[a]]
        /\ timers' = timers \cup {EntryAgain(e) : e \in again}
        /\ active' = active \cup {<<e[2], heap[e[2]].seq>> : e \in again}
  /\ alarm' = IF timers' # {} THEN ResetTimerFd(Earliest(timers')) ELSE alarm
  /\ expired' = {}
  /\ pc' = "loop"
  /\ UNCHANGED <<created, canceling, toRun, now, clockVars, inbox, call, ids, cancels, fate>>

\* ~timer_queue_t
Destroy ==
  /\ pc = "loop"
  /\ heap' = [a \in Addrs |-> IF a \in AddrsOf(timers) THEN Free ELSE heap[a]]
  /\ alarm' = Never
  /\ timers' = {}
  /\ active' = {}
  /\ pc' = "gone"
  /\ UNCHANGED <<created, canceling, expired, toRun, now, clockVars, inbox, call, ids,
                 cancels, fate>>

-------------------------------------------------------------------------------
OtherThread(t) ==
  \/ \E a \in Addrs, w \in Whens, i \in Intervals \cup {OneShot} : New(t, a, w, i)
  \/ PushAdd(t)
  \/ ReturnId(t)
  \/ \E id \in ids : Cancel(t, id)

OwnerCall ==
  \/ \E a \in Addrs, w \in Whens, i \in Intervals \cup {OneShot} : AddByOwner(a, w, i)
  \/ \E id \in ids : CancelByOwner(id)

Clock == Tick \/ SetWallClock

Next ==
  \/ Clock
  \/ \E t \in Threads : OtherThread(t)
  \/ OwnerCall
  \/ RunAdd \/ RunCancel
  \/ PollReports \/ HandleRead \/ RunTimer \/ Reset
  \/ Destroy

Spec == Init /\ [][Next]_vars

(* Time passes, callbacks return, the loop goes on polling, and a thread   *)
(* inside add_timer gets on with it.  A functor in the queue is run in the *)
(* end however often the loop handles the timerfd before, because every    *)
(* iteration ends with do_pending_functors (EventLoop.tla, PromptlyRun):   *)
(* hence strong fairness for the two actions that run one.                 *)
FairSpec ==
  /\ Spec
  /\ WF_vars(Tick)
  /\ WF_vars(PollReports) /\ WF_vars(HandleRead) /\ WF_vars(RunTimer) /\ WF_vars(Reset)
  /\ SF_vars(RunAdd) /\ SF_vars(RunCancel)
  /\ \A t \in Threads : WF_vars(PushAdd(t))

-------------------------------------------------------------------------------
IdOf(a) == <<a, heap[a].seq>>
SeqsOf(entries) == {heap[a].seq : a \in AddrsOf(entries)}

(* The asserts of timer_queue_t on its two sets: at any time timers_ and   *)
(* active_timers_ hold the same timers, each under the expiration and the  *)
(* sequence number it has now, whatever was cancelled, restarted or        *)
(* allocated again in the meantime.                                        *)
SetsAgree ==
  /\ \A e \in timers : heap[e[2]] # Free /\ heap[e[2]].when = e[1]
  /\ \A e, f \in timers : e[2] = f[2] => e = f
  /\ active = {IdOf(a) : a \in AddrsOf(timers)}

\* Timers on their way into the queue.
PushedAdds == {k \in DOMAIN inbox : inbox[k].do = "add"}
InNew == {t \in Threads : call[t].at = "new"}
Pushed == {inbox[k].addr : k \in PushedAdds}
Created == {call[t].addr : t \in InNew}
Adding == Pushed \cup Created

\* No timer is on its way twice.
AddedOnce ==
  /\ \A j, k \in PushedAdds : inbox[j].addr = inbox[k].addr => j = k
  /\ \A t, u \in InNew : call[t].addr = call[u].addr => t = u
  /\ Pushed \cap Created = {}

(* Every timer on the heap has exactly one owner: timers_, the batch of    *)
(* handle_read or one functor that will add it.  So nothing is leaked,     *)
(* deleted twice, or used by the queue after it was deleted.               *)
HeapOwned ==
  /\ {a \in Addrs : heap[a] # Free} = AddrsOf(timers) \cup AddrsOf(expired) \cup Adding
  /\ AddrsOf(timers) \cap AddrsOf(expired) = {}
  /\ Adding \cap (AddrsOf(timers) \cup AddrsOf(expired)) = {}
  /\ AddedOnce

(* Whatever is added, cancelled, restarted and allocated again, and when,  *)
(* the two sets agree and every timer has exactly one owner.               *)
TimersConsistent == TypeOK /\ SetsAgree /\ HeapOwned

(* The timerfd is set in time: unless handle_read is about to set it, it   *)
(* will fire when the earliest timer expires, or MinDelay from now if that *)
(* is over (a wall clock that is set may delay it, not disarm it).         *)
AlarmInTime ==
  timers # {} /\ pc # "callbacks" =>
    /\ alarm # Never
    /\ steps = 0 => alarm <= ResetTimerFd(Earliest(timers))

(* No timer is lost: one that add_timer_in_loop took and that neither ran  *)
(* as a one-shot timer nor was cancelled is waiting or being run.          *)
NoTimerLost ==
  pc # "gone" => \A s \in Seqs : fate[s] = "armed" => s \in SeqsOf(timers) \cup SeqsOf(expired)

(* cancel() sticks and one-shot timers run once: outside handle_read no    *)
(* timer that ran or was cancelled is waiting to expire.                   *)
NoTimerRevived ==
  \A s \in Seqs : fate[s] \in {"ran", "cancelled"} =>
    /\ s \notin SeqsOf(timers)
    /\ pc = "loop" => s \notin SeqsOf(expired)

(* What became of a timer, by its sequence number and not by its address,  *)
(* is what the callers of add_timer and cancel asked for.                  *)
FatesKept == NoTimerLost /\ NoTimerRevived

(* The callback of every timer handed to add_timer is called in the end,   *)
(* and again after each restart, unless the timer is cancelled or the      *)
(* queue destroyed.                                                        *)
EveryTimerRuns ==
  \A s \in Seqs :
    fate[s] = "adding" \/ s \in SeqsOf(timers) ~>
      s \in SeqsOf(toRun) \/ fate[s] = "cancelled" \/ pc = "gone"
===============================================================================
