-------------------------------- MODULE Threads -------------------------------
(***************************************************************************)
(* thread and count_down_latch: Main, the thread of main(), makes thread   *)
(* objects, starts, joins and destroys them; what it destroys without a    *)
(* join is detached.  Every thread uses its object, of which its function  *)
(* is a part, until that returns, and ends when pthread has run the        *)
(* destructors of Instances.tla.  Main also waits for a latch that all     *)
(* threads count down.                                                     *)
(***************************************************************************)
EXTENDS Instances, FiniteSets

VARIABLES
  process,    \* running, exiting (exit() was called), aborted, or terminated
  main,       \* the operation Main is in, and of which thread or latch
  started,    \* started_
  joined,     \* joined_
  joinable,   \* the threads whose std::thread is joinable
  alive,      \* the thread objects that exist
  at,         \* where each thread is
  count,      \* count_ of each latch
  asleep,     \* the latches for whose condition_ Main waits
  stale       \* history: the threads that used their object after its end

threadVars == <<process, main, started, joined, joinable, alive, at, count, asleep, stale>>
vars == <<instanceVars, threadVars>>

\* The latch_ of each thread, and one for all of them.
All == "all"
Latches == Threads \cup {All}

ASSUME ThreadAssumption == IsFiniteSet(Threads) /\ All \notin Threads

Idle == <<"idle", All>>

TypeOK ==
  /\ InstanceTypes
  /\ process \in {"running", "exiting", "aborted", "terminated"}
  /\ main \in {"idle", "wait", "join"} \X Latches
  /\ started \subseteq Threads /\ joined \subseteq started
  /\ joinable \subseteq started /\ alive \subseteq Threads /\ stale \subseteq Threads
  /\ at \in [Threads -> {"none", "born", "counted", "func", "dying", "ended"}]
  /\ count \in [Latches -> 0..Cardinality(Threads)]
  /\ asleep \subseteq Latches

Init ==
  /\ InstanceInit
  /\ process = "running" /\ main = Idle
  /\ started = {} /\ joined = {} /\ joinable = {} /\ stale = {}
  /\ alive = Threads
  /\ at = [t \in Threads |-> "none"]
  /\ count = [l \in Latches |-> IF l = All THEN Cardinality(Threads) ELSE 1]
  /\ asleep = {}

-------------------------------------------------------------------------------
(* Main                                                                    *)

\* start: the latch is waited for in a step of its own.
Start(t) ==
  /\ main = Idle /\ t \in alive \ started
  /\ started' = started \cup {t}
  /\ joinable' = joinable \cup {t}
  /\ at' = [at EXCEPT ![t] = "born"]
  /\ main' = <<"wait", t>>
  /\ UNCHANGED <<instanceVars, process, joined, alive, count, asleep, stale>>

\* count_down_latch::wait is called for the latch of all threads.
WaitForAll ==
  /\ main = Idle /\ started = Threads
  /\ main' = <<"wait", All>>
  /\ UNCHANGED <<instanceVars, process, started, joined, joinable, alive, at, count, asleep, stale>>

\* wait: the while, and the wait on condition_.
Wait(l) ==
  /\ main = <<"wait", l>> /\ l \notin asleep
  /\ IF count[l] > 0 THEN asleep' = {l} /\ UNCHANGED main
                     ELSE main' = Idle /\ UNCHANGED asleep
  /\ UNCHANGED <<instanceVars, process, started, joined, joinable, alive, at, count, stale>>

\* Main wakes up for no reason.
Spurious ==
  /\ asleep # {}
  /\ asleep' = {}
  /\ UNCHANGED <<instanceVars, process, main, started, joined, joinable, alive, at, count, stale>>

\* join, up to std::thread::join.
Join(t) ==
  /\ main = Idle /\ t \in (alive \cap started) \ joined
  /\ joined' = joined \cup {t}
  /\ main' = <<"join", t>>
  /\ UNCHANGED <<instanceVars, process, started, joinable, alive, at, count, asleep, stale>>

\* std::thread::join waits for the end of the thread.
Ended(t) == at[t] = "ended"

JoinReturns(t) ==
  /\ main = <<"join", t>> /\ Ended(t)
  /\ joinable' = joinable \ {t}
  /\ main' = Idle
  /\ UNCHANGED <<instanceVars, process, started, joined, alive, at, count, asleep, stale>>

\* ~thread detaches a thread that was not joined; ~std::thread does not like it joinable.
Destroy(t) ==
  /\ main = Idle /\ t \in alive
  /\ alive' = alive \ {t}
  /\ joinable' = IF t \in started \ joined THEN joinable \ {t} ELSE joinable
  /\ process' = IF t \in joinable' THEN "terminated" ELSE process
  /\ UNCHANGED <<instanceVars, main, started, joined, at, count, asleep, stale>>

\* main returns and calls exit(); the other threads go on for as long as it takes.
Exit ==
  /\ main = Idle /\ process = "running"
  /\ process' = "exiting"
  /\ UNCHANGED <<instanceVars, main, started, joined, joinable, alive, at, count, asleep, stale>>

\* exit() calls destroy(), for which init() has asked it, be it meanwhile.
ExitDestroys == DestroySingleton /\ UNCHANGED threadVars

(* exit() destroys the static deleter_ of thread_local_singleton, which    *)
(* was there before main() and so goes after what was made since.          *)
ExitDeletes == value # "live" /\ DeleteKey(Single) /\ UNCHANGED threadVars

-------------------------------------------------------------------------------
(* The threads                                                             *)

\* A step of a thread, in which it uses its object if uses.
Goes(t, from, to, uses) ==
  /\ at[t] = from
  /\ at' = [at EXCEPT ![t] = to]
  /\ stale' = IF uses /\ t \notin alive THEN stale \cup {t} ELSE stale
  /\ UNCHANGED <<main, started, joined, joinable, alive>>

\* Faulty: those who wait are told before the last count.
NotifiesBefore(n) == n = 1

\* count_down: those who wait are told of zero.
Notifies(n) == n = 0

CountDown(l) ==
  /\ count' = [count EXCEPT ![l] = @ - 1]
  /\ asleep' = IF Notifies(count'[l]) THEN asleep \ {l} ELSE asleep

\* The lambda: latch_.count_down(), which lets start() return.
Begins(t) == Goes(t, "born", "counted", TRUE) /\ CountDown(t) /\ UNCHANGED <<instanceVars, process>>

\* The lambda, after that: name_ is read and func_ called, which first counts down for all.
CallsFunc(t) == Goes(t, "counted", "func", TRUE) /\ CountDown(All) /\ UNCHANGED <<instanceVars, process>>

\* func_ returns, unless it waits for a singleton.
FuncReturns(t) ==
  /\ t \notin asking
  /\ Goes(t, "func", "dying", TRUE)
  /\ UNCHANGED <<instanceVars, process, count, asleep>>

\* func_ throws: the lambda reads name_ and aborts.
FuncThrows(t) ==
  /\ t \notin asking
  /\ Goes(t, "func", "ended", TRUE)
  /\ process' = "aborted"
  /\ UNCHANGED <<instanceVars, count, asleep>>

\* pthread is done with the thread.
Ends(t) ==
  /\ Cleaned(t)
  /\ Goes(t, "dying", "ended", FALSE)
  /\ UNCHANGED <<instanceVars, process, count, asleep>>

\* What the function of a thread does with the objects of Instances.tla.
Uses(t) == at[t] = "func" /\ (Ask(t) \/ Value(t) \/ LocalInstance(t)) /\ UNCHANGED threadVars

\* Main destroys the thread_local_t.
Drops == main = Idle /\ DeleteKey(Local) /\ UNCHANGED threadVars

\* A thread that is in singleton_t::instance() goes on.
IsAnswered(t) ==
  (InitBegins(t) \/ InitReturns(t) \/ InitThrows(t) \/ Answer(t)) /\ UNCHANGED threadVars

\* A thread that ends runs the destructors of its objects.
Cleans(t) ==
  /\ at[t] = "dying"
  /\ PassBegins(t) \/ \E key \in Keys, asks \in BOOLEAN : RunDestructor(t, key, asks)
  /\ UNCHANGED threadVars

-------------------------------------------------------------------------------
Going == process \in {"running", "exiting"}

ThreadGoes(t) ==
  Begins(t) \/ CallsFunc(t) \/ FuncReturns(t) \/ FuncThrows(t) \/ Ends(t) \/ Cleans(t)

MainGoes == (\E l \in Latches : Wait(l)) \/ \E t \in Threads : JoinReturns(t)

Next ==
  \/ /\ process = "running"
     /\ \/ \E t \in Threads : Start(t) \/ Join(t) \/ Destroy(t)
        \/ WaitForAll \/ MainGoes \/ Spurious \/ Exit \/ Drops
  \/ process = "exiting" /\ (ExitDestroys \/ ExitDeletes)
  \/ Going /\ \E t \in Threads : ThreadGoes(t)
  \/ Going /\ \E t \in Threads : Uses(t) \/ IsAnswered(t)

Spec == Init /\ [][Next]_vars

(* Threads are scheduled, and the functions given to them return.          *)
FairSpec ==
  /\ Spec
  /\ WF_vars(process = "running" /\ MainGoes)
  /\ \A t \in Threads : WF_vars(Going /\ ThreadGoes(t)) /\ SF_vars(Going /\ FuncReturns(t))
  /\ \A t \in Threads : WF_vars(Going /\ IsAnswered(t))

-------------------------------------------------------------------------------
(* start, join, count_down: Main does not come back from start() before    *)
(* the thread counted down, nor from join() before its end, nor sleeps on  *)
(* a latch that is at zero, and no std::thread is destroyed while it is    *)
(* joinable.                                                               *)
CallsMeanIt ==
  /\ TypeOK
  /\ \A t \in started : at[t] = "born" => main = <<"wait", t>>
  /\ \A t \in joined : at[t] # "ended" => main = <<"join", t>>
  /\ \A l \in asleep : count[l] > 0 /\ main = <<"wait", l>>
  /\ process # "terminated"

(* A thread uses its object, or what exit() has destroyed, after its end   *)
(* only if Main did not join it; the objects that threads ask for are one  *)
(* to each, and go with them: an instance of thread_local_singleton stays  *)
(* behind only if it was made again in every pass, or exit() was called,   *)
(* which deletes its key while other threads go on.                        *)
NothingOutlived ==
  /\ stale \cap joined = {}
  /\ value = "deleted" => \A t \in asking : t \notin joined
  /\ OneSingleton /\ LocalsAgree
  /\ \A t \in Threads : at[t] = "ended" /\ Going =>
       /\ NothingLeft(t)
       /\ process = "running" => tValue[t] = "null" \/ pass[t] = MaxPasses

(* start(), join() and wait() return, in whatever order the threads run,   *)
(* unless the process is gone.                                             *)
CallsReturn == main # Idle ~> main = Idle \/ ~Going
===============================================================================
