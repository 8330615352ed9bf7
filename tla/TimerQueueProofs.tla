--------------------------- MODULE TimerQueueProofs ---------------------------
(***************************************************************************)
(* The safety of timer_queue_t, for any threads, addresses, times and      *)
(* intervals.                                                              *)
(***************************************************************************)
EXTENDS TimerQueue, SequenceTheorems, WellFoundedInduction, TLAPS

\* Only handle_read has a batch.
BatchInv == pc # "callbacks" => expired = {}

\* Sequence numbers come from s_num_created_, and no two timers share one.
SeqsInv ==
  /\ \A a \in Addrs : heap[a] # Free => heap[a].seq <= created
  /\ \A a, b \in Addrs :
       heap[a] # Free /\ heap[b] # Free /\ heap[a].seq = heap[b].seq => a = b

\* What waits in timers_ neither ran as a one-shot timer nor was cancelled.
WaitingInv == \A e \in timers : fate[heap[e[2]].seq] = "armed"

(* In the batch, canceling_timers_ has the timers that were cancelled, and *)
(* the one-shot timers whose callbacks were called are not armed any more. *)
RunningInv ==
  \A e \in expired :
    LET timer == heap[e[2]] IN
    /\ fate[timer.seq] \in {"armed", "ran", "cancelled"}
    /\ fate[timer.seq] = "ran" => timer.interval = OneShot
    /\ fate[timer.seq] = "cancelled" => IdOf(e[2]) \in canceling
    /\ IdOf(e[2]) \in canceling => fate[timer.seq] = "cancelled"
    /\ timer.interval = OneShot /\ fate[timer.seq] = "armed" => e \in toRun

\* The parts of the invariant that are not about the clocks.
Timeless ==
  /\ SetsAgree /\ HeapOwned
  /\ BatchInv /\ SeqsInv /\ WaitingInv /\ RunningInv
  /\ NoTimerLost

\* The inductive invariant.
IInv ==
  /\ TypeOK /\ Timeless /\ AlarmInTime

-------------------------------------------------------------------------------
(* Times and the order of timers_.                                         *)

LEMMA NatMin ==
  ASSUME NEW S, S \subseteq Nat, S # {}
  PROVE  \E x \in S : \A y \in S : x <= y
<1> DEFINE Less == OpToRel(<, Nat)
<1>1. IsWellFoundedOn(Less, Nat)
  BY NatLessThanWellFounded
<1>2. Less = {p \in Nat \X Nat : p[1] < p[2]}
  BY DEF OpToRel
<1> HIDE DEF Less
<1>3. PICK x \in S : \A y \in S : ~(<<y, x>> \in Less)
  BY <1>1, WFMin
<1>4. ASSUME NEW y \in S PROVE x <= y
  <2>1. <<y, x>> \notin Less /\ x \in Nat /\ y \in Nat
    BY <1>3
  <2>2. ~(y < x)
    BY <2>1, <1>2
  <2> QED
    BY <2>1, <2>2
<1> QED
  BY <1>4

\* begin() is an entry of timers_, and none expires before it.
LEMMA EarliestFirst ==
  ASSUME NEW E, E \subseteq Times \X Addrs, E # {}
  PROVE  /\ \E e \in E : Earliest(E) = e[1]
         /\ \A f \in E : Earliest(E) <= f[1]
<1> DEFINE Firsts == {e[1] : e \in E}
<1>1. PICK when \in Firsts : \A w \in Firsts : when <= w
  <2>1. Firsts \subseteq Nat /\ Firsts # {}
    BY TimerAssumption DEF Times
  <2> HIDE DEF Firsts
  <2> QED
    BY <2>1, NatMin
<1> DEFINE Seconds == {e[2] : e \in {f \in E : f[1] = when}}
<1>2. PICK addr \in Seconds : \A a \in Seconds : addr <= a
  <2>1. Seconds \subseteq Nat /\ Seconds # {}
    BY <1>1, TimerAssumption
  <2> HIDE DEF Seconds
  <2> QED
    BY <2>1, NatMin
<1> DEFINE first == <<when, addr>>
<1>3. first \in E /\ when \in Nat /\ addr \in Nat
  <2>1. PICK e \in E : e[1] = when /\ e[2] = addr
    BY <1>2
  <2>2. e = first /\ e[1] \in Times /\ e[2] \in Addrs
    BY <2>1
  <2> QED
    BY <2>1, <2>2, TimerAssumption DEF Times
<1>4. ASSUME NEW f \in E \ {first} PROVE Before(first, f)
  <2>1. f[1] \in Nat /\ f[2] \in Nat /\ f = <<f[1], f[2]>> /\ when <= f[1]
    <3>1. f[1] \in Times /\ f[2] \in Addrs /\ f = <<f[1], f[2]>>
      OBVIOUS
    <3>2. f[1] \in Firsts /\ when \in Times
      BY <1>1
    <3> HIDE DEF Firsts
    <3>3. when <= f[1]
      BY <1>1, <3>2
    <3>4. \A time \in Times : time \in Nat
      BY TimerAssumption DEF Times
    <3> QED
      BY <3>1, <3>3, <3>4, TimerAssumption
  <2>2. f[1] = when => addr <= f[2]
    BY <1>2
  <2>3. f[1] # when \/ f[2] # addr
    BY <2>1
  <2> QED
    BY <1>3, <2>1, <2>2, <2>3 DEF Before
<1> DEFINE chosen == CHOOSE e \in E : \A f \in E \ {e} : Before(e, f)
<1>5. chosen \in E /\ \A f \in E \ {chosen} : Before(chosen, f)
  BY <1>3, <1>4
<1>6. Earliest(E) = chosen[1]
  BY DEF Earliest
<1> HIDE DEF chosen
<1>7. \A f \in E : chosen[1] <= f[1]
  BY <1>5, TimerAssumption DEF Before, Times
<1> QED
  BY <1>5, <1>6, <1>7

\* At any two times of the clocks.
LEMMA AlarmBounds ==
  ASSUME NEW m \in 0..MaxTime, NEW n \in Times, NEW when \in Times
  PROVE  Later(m, IF when - n < MinDelay THEN MinDelay ELSE when - n) \in 0..MaxTime
<1>1. m \in Nat /\ n \in Nat /\ when \in Nat /\ MinDelay \in Nat /\ MaxTime \in Nat /\ m <= MaxTime
  BY TimerAssumption DEF Times
<1>2. (IF when - n < MinDelay THEN MinDelay ELSE when - n) \in Nat
  BY <1>1
<1> QED
  BY <1>1, <1>2 DEF Later

\* The alarm for a time is an instant of the monotonic clock.
LEMMA AlarmType ==
  ASSUME TypeOK, NEW when \in Times
  PROVE  ResetTimerFd(when) \in 0..MaxTime /\ ResetTimerFd(when) # Never
  BY TimerAssumption DEF TypeOK, ResetTimerFd, HowMuchTimeFromNow, Later, Times

\* A later time has no earlier alarm.
LEMMA AlarmMonotone ==
  ASSUME TypeOK, NEW v \in Times, NEW w \in Times, v <= w
  PROVE  ResetTimerFd(v) <= ResetTimerFd(w)
  BY TimerAssumption DEF TypeOK, ResetTimerFd, HowMuchTimeFromNow, Later, Times

\* An alarm in time for some timers is in time for fewer of them.
LEMMA FewerTimers ==
  ASSUME TypeOK, NEW E, E \subseteq timers, E # {}
  PROVE  /\ Earliest(E) \in Times /\ Earliest(timers) \in Times
         /\ ResetTimerFd(Earliest(timers)) <= ResetTimerFd(Earliest(E))
<1>1. E \subseteq Times \X Addrs /\ timers \subseteq Times \X Addrs /\ timers # {}
  BY DEF TypeOK
<1>2. PICK e \in E : Earliest(E) = e[1]
  BY <1>1, EarliestFirst
<1>3. PICK f \in timers : Earliest(timers) = f[1]
  BY <1>1, EarliestFirst
<1>4. Earliest(timers) <= e[1]
  BY <1>1, EarliestFirst
<1> QED
  BY <1>1, <1>2, <1>3, <1>4, AlarmMonotone

-------------------------------------------------------------------------------
LEMMA InitIInv == Init => IInv
<1> SUFFICES ASSUME Init PROVE IInv
  OBVIOUS
<1>1. TypeOK
  BY TimerAssumption DEF Init, TypeOK, Times, Fates, Places, Calls, Requests
<1>2. PushedAdds = {} /\ InNew = {}
  BY DEF Init, PushedAdds, InNew
<1>3. HeapOwned
  BY <1>2 DEF Init, HeapOwned, Pushed, Created, Adding, AddedOnce, AddrsOf
<1>4. SetsAgree
  BY DEF Init, SetsAgree, AddrsOf
<1> QED
  BY <1>1, <1>3, <1>4 DEF Init, IInv, Timeless, BatchInv, SeqsInv, WaitingInv, RunningInv, NoTimerLost, AlarmInTime

-------------------------------------------------------------------------------
(* The clocks.                                                             *)

(* Steps that change neither timers nor their fates, only where those that *)
(* are not in the queue yet wait for it.                                   *)
LEMMA TimersStay ==
  ASSUME Timeless, UNCHANGED <<heap, created, queueVars, pc, fate, Adding>>, AddedOnce'
  PROVE  Timeless'
<1>1. /\ UNCHANGED <<AddrsOf(timers), AddrsOf(expired), SeqsOf(timers), SeqsOf(expired)>>
      /\ \A x : UNCHANGED IdOf(x)
  BY DEF queueVars, AddrsOf, SeqsOf, IdOf
<1>2. SetsAgree' /\ HeapOwned'
  BY <1>1 DEF Timeless, SetsAgree, HeapOwned, queueVars
<1> QED
  BY <1>1, <1>2 DEF Timeless, BatchInv, SeqsInv, WaitingInv, RunningInv, NoTimerLost, queueVars

LEMMA OnlyClocks ==
  ASSUME Timeless, UNCHANGED <<heap, created, queueVars, pc, inbox, call, fate>>
  PROVE  Timeless'
<1>1. UNCHANGED <<PushedAdds, InNew, Pushed, Created, Adding>>
  BY DEF PushedAdds, InNew, Pushed, Created, Adding
<1>2. AddedOnce'
  BY <1>1 DEF Timeless, HeapOwned, AddedOnce
<1> QED
  BY <1>1, <1>2, TimersStay

\* The alarm stays in time for what remains of the timers.
LEMMA AlarmStays ==
  ASSUME TypeOK, AlarmInTime, timers' \subseteq timers, UNCHANGED <<alarm, clockVars>>,
         pc' = "callbacks" \/ pc # "callbacks" \/ timers' = {}
  PROVE  AlarmInTime'
<1> SUFFICES ASSUME timers' # {}, pc # "callbacks"
             PROVE  alarm' # Never /\ (steps' = 0 => alarm' <= ResetTimerFd(Earliest(timers))')
  BY DEF AlarmInTime
<1>1. alarm # Never /\ (steps = 0 => alarm <= ResetTimerFd(Earliest(timers)))
  BY DEF AlarmInTime
<1>2. /\ Earliest(timers') \in Times /\ Earliest(timers) \in Times
      /\ ResetTimerFd(Earliest(timers)) <= ResetTimerFd(Earliest(timers'))
  BY FewerTimers
<1>3. ResetTimerFd(Earliest(timers))' = ResetTimerFd(Earliest(timers'))
  BY DEF clockVars, ResetTimerFd, HowMuchTimeFromNow, Later, Earliest
<1>4. /\ ResetTimerFd(Earliest(timers)) \in Int /\ ResetTimerFd(Earliest(timers')) \in Int
      /\ alarm \in Int \cup {Never}
  BY <1>2, AlarmType, TimerAssumption DEF TypeOK
<1> QED
  BY <1>1, <1>2, <1>3, <1>4 DEF clockVars

LEMMA TickKeeps == ASSUME IInv, Tick PROVE IInv'
<1>1. TypeOK'
  BY TimerAssumption DEF IInv, TypeOK, Tick, queueVars, Later, Times
<1>2. UNCHANGED <<heap, created, queueVars, pc, inbox, call, steps, fate>>
  BY DEF Tick
<1>3. AlarmInTime'
  <2> SUFFICES ASSUME timers # {}, pc # "callbacks"
               PROVE  alarm # Never /\ (steps = 0 => alarm <= ResetTimerFd(Earliest(timers))')
    BY <1>2 DEF AlarmInTime, queueVars
  <2>1. alarm # Never /\ (steps = 0 => alarm <= ResetTimerFd(Earliest(timers)))
    BY DEF IInv, AlarmInTime
  <2>2. Earliest(timers)' = Earliest(timers) /\ Earliest(timers) \in Times
    BY <1>2, FewerTimers DEF IInv, queueVars
  <2>3. ASSUME NEW w \in Times PROVE ResetTimerFd(w) <= ResetTimerFd(w)'
    <3>1. /\ mono \in Nat /\ mono <= MaxTime /\ wall \in Nat /\ wall <= MaxTime
          /\ w \in Nat /\ MaxTime \in Nat /\ MinDelay \in Nat /\ MinDelay > 0
      BY TimerAssumption DEF IInv, TypeOK, Times
    <3>2. /\ mono' = IF mono + 1 < MaxTime THEN mono + 1 ELSE MaxTime
          /\ wall' = IF wall + 1 < MaxTime THEN wall + 1 ELSE MaxTime
      BY DEF Tick, Later
    <3>3. PICK d \in Nat : d = HowMuchTimeFromNow(w)
      BY <3>1 DEF HowMuchTimeFromNow
    <3>4. PICK c \in Nat : c = HowMuchTimeFromNow(w)' /\ d <= c + 1
      BY <3>1, <3>2, <3>3 DEF HowMuchTimeFromNow
    <3>5. mono + d < MaxTime => mono + d <= mono' + c
      BY <3>1, <3>2, <3>3, <3>4
    <3>6. mono' + c < MaxTime => mono + d < MaxTime
      BY <3>1, <3>2, <3>3, <3>4
    <3> QED
      BY <3>1, <3>2, <3>3, <3>4, <3>5, <3>6 DEF ResetTimerFd, Later
  <2>4. ResetTimerFd(Earliest(timers)) <= ResetTimerFd(Earliest(timers))'
    BY <2>2, <2>3 DEF ResetTimerFd, HowMuchTimeFromNow
  <2>5. /\ ResetTimerFd(Earliest(timers)) \in 0..MaxTime
        /\ ResetTimerFd(Earliest(timers))' \in 0..MaxTime
        /\ alarm \in 0..MaxTime \cup {Never}
    <3>1. /\ ResetTimerFd(Earliest(timers)) \in 0..MaxTime
          /\ alarm \in 0..MaxTime \cup {Never}
      BY <2>2, AlarmType DEF IInv, TypeOK
    <3>2. ASSUME NEW w \in Times PROVE ResetTimerFd(w)' \in 0..MaxTime
      <4>1. mono' \in 0..MaxTime /\ wall' \in Times
        BY <1>1 DEF TypeOK
      <4> QED
        BY <4>1, AlarmBounds DEF ResetTimerFd, HowMuchTimeFromNow
    <3> QED
      BY <2>2, <3>1, <3>2 DEF ResetTimerFd, HowMuchTimeFromNow
  <2> QED
    BY <2>1, <2>4, <2>5, TimerAssumption
<1> QED
  BY <1>1, <1>2, <1>3, OnlyClocks DEF IInv

LEMMA SetWallClockKeeps == ASSUME IInv, SetWallClock PROVE IInv'
<1>1. TypeOK'
  BY TimerAssumption DEF IInv, TypeOK, SetWallClock, queueVars
<1>2. steps' # 0
  BY DEF IInv, TypeOK, SetWallClock
<1>3. AlarmInTime'
  BY <1>2 DEF IInv, AlarmInTime, SetWallClock, queueVars
<1> QED
  BY <1>1, <1>3, OnlyClocks DEF IInv, SetWallClock

-------------------------------------------------------------------------------
(* Timers on their way into the queue.                                     *)

LEMMA AppendPushed ==
  ASSUME TypeOK, AddedOnce, NEW r \in Requests, inbox' = Append(inbox, r)
  PROVE  /\ r.do = "cancel" => PushedAdds' = PushedAdds /\ Pushed' = Pushed
         /\ r.do = "add" => /\ PushedAdds' = PushedAdds \cup {Len(inbox) + 1}
                            /\ Pushed' = Pushed \cup {r.addr}
         /\ \A k \in PushedAdds : k \in 1..Len(inbox) /\ inbox'[k] = inbox[k]
         /\ inbox'[Len(inbox) + 1] = r
<1>1. /\ inbox \in Seq(Requests) /\ Len(inbox) \in Nat
      /\ DOMAIN inbox = 1..Len(inbox) /\ DOMAIN inbox' = 1..(Len(inbox) + 1)
      /\ inbox'[Len(inbox) + 1] = r
      /\ \A k \in 1..Len(inbox) : inbox'[k] = inbox[k]
  BY DEF TypeOK
<1>2. \A k \in PushedAdds : k \in 1..Len(inbox) /\ inbox'[k] = inbox[k]
  BY <1>1 DEF PushedAdds
<1>3. CASE r.do = "cancel"
  <2>1. PushedAdds' = PushedAdds
    BY <1>1, <1>3 DEF PushedAdds
  <2> QED
    BY <1>1, <1>2, <1>3, <2>1 DEF Pushed
<1>4. CASE r.do = "add"
  <2>1. PushedAdds' = PushedAdds \cup {Len(inbox) + 1}
    BY <1>1, <1>4 DEF PushedAdds
  <2>2. Pushed' = Pushed \cup {r.addr}
    BY <1>1, <1>2, <2>1 DEF Pushed
  <2> QED
    BY <1>1, <1>2, <1>4, <2>1, <2>2
<1>5. r.do \in {"add", "cancel"}
  BY DEF Requests
<1> QED
  BY <1>1, <1>2, <1>3, <1>4, <1>5

\* The loop runs the first functor.
LEMMA TailPushed ==
  ASSUME TypeOK, AddedOnce, inbox # <<>>, inbox' = Tail(inbox), call' = call
  PROVE  /\ AddedOnce'
         /\ Created' = Created
         /\ Head(inbox) \in Requests
         /\ Head(inbox).do = "cancel" => Pushed' = Pushed
         /\ Head(inbox).do = "add" => /\ Head(inbox).addr \in Pushed \ Created
                                      /\ Pushed' = Pushed \ {Head(inbox).addr}
<1>1. /\ inbox \in Seq(Requests) /\ Len(inbox) \in Nat /\ Len(inbox) > 0
      /\ DOMAIN inbox = 1..Len(inbox) /\ DOMAIN inbox' = 1..(Len(inbox) - 1)
      /\ Head(inbox) = inbox[1] /\ Head(inbox) \in Requests
      /\ \A k \in 1..(Len(inbox) - 1) : inbox'[k] = inbox[k + 1]
  BY DEF TypeOK
<1>2. \A k \in PushedAdds' : k + 1 \in PushedAdds /\ inbox'[k] = inbox[k + 1] /\ k \in Nat /\ k > 0
  BY <1>1 DEF PushedAdds
<1>3. \A k \in PushedAdds : k \in Nat /\ (k # 1 => k - 1 \in PushedAdds' /\ inbox'[k - 1] = inbox[k])
  <2> SUFFICES ASSUME NEW k \in PushedAdds, k # 1
               PROVE  k - 1 \in PushedAdds' /\ inbox'[k - 1] = inbox[k]
    BY <1>1 DEF PushedAdds
  <2>1. k - 1 \in 1..(Len(inbox) - 1) /\ (k - 1) + 1 = k
    BY <1>1 DEF PushedAdds
  <2>2. inbox'[k - 1] = inbox[k]
    BY <1>1, <2>1
  <2> QED
    BY <1>1, <2>1, <2>2 DEF PushedAdds
<1>4. InNew' = InNew /\ Created' = Created
  BY DEF InNew, Created
<1>5. Pushed' \subseteq Pushed
  BY <1>2 DEF Pushed
<1>6. AddedOnce'
  <2>1. ASSUME NEW j \in PushedAdds', NEW k \in PushedAdds', inbox'[j].addr = inbox'[k].addr
        PROVE  j = k
    <3>1. /\ j + 1 \in PushedAdds /\ k + 1 \in PushedAdds /\ j \in Nat /\ k \in Nat
          /\ inbox[j + 1].addr = inbox[k + 1].addr
      BY <1>2, <2>1
    <3>2. j + 1 = k + 1
      BY <3>1 DEF AddedOnce
    <3> QED
      BY <3>1, <3>2
  <2>2. Pushed' \cap Created' = {}
    BY <1>4, <1>5 DEF AddedOnce
  <2> QED
    BY <1>4, <2>1, <2>2 DEF AddedOnce
<1>7. ASSUME Head(inbox).do = "cancel" PROVE Pushed' = Pushed
  <2>1. 1 \notin PushedAdds
    BY <1>1, <1>7 DEF PushedAdds
  <2>2. Pushed \subseteq Pushed'
    BY <1>3, <2>1 DEF Pushed
  <2> QED
    BY <1>5, <2>2
<1>8. ASSUME Head(inbox).do = "add"
      PROVE  /\ Head(inbox).addr \in Pushed \ Created
             /\ Pushed' = Pushed \ {Head(inbox).addr}
  <2>1. 1 \in PushedAdds
    BY <1>1, <1>8 DEF PushedAdds
  <2>2. Head(inbox).addr \in Pushed \ Created
    BY <1>1, <2>1 DEF Pushed, AddedOnce
  <2>3. Pushed \ {Head(inbox).addr} \subseteq Pushed'
    <3>1. ASSUME NEW k \in PushedAdds, inbox[k].addr # Head(inbox).addr
          PROVE  inbox[k].addr \in Pushed'
      <4>1. k # 1
        BY <1>1, <3>1
      <4>2. k - 1 \in PushedAdds' /\ inbox'[k - 1] = inbox[k]
        BY <1>3, <4>1
      <4> QED
        BY <4>2 DEF Pushed
    <3> QED
      BY <3>1 DEF Pushed
  <2>4. Head(inbox).addr \notin Pushed'
    <3>1. ASSUME NEW k \in PushedAdds', inbox'[k].addr = Head(inbox).addr
          PROVE  FALSE
      <4>1. k + 1 \in PushedAdds /\ k \in Nat /\ k > 0 /\ inbox[k + 1].addr = inbox[1].addr
        BY <1>1, <1>2, <3>1
      <4>2. k + 1 = 1
        BY <2>1, <4>1 DEF AddedOnce
      <4> QED
        BY <4>1, <4>2
    <3> QED
      BY <3>1 DEF Pushed
  <2> QED
    BY <1>5, <2>2, <2>3, <2>4
<1> QED
  BY <1>1, <1>4, <1>6, <1>7, <1>8

LEMMA PushAddKeeps == ASSUME IInv, NEW t \in Threads, PushAdd(t) PROVE IInv'
<1> DEFINE a == call[t].addr
           r == [do |-> "add", addr |-> a]
<1>1. /\ t \in InNew /\ a \in Addrs /\ r \in Requests
      /\ inbox' = Append(inbox, r)
      /\ call' \in [Threads -> Calls] /\ call'[t].at = "pushed"
      /\ \A u \in Threads \ {t} : call'[u] = call[u]
      /\ \A u \in InNew : call[u].addr \in Addrs
  BY DEF IInv, TypeOK, PushAdd, Calls, Requests, InNew
<1>2. TypeOK' /\ AlarmInTime'
  <2>1. inbox' \in Seq(Requests)
    BY <1>1 DEF IInv, TypeOK
  <2>2. TypeOK'
    BY <1>1, <2>1 DEF IInv, TypeOK, PushAdd, queueVars, clockVars
  <2> QED
    BY <2>2, AlarmStays DEF IInv, PushAdd, queueVars, AlarmInTime, clockVars, Earliest,
                            ResetTimerFd, HowMuchTimeFromNow, Later
<1>3. AddedOnce
  BY DEF IInv, Timeless, HeapOwned
<1>4. /\ PushedAdds' = PushedAdds \cup {Len(inbox) + 1}
      /\ Pushed' = Pushed \cup {a}
      /\ \A k \in PushedAdds : k \in 1..Len(inbox) /\ inbox'[k] = inbox[k]
      /\ inbox'[Len(inbox) + 1] = r
  BY <1>1, <1>3, AppendPushed DEF IInv
<1>5. InNew' = InNew \ {t} /\ Created' = Created \ {a}
  <2>1. InNew' = InNew \ {t}
    BY <1>1 DEF InNew
  <2>2. a \in Created
    BY <1>1 DEF Created
  <2> QED
    BY <1>1, <1>3, <2>1, <2>2 DEF Created, AddedOnce, InNew
<1>6. Adding' = Adding
  BY <1>1, <1>4, <1>5 DEF Adding, Created
<1>7. AddedOnce'
  <2>1. a \notin Pushed
    BY <1>1, <1>3 DEF AddedOnce, Created
  <2>2. \A k \in PushedAdds : inbox[k].addr # a
    BY <2>1 DEF Pushed
  <2>3. \A j, k \in PushedAdds' : inbox'[j].addr = inbox'[k].addr => j = k
    BY <1>3, <1>4, <2>2 DEF AddedOnce
  <2>4. \A u, v \in InNew' : call'[u].addr = call'[v].addr => u = v
    BY <1>1, <1>3, <1>5 DEF AddedOnce, InNew
  <2> QED
    BY <1>3, <1>4, <1>5, <2>3, <2>4 DEF AddedOnce
<1> QED
  BY <1>2, <1>6, <1>7, TimersStay DEF IInv, PushAdd

\* The parts of the state that a return of an id and a call of cancel leave alone.
LEMMA QueueStays ==
  ASSUME IInv, TypeOK', UNCHANGED <<heap, created, queueVars, clockVars, pc, fate, Adding>>, AddedOnce'
  PROVE  IInv'
<1>1. Timeless'
  BY TimersStay DEF IInv
<1>2. AlarmInTime'
  BY AlarmStays DEF IInv, queueVars, AlarmInTime, clockVars, Earliest, ResetTimerFd,
                    HowMuchTimeFromNow, Later
<1> QED
  BY <1>1, <1>2 DEF IInv

LEMMA ReturnIdKeeps == ASSUME IInv, NEW t \in Threads, ReturnId(t) PROVE IInv'
<1>1. /\ call' \in [Threads -> Calls] /\ call'[t].at # "new" /\ t \notin InNew
      /\ \A u \in Threads \ {t} : call'[u] = call[u]
      /\ inbox' = inbox
  BY DEF IInv, TypeOK, ReturnId, Calls, InNew
<1>2. InNew' = InNew /\ PushedAdds' = PushedAdds /\ Pushed' = Pushed
  BY <1>1 DEF InNew, PushedAdds, Pushed
<1>3. \A u \in InNew : call'[u] = call[u]
  BY <1>1 DEF InNew
<1>4. Created' = Created /\ Adding' = Adding
  BY <1>2, <1>3 DEF Created, Adding
<1>5. AddedOnce'
  BY <1>1, <1>2, <1>3, <1>4 DEF IInv, Timeless, HeapOwned, AddedOnce
<1>6. call[t].addr \in Addrs
  BY DEF IInv, TypeOK, ReturnId, Calls
<1>7. \A s \in IF heap[call[t].addr] = Free THEN Seqs ELSE {heap[call[t].addr].seq} : s \in Seqs
  BY <1>6 DEF IInv, TypeOK, Timer
<1>8. ids' \subseteq Ids
  <2>1. PICK s \in Seqs : ids' = ids \cup {<<call[t].addr, s>>}
    BY <1>7 DEF ReturnId
  <2> QED
    BY <1>6, <2>1 DEF IInv, TypeOK, Ids
<1>9. TypeOK'
  BY <1>1, <1>8 DEF IInv, TypeOK, ReturnId, queueVars, clockVars
<1> QED
  BY <1>4, <1>5, <1>9, QueueStays DEF ReturnId

LEMMA CancelKeeps == ASSUME IInv, NEW t \in Threads, NEW id \in ids, Cancel(t, id) PROVE IInv'
<1> DEFINE r == [do |-> "cancel", id |-> id]
<1>1. r \in Requests /\ r.do = "cancel" /\ inbox' = Append(inbox, r) /\ call' = call
  BY DEF IInv, TypeOK, Cancel, Requests
<1>2. TypeOK'
  <2>1. inbox' \in Seq(Requests) /\ cancels' \in 0..MaxCancels
    BY <1>1, TimerAssumption DEF IInv, TypeOK, Cancel
  <2> QED
    BY <2>1 DEF IInv, TypeOK, Cancel, queueVars, clockVars
<1>3. AddedOnce
  BY DEF IInv, Timeless, HeapOwned
<1>4. /\ PushedAdds' = PushedAdds /\ Pushed' = Pushed
      /\ \A k \in PushedAdds : inbox'[k] = inbox[k]
  BY <1>1, <1>3, AppendPushed DEF IInv
<1>5. InNew' = InNew /\ Created' = Created /\ Adding' = Adding
  BY <1>1, <1>4 DEF InNew, Created, Adding
<1>6. AddedOnce'
  <2>1. \A j, k \in PushedAdds' : inbox'[j].addr = inbox'[k].addr => j = k
    BY <1>3, <1>4 DEF AddedOnce
  <2>2. \A u, v \in InNew' : call'[u].addr = call'[v].addr => u = v
    BY <1>1, <1>3, <1>5 DEF AddedOnce
  <2> QED
    BY <1>3, <1>4, <1>5, <2>1, <2>2 DEF AddedOnce
<1> QED
  BY <1>2, <1>5, <1>6, QueueStays DEF Cancel

\* new timer_t, with the next sequence number.
LEMMA NewTimerType ==
  ASSUME TypeOK, created < MaxTimers, NEW w \in Whens, NEW i \in Intervals \cup {OneShot}
  PROVE  /\ created \in Nat /\ created + 1 \in Seqs
         /\ NewTimer(w, i) \in Timer /\ NewTimer(w, i) # Free /\ NewTimer(w, i).seq = created + 1
<1>1. created \in Nat /\ created + 1 \in Seqs
  BY TimerAssumption DEF TypeOK, Seqs
<1>2. w \in Times
  BY TimerAssumption DEF Times
<1>3. NewTimer(w, i) \in Timer /\ NewTimer(w, i).seq = created + 1
  BY <1>1, <1>2 DEF NewTimer, Timer
<1> QED
  BY <1>1, <1>3, FreeAssumption

LEMMA NewKeeps ==
  ASSUME IInv, NEW t \in Threads, NEW a \in Addrs, NEW w \in Whens,
         NEW i \in Intervals \cup {OneShot}, New(t, a, w, i)
  PROVE  IInv'
<1> DEFINE timer == NewTimer(w, i)
<1>1. /\ timer \in Timer /\ timer # Free /\ timer.seq = created + 1
      /\ created \in Nat /\ created' = created + 1
      /\ heap[a] = Free /\ heap' = [heap EXCEPT ![a] = timer] /\ heap \in [Addrs -> Timer \cup {Free}]
  BY NewTimerType DEF IInv, TypeOK, New
<1> HIDE DEF timer
<1>2. heap'[a] = timer /\ \A b \in Addrs \ {a} : heap'[b] = heap[b]
  BY <1>1
<1>3. /\ call' \in [Threads -> Calls] /\ call'[t].at = "new" /\ call'[t].addr = a /\ t \notin InNew
      /\ \A u \in Threads \ {t} : call'[u] = call[u]
      /\ inbox' = inbox
  BY DEF IInv, TypeOK, New, Calls, InNew
<1>4. TypeOK'
  <2>1. heap' \in [Addrs -> Timer \cup {Free}] /\ created' \in 0..MaxTimers
    BY <1>1, TimerAssumption DEF New
  <2>2. fate' \in [Seqs -> Fates]
    BY DEF IInv, TypeOK, New, Fates
  <2> QED
    BY <1>3, <2>1, <2>2 DEF IInv, TypeOK, New, queueVars, clockVars
<1>5. InNew' = InNew \cup {t} /\ PushedAdds' = PushedAdds /\ Pushed' = Pushed
  BY <1>3 DEF InNew, PushedAdds, Pushed
<1>6. \A u \in InNew : call'[u] = call[u]
  BY <1>3 DEF InNew
<1>7. Created' = Created \cup {a} /\ Adding' = Adding \cup {a}
  BY <1>3, <1>5, <1>6 DEF Created, Adding
<1>8. a \notin AddrsOf(timers) \cup AddrsOf(expired) \cup Adding
  BY <1>1 DEF IInv, Timeless, HeapOwned
<1>9. AddedOnce'
  <2>1. AddedOnce /\ \A u \in InNew : call[u].addr # a
    BY <1>8 DEF IInv, Timeless, HeapOwned, Adding, Created
  <2>2. \A u, v \in InNew' : call'[u].addr = call'[v].addr => u = v
    BY <1>3, <1>5, <1>6, <2>1 DEF AddedOnce
  <2>3. Pushed' \cap Created' = {}
    BY <1>5, <1>7, <1>8, <2>1 DEF AddedOnce, Adding
  <2> QED
    BY <1>3, <1>5, <2>1, <2>2, <2>3 DEF AddedOnce
<1>10. /\ UNCHANGED <<timers, expired, active, AddrsOf(timers), AddrsOf(expired)>>
       /\ AddrsOf(timers) \subseteq Addrs \ {a} /\ AddrsOf(expired) \subseteq Addrs \ {a}
  BY <1>8 DEF New, queueVars, AddrsOf, IInv, TypeOK
<1>11. HeapOwned'
  <2>1. {b \in Addrs : heap'[b] # Free} = {b \in Addrs : heap[b] # Free} \cup {a}
    BY <1>1, <1>2
  <2> QED
    BY <1>7, <1>8, <1>9, <1>10, <2>1 DEF IInv, Timeless, HeapOwned
<1>12. SetsAgree'
  BY <1>2, <1>10 DEF IInv, Timeless, SetsAgree, IdOf, AddrsOf
<1>13. SeqsInv'
  <2>1. \A b \in Addrs \ {a} : heap[b] # Free => heap[b].seq \in Nat /\ heap[b].seq <= created
    BY <1>1, TimerAssumption DEF IInv, Timeless, SeqsInv, Timer, Seqs
  <2> QED
    BY <1>1, <1>2, <2>1 DEF IInv, Timeless, SeqsInv
<1>14. \A b \in AddrsOf(timers) \cup AddrsOf(expired) : 
         /\ heap'[b] = heap[b] /\ heap[b].seq \in Seqs /\ fate'[heap[b].seq] = fate[heap[b].seq]
  <2> TAKE b \in AddrsOf(timers) \cup AddrsOf(expired)
  <2>1. b \in Addrs \ {a} /\ heap[b] # Free
    BY <1>10 DEF IInv, Timeless, HeapOwned
  <2>2. heap[b].seq \in Seqs /\ heap[b].seq # created + 1
    BY <1>1, <2>1, TimerAssumption DEF IInv, Timeless, SeqsInv, Timer, Seqs
  <2> QED
    BY <1>2, <2>1, <2>2 DEF New, IInv, TypeOK
<1>15. WaitingInv' /\ RunningInv'
  BY <1>10, <1>14 DEF IInv, Timeless, WaitingInv, RunningInv, AddrsOf, IdOf, New, queueVars
<1>16. NoTimerLost'
  <2>1. SeqsOf(timers)' = SeqsOf(timers) /\ SeqsOf(expired)' = SeqsOf(expired)
    BY <1>10, <1>14 DEF SeqsOf
  <2>2. \A s \in Seqs : fate'[s] = "armed" => fate[s] = "armed"
    BY DEF New, IInv, TypeOK
  <2> QED
    BY <2>1, <2>2 DEF IInv, Timeless, NoTimerLost, New
<1>17. AlarmInTime'
  BY AlarmStays DEF IInv, New, queueVars, clockVars
<1>18. BatchInv'
  BY DEF IInv, Timeless, BatchInv, New, queueVars
<1> QED
  BY <1>4, <1>11, <1>12, <1>13, <1>15, <1>16, <1>17, <1>18 DEF IInv, Timeless

-------------------------------------------------------------------------------
(* add_timer_in_loop.                                                      *)

\* The timer is not on the way any more, but in timers_, and armed.
LEMMA AddKeeps ==
  ASSUME IInv, TypeOK', NEW a \in Addrs, AddTimerInLoop(a, heap'[a]),
         heap'[a] # Free, \A b \in Addrs \ {a} : heap'[b] = heap[b],
         a \notin AddrsOf(timers) \cup AddrsOf(expired), SeqsInv',
         Adding' = Adding \ {a}, AddedOnce',
         fate' = [fate EXCEPT ![heap'[a].seq] = "armed"],
         UNCHANGED <<canceling, expired, toRun, clockVars, pc>>
  PROVE  IInv'
<1> DEFINE timer == heap'[a]
           entry == <<timer.when, a>>
<1>1. /\ timer \in Timer /\ timer.when \in Times /\ timer.seq \in Seqs
      /\ timers' = timers \cup {entry} /\ active' = active \cup {<<a, timer.seq>>}
      /\ fate' \in [Seqs -> Fates] /\ fate'[timer.seq] = "armed"
      /\ \A s \in Seqs \ {timer.seq} : fate'[s] = fate[s]
  BY DEF AddTimerInLoop, IInv, TypeOK, Timer
<1>2. /\ AddrsOf(timers)' = AddrsOf(timers) \cup {a} /\ AddrsOf(expired)' = AddrsOf(expired)
      /\ AddrsOf(timers) \subseteq Addrs \ {a} /\ AddrsOf(expired) \subseteq Addrs \ {a}
  <2>1. AddrsOf(timers') = AddrsOf(timers) \cup {a}
    <3>1. timers' = timers \cup {entry} /\ entry[2] = a
      BY <1>1
    <3> HIDE DEF entry
    <3> QED
      BY <3>1 DEF AddrsOf
  <2>2. AddrsOf(expired') = AddrsOf(expired)
    OBVIOUS
  <2>3. AddrsOf(timers) \subseteq Addrs /\ AddrsOf(expired) \subseteq Addrs
    BY DEF AddrsOf, IInv, TypeOK
  <2>4. AddrsOf(timers)' = AddrsOf(timers') /\ AddrsOf(expired)' = AddrsOf(expired')
    BY DEF AddrsOf
  <2> QED
    BY <2>1, <2>2, <2>3, <2>4
<1> HIDE DEF timer
<1>3. \A b \in AddrsOf(timers) \cup AddrsOf(expired) :
        /\ b \in Addrs \ {a} /\ heap[b] # Free
        /\ heap'[b] = heap[b] /\ heap[b].seq \in Seqs /\ fate'[heap[b].seq] = fate[heap[b].seq]
  <2> TAKE b \in AddrsOf(timers) \cup AddrsOf(expired)
  <2>1. b \in Addrs \ {a} /\ heap[b] # Free /\ heap'[b] = heap[b]
    BY <1>2 DEF IInv, Timeless, HeapOwned
  <2>2. heap[b].seq \in Seqs
    BY <2>1 DEF IInv, TypeOK, Timer
  <2>3. heap[b].seq # timer.seq
    BY <2>1 DEF SeqsInv, timer
  <2> QED
    BY <1>1, <2>1, <2>2, <2>3
<1>4. SetsAgree'
  <2>1. \A e \in timers' : heap'[e[2]] # Free /\ heap'[e[2]].when = e[1]
    BY <1>1, <1>3 DEF IInv, Timeless, SetsAgree, AddrsOf, timer
  <2>2. \A e, f \in timers' : e[2] = f[2] => e = f
    BY <1>1, <1>3 DEF IInv, Timeless, SetsAgree, AddrsOf
  <2>3. active' = {IdOf(b)' : b \in AddrsOf(timers)'}
    <3>1. heap'[a].seq = timer.seq /\ \A b \in AddrsOf(timers) : heap'[b].seq = heap[b].seq
      BY <1>3 DEF timer
    <3>2. active = {<<b, heap[b].seq>> : b \in AddrsOf(timers)}
      BY DEF IInv, Timeless, SetsAgree, IdOf
    <3>3. active' = {<<b, heap'[b].seq>> : b \in AddrsOf(timers) \cup {a}}
      BY <1>1, <3>1, <3>2
    <3> QED
      BY <1>2, <3>3 DEF IdOf
  <2> QED
    BY <2>1, <2>2, <2>3 DEF SetsAgree
<1>5. HeapOwned'
  <2>1. {b \in Addrs : heap'[b] # Free} = {b \in Addrs : heap[b] # Free} \cup {a}
    OBVIOUS
  <2> QED
    BY <1>2, <2>1 DEF IInv, Timeless, HeapOwned
<1>6. BatchInv'
  BY DEF IInv, Timeless, BatchInv
<1>7. WaitingInv'
  BY <1>1, <1>3 DEF IInv, Timeless, WaitingInv, AddrsOf, timer
<1>8. RunningInv'
  BY <1>3 DEF IInv, Timeless, RunningInv, AddrsOf, IdOf
<1>9. NoTimerLost'
  <2>1. SeqsOf(expired)' = SeqsOf(expired) /\ SeqsOf(timers)' = SeqsOf(timers) \cup {timer.seq}
    BY <1>2, <1>3 DEF SeqsOf, timer
  <2> SUFFICES ASSUME pc # "gone", NEW s \in Seqs, fate'[s] = "armed"
               PROVE  s \in SeqsOf(timers)' \cup SeqsOf(expired)'
    BY DEF NoTimerLost
  <2>2. CASE s = timer.seq
    BY <2>1, <2>2
  <2>3. CASE s # timer.seq
    <3>1. fate[s] = "armed"
      BY <1>1, <2>3
    <3>2. s \in SeqsOf(timers) \cup SeqsOf(expired)
      BY <3>1 DEF IInv, Timeless, NoTimerLost
    <3> QED
      BY <2>1, <3>2
  <2> QED
    BY <2>2, <2>3
<1>10. AlarmInTime'
  <2>1. ASSUME NEW when \in Times PROVE ResetTimerFd(when)' = ResetTimerFd(when)
    BY DEF ResetTimerFd, HowMuchTimeFromNow, Later, clockVars
  <2>2. timers' # {} /\ timers' \subseteq Times \X Addrs /\ timers \subseteq Times \X Addrs
    BY <1>1 DEF TypeOK, IInv
  <2>3. PICK e \in timers' : Earliest(timers') = e[1]
    BY <2>2, EarliestFirst
  <2>4. /\ e[1] \in Times /\ Earliest(timers)' = e[1]
        /\ ResetTimerFd(Earliest(timers))' = ResetTimerFd(e[1])
    BY <2>1, <2>2, <2>3 DEF Earliest, ResetTimerFd, HowMuchTimeFromNow, Later, clockVars
  <2>5. /\ ResetTimerFd(e[1]) \in Int /\ ResetTimerFd(timer.when) \in Int
        /\ ResetTimerFd(timer.when) # Never
    BY <1>1, <2>4, AlarmType DEF IInv
  <2>6. e[1] <= timer.when
    <3>1. entry \in timers' /\ entry[1] = timer.when
      BY <1>1
    <3>2. \A f \in timers' : Earliest(timers') <= f[1]
      BY <2>2, EarliestFirst
    <3> QED
      BY <2>3, <3>1, <3>2
  <2>7. CASE timers = {} \/ timer.when < Earliest(timers)
    <3>1. alarm' = ResetTimerFd(timer.when)
      BY <2>7 DEF AddTimerInLoop, timer
    <3>2. timer.when <= e[1]
      <4>1. CASE timers = {}
        BY <1>1, <4>1, TimerAssumption DEF Times
      <4>2. CASE e \in timers /\ timer.when < Earliest(timers)
        <5>1. Earliest(timers) \in Times
          BY <4>2, FewerTimers DEF IInv
        <5>2. Earliest(timers) <= e[1]
          BY <2>2, <4>2, EarliestFirst
        <5> QED
          BY <1>1, <2>4, <4>2, <5>1, <5>2, TimerAssumption DEF Times
      <4>3. CASE e = entry
        BY <1>1, <4>3, TimerAssumption DEF Times
      <4> QED
        BY <1>1, <2>7, <4>1, <4>2, <4>3
    <3>3. e[1] = timer.when
      BY <1>1, <2>4, <2>6, <3>2, TimerAssumption DEF Times
    <3> QED
      BY <2>4, <2>5, <3>1, <3>3 DEF AlarmInTime
  <2>8. CASE timers # {} /\ ~(timer.when < Earliest(timers))
    <3>1. alarm' = alarm
      BY <2>8 DEF AddTimerInLoop, timer
    <3>2. Earliest(timers) \in Times
      BY <2>8, FewerTimers DEF IInv
    <3>3. Earliest(timers) <= e[1]
      <4>1. CASE e \in timers
        BY <2>2, <4>1, EarliestFirst
      <4>2. CASE e = entry
        BY <1>1, <2>8, <3>2, <4>2, TimerAssumption DEF Times
      <4> QED
        BY <1>1, <4>1, <4>2
    <3>4. /\ ResetTimerFd(Earliest(timers)) <= ResetTimerFd(e[1])
          /\ ResetTimerFd(Earliest(timers)) \in Int
      BY <2>4, <3>2, <3>3, AlarmMonotone, AlarmType DEF IInv
    <3>5. alarm \in Int \cup {Never}
      BY TimerAssumption DEF IInv, TypeOK
    <3> QED
      BY <2>4, <2>5, <2>8, <3>1, <3>4, <3>5 DEF IInv, AlarmInTime, clockVars
  <2> QED
    BY <2>7, <2>8
<1> QED
  BY <1>4, <1>5, <1>6, <1>7, <1>8, <1>9, <1>10 DEF IInv, Timeless

\* add_timer leaves well-formed timers and an instant for the timerfd.
LEMMA AddTypes ==
  ASSUME TypeOK, NEW a \in Addrs, NEW timer \in Timer, AddTimerInLoop(a, timer)
  PROVE  /\ timers' \subseteq Times \X Addrs
         /\ active' \subseteq Ids
         /\ alarm' \in (0..MaxTime) \cup {Never}
  BY AlarmType DEF TypeOK, AddTimerInLoop, Timer, Ids

LEMMA RunAddKeeps == ASSUME IInv, RunAdd PROVE IInv'
<1> DEFINE a == Head(inbox).addr
<1>1. /\ AddedOnce' /\ Created' = Created /\ a \in Pushed \ Created /\ Pushed' = Pushed \ {a}
  BY TailPushed DEF IInv, Timeless, HeapOwned, RunAdd
<1>2. Adding' = Adding \ {a} /\ a \in Adding
  BY <1>1 DEF Adding
<1>3. /\ a \in Addrs /\ heap[a] # Free /\ heap[a] \in Timer
      /\ a \notin AddrsOf(timers) \cup AddrsOf(expired)
  BY <1>2 DEF IInv, TypeOK, Timeless, HeapOwned
<1>4. TypeOK'
  <2>1. inbox' \in Seq(Requests)
    BY DEF IInv, TypeOK, RunAdd
  <2>2. fate' \in [Seqs -> Fates]
    BY DEF IInv, TypeOK, RunAdd, Fates
  <2>3. /\ timers' \subseteq Times \X Addrs /\ active' \subseteq Ids
        /\ alarm' \in (0..MaxTime) \cup {Never}
    BY <1>3, AddTypes DEF IInv, RunAdd
  <2> QED
    BY <2>1, <2>2, <2>3 DEF IInv, TypeOK, RunAdd, clockVars
<1>5. SeqsInv'
  BY DEF IInv, Timeless, SeqsInv, RunAdd
<1>6. heap' = heap /\ AddTimerInLoop(a, heap'[a]) /\ fate' = [fate EXCEPT ![heap'[a].seq] = "armed"]
  BY DEF RunAdd
<1>7. UNCHANGED <<canceling, expired, toRun, clockVars, pc>>
  BY DEF RunAdd
<1> HIDE DEF a
<1> QED
  BY <1>1, <1>2, <1>3, <1>4, <1>5, <1>6, <1>7, AddKeeps

LEMMA AddByOwnerKeeps ==
  ASSUME IInv, NEW a \in Addrs, NEW w \in Whens, NEW i \in Intervals \cup {OneShot},
         AddByOwner(a, w, i)
  PROVE  IInv'
<1> DEFINE timer == NewTimer(w, i)
<1>1. /\ timer \in Timer /\ timer # Free /\ timer.seq = created + 1
      /\ created \in Nat /\ created' = created + 1 /\ created + 1 \in Seqs
      /\ heap[a] = Free /\ heap' = [heap EXCEPT ![a] = timer] /\ heap \in [Addrs -> Timer \cup {Free}]
  BY NewTimerType DEF IInv, TypeOK, AddByOwner
<1>2. AddTimerInLoop(a, timer)
  BY DEF AddByOwner
<1> HIDE DEF timer
<1>3. heap'[a] = timer /\ \A b \in Addrs \ {a} : heap'[b] = heap[b]
  BY <1>1
<1>4. a \notin AddrsOf(timers) \cup AddrsOf(expired) \cup Adding
  BY <1>1 DEF IInv, Timeless, HeapOwned
<1>5. UNCHANGED <<PushedAdds, InNew, Pushed, Created, Adding, inbox, call>>
  BY DEF AddByOwner, PushedAdds, InNew, Pushed, Created, Adding
<1>6. AddedOnce' /\ Adding' = Adding \ {a}
  BY <1>4, <1>5 DEF IInv, Timeless, HeapOwned, AddedOnce
<1>7. TypeOK'
  <2>1. heap' \in [Addrs -> Timer \cup {Free}] /\ created' \in 0..MaxTimers
    BY <1>1, TimerAssumption DEF AddByOwner
  <2>2. fate' \in [Seqs -> Fates]
    BY DEF IInv, TypeOK, AddByOwner, Fates
  <2>3. /\ timers' \subseteq Times \X Addrs /\ active' \subseteq Ids
        /\ alarm' \in (0..MaxTime) \cup {Never}
    BY <1>1, <1>2, AddTypes DEF IInv
  <2>4. ids' \subseteq Ids
    BY <1>1 DEF IInv, TypeOK, AddByOwner, Ids
  <2> QED
    BY <2>1, <2>2, <2>3, <2>4 DEF IInv, TypeOK, AddByOwner, clockVars
<1>8. SeqsInv'
  <2>1. \A b \in Addrs \ {a} : heap[b] # Free => heap[b].seq \in Nat /\ heap[b].seq <= created
    BY <1>1, TimerAssumption DEF IInv, Timeless, SeqsInv, Timer, Seqs
  <2> QED
    BY <1>1, <1>3, <2>1 DEF IInv, Timeless, SeqsInv
<1>9. /\ fate' = [fate EXCEPT ![heap'[a].seq] = "armed"]
      /\ UNCHANGED <<canceling, expired, toRun, clockVars, pc>>
  BY <1>1, <1>3 DEF AddByOwner
<1> QED
  BY <1>1, <1>2, <1>3, <1>4, <1>6, <1>7, <1>8, <1>9, AddKeeps

-------------------------------------------------------------------------------
(* cancel_in_loop.                                                         *)

\* What is known of the timers in the queue's hands.
LEMMA InHands ==
  ASSUME IInv
  PROVE  /\ AddrsOf(timers) \subseteq Addrs /\ AddrsOf(expired) \subseteq Addrs
         /\ AddrsOf(timers) \cap AddrsOf(expired) = {}
         /\ \A e \in timers : e \in Times \X Addrs /\ e[2] \in AddrsOf(timers)
         /\ \A e \in expired : e \in Times \X Addrs /\ e[2] \in AddrsOf(expired)
         /\ \A a \in AddrsOf(timers) \cup AddrsOf(expired) :
              /\ heap[a] # Free /\ heap[a] \in Timer /\ heap[a].seq \in Seqs
              /\ a \notin Adding
         /\ \A a, b \in AddrsOf(timers) \cup AddrsOf(expired) : heap[a].seq = heap[b].seq => a = b
<1>1. AddrsOf(timers) \subseteq Addrs /\ AddrsOf(expired) \subseteq Addrs
  BY DEF IInv, TypeOK, AddrsOf
<1>2. /\ \A e \in timers : e \in Times \X Addrs /\ e[2] \in AddrsOf(timers)
      /\ \A e \in expired : e \in Times \X Addrs /\ e[2] \in AddrsOf(expired)
  BY DEF IInv, TypeOK, AddrsOf
<1>3. \A a \in AddrsOf(timers) \cup AddrsOf(expired) :
        /\ heap[a] # Free /\ heap[a] \in Timer /\ heap[a].seq \in Seqs
        /\ a \notin Adding
  BY <1>1 DEF IInv, TypeOK, Timeless, HeapOwned, Timer
<1> QED
  BY <1>1, <1>2, <1>3 DEF IInv, Timeless, HeapOwned, SeqsInv

\* A timer that is waiting is deleted.
LEMMA CancelWaiting ==
  ASSUME IInv, TypeOK', NEW id \in active, CancelInLoop(id),
         Adding' = Adding, AddedOnce',
         UNCHANGED <<created, expired, toRun, alarm, clockVars, pc>>
  PROVE  IInv'
<1> DEFINE a == id[1]
           entry == <<heap[a].when, a>>
<1>1. /\ a \in AddrsOf(timers) /\ id = <<a, heap[a].seq>> /\ entry \in timers
      /\ entry[2] = a /\ id[2] = heap[a].seq
  <2>1. PICK b \in AddrsOf(timers) : id = <<b, heap[b].seq>>
    BY DEF IInv, Timeless, SetsAgree, IdOf
  <2>2. PICK e \in timers : e[2] = b
    BY DEF AddrsOf
  <2>3. heap[b].when = e[1] /\ e = <<e[1], e[2]>>
    BY <2>2, InHands DEF IInv, Timeless, SetsAgree
  <2> QED
    BY <2>1, <2>2, <2>3
<1>2. /\ timers' = timers \ {entry} /\ active' = active \ {id} /\ canceling' = canceling
      /\ heap' = [heap EXCEPT ![a] = Free]
      /\ fate' = [fate EXCEPT ![id[2]] = "cancelled"]
  <2>1. Found(id) = {id}
    BY DEF Found
  <2> QED
    BY <2>1 DEF CancelInLoop
<1> HIDE DEF a, entry
<1>3. /\ a \in Addrs /\ heap[a].seq \in Seqs
      /\ heap'[a] = Free /\ \A b \in Addrs \ {a} : heap'[b] = heap[b]
      /\ fate'[heap[a].seq] = "cancelled" /\ \A s \in Seqs \ {heap[a].seq} : fate'[s] = fate[s]
  BY <1>1, <1>2, InHands DEF IInv, TypeOK
<1>4. AddrsOf(timers)' = AddrsOf(timers) \ {a} /\ AddrsOf(expired)' = AddrsOf(expired)
  <2>1. \A e \in timers : e[2] = a => e = entry
    BY <1>1 DEF IInv, Timeless, SetsAgree
  <2>2. AddrsOf(timers') = AddrsOf(timers) \ {a}
    BY <1>1, <1>2, <2>1 DEF AddrsOf
  <2> QED
    BY <2>2 DEF AddrsOf
<1>5. \A b \in AddrsOf(timers)' \cup AddrsOf(expired) :
        /\ b \in Addrs \ {a} /\ heap'[b] = heap[b]
        /\ heap[b].seq \in Seqs /\ heap[b].seq # heap[a].seq /\ fate'[heap[b].seq] = fate[heap[b].seq]
  <2> TAKE b \in AddrsOf(timers)' \cup AddrsOf(expired)
  <2>1. b \in AddrsOf(timers) \cup AddrsOf(expired) /\ b # a
    BY <1>1, <1>4, InHands
  <2>2. b \in Addrs /\ heap[b].seq \in Seqs /\ heap[b].seq # heap[a].seq
    BY <1>1, <2>1, InHands
  <2> QED
    BY <1>3, <2>1, <2>2
<1>6. SetsAgree'
  <2>1. \A e \in timers' : e \in timers /\ e[2] \in AddrsOf(timers)'
    BY <1>2 DEF AddrsOf
  <2>2. \A e \in timers' : heap'[e[2]] # Free /\ heap'[e[2]].when = e[1]
    BY <1>5, <2>1, InHands DEF IInv, Timeless, SetsAgree
  <2>3. active' = {<<b, heap'[b].seq>> : b \in AddrsOf(timers)'}
    <3>1. active = {<<b, heap[b].seq>> : b \in AddrsOf(timers)}
      BY DEF IInv, Timeless, SetsAgree, IdOf
    <3>2. active' = {<<b, heap[b].seq>> : b \in AddrsOf(timers) \ {a}}
      BY <1>1, <1>2, <3>1
    <3> QED
      BY <1>4, <1>5, <3>2
  <2> QED
    BY <2>1, <2>2, <2>3 DEF IInv, Timeless, SetsAgree, IdOf
<1>7. HeapOwned'
  <2>1. {b \in Addrs : heap'[b] # Free} = {b \in Addrs : heap[b] # Free} \ {a}
    BY <1>3
  <2>2. a \notin AddrsOf(expired) /\ a \notin Adding
    BY <1>1, InHands
  <2> QED
    BY <1>4, <2>1, <2>2 DEF IInv, Timeless, HeapOwned
<1>8. BatchInv' /\ SeqsInv'
  BY <1>3 DEF IInv, Timeless, BatchInv, SeqsInv
<1>9. WaitingInv'
  <2>1. \A e \in timers' : e \in timers /\ e[2] \in AddrsOf(timers)'
    BY <1>2 DEF AddrsOf
  <2> QED
    BY <1>5, <2>1 DEF IInv, Timeless, WaitingInv
<1>10. RunningInv'
  BY <1>2, <1>5, InHands DEF IInv, Timeless, RunningInv, IdOf
<1>11. NoTimerLost'
  <2> SUFFICES ASSUME pc # "gone", NEW s \in Seqs, fate'[s] = "armed"
               PROVE  s \in SeqsOf(timers)' \cup SeqsOf(expired)'
    BY DEF NoTimerLost
  <2>1. s # heap[a].seq /\ fate[s] = "armed"
    BY <1>3
  <2>2. s \in SeqsOf(timers) \cup SeqsOf(expired)
    BY <2>1 DEF IInv, Timeless, NoTimerLost
  <2>3. PICK b \in AddrsOf(timers) \cup AddrsOf(expired) : heap[b].seq = s
    BY <2>2 DEF SeqsOf
  <2>4. b \in AddrsOf(timers)' \cup AddrsOf(expired)' /\ heap'[b].seq = s
    BY <1>4, <1>5, <2>1, <2>3
  <2> QED
    BY <2>4 DEF SeqsOf
<1>12. AlarmInTime'
  BY <1>2, AlarmStays DEF IInv, AlarmInTime, clockVars, Earliest, ResetTimerFd,
                          HowMuchTimeFromNow, Later
<1> QED
  BY <1>6, <1>7, <1>8, <1>9, <1>10, <1>11, <1>12 DEF IInv, Timeless

\* A timer of the batch is noted; a cancellation of any other is lost.
LEMMA CancelRunning ==
  ASSUME IInv, TypeOK', NEW id \in Ids, id \notin active, CancelInLoop(id),
         Adding' = Adding, AddedOnce',
         UNCHANGED <<created, expired, toRun, alarm, clockVars, pc>>
  PROVE  IInv'
<1>1. /\ UNCHANGED <<timers, active, heap>>
      /\ canceling' = IF pc = "callbacks" THEN canceling \cup {id} ELSE canceling
      /\ fate' = [fate EXCEPT ![id[2]] = IF InBatch(id) THEN "cancelled" ELSE @]
  <2>1. Found(id) = {}
    BY DEF Found
  <2> QED
    BY <2>1 DEF CancelInLoop
<1>2. /\ UNCHANGED <<AddrsOf(timers), AddrsOf(expired), SeqsOf(timers), SeqsOf(expired)>>
  BY <1>1 DEF AddrsOf, SeqsOf
<1>3. SetsAgree' /\ HeapOwned' /\ BatchInv' /\ SeqsInv'
  BY <1>1, <1>2 DEF IInv, Timeless, SetsAgree, HeapOwned, BatchInv, SeqsInv, IdOf
<1>4. AlarmInTime'
  BY <1>1, AlarmStays DEF IInv, AlarmInTime, clockVars, Earliest, ResetTimerFd,
                          HowMuchTimeFromNow, Later
<1>5. CASE ~InBatch(id)
  <2>1. fate' = fate
    BY <1>1, <1>5 DEF IInv, TypeOK
  <2>2. \A e \in expired : pc = "callbacks" /\ <<e[2], heap[e[2]].seq>> # id
    BY <1>5 DEF InBatch, IInv, Timeless, BatchInv
  <2>3. RunningInv'
    BY <1>1, <2>1, <2>2 DEF IInv, Timeless, RunningInv, IdOf
  <2> QED
    BY <1>1, <1>2, <1>3, <1>4, <2>1, <2>3 DEF IInv, Timeless, WaitingInv, NoTimerLost
<1>6. CASE InBatch(id)
  <2> DEFINE a == id[1]
  <2>1. pc = "callbacks" /\ a \in AddrsOf(expired) /\ heap[a].seq = id[2] /\ id = <<a, id[2]>>
    BY <1>6 DEF InBatch, AddrsOf, Ids
  <2>2. /\ canceling' = canceling \cup {id}
        /\ fate'[id[2]] = "cancelled" /\ \A s \in Seqs \ {id[2]} : fate'[s] = fate[s]
    BY <1>1, <1>6, <2>1 DEF IInv, TypeOK, Ids
  <2> HIDE DEF a
  <2>3. \A b \in AddrsOf(timers) \cup AddrsOf(expired) :
          heap[b].seq \in Seqs /\ (heap[b].seq = id[2] => b = a)
    BY <2>1, InHands
  <2>4. WaitingInv'
    BY <1>1, <2>1, <2>2, <2>3, InHands DEF IInv, Timeless, WaitingInv
  <2>5. RunningInv'
    <3> SUFFICES ASSUME NEW e \in expired
                 PROVE  LET timer == heap[e[2]] IN
                        /\ fate'[timer.seq] \in {"armed", "ran", "cancelled"}
                        /\ fate'[timer.seq] = "ran" => timer.interval = OneShot
                        /\ fate'[timer.seq] = "cancelled" => <<e[2], timer.seq>> \in canceling'
                        /\ <<e[2], timer.seq>> \in canceling' => fate'[timer.seq] = "cancelled"
                        /\ timer.interval = OneShot /\ fate'[timer.seq] = "armed" => e \in toRun
      BY <1>1 DEF RunningInv, IdOf
    <3>1. CASE e[2] = a
      BY <2>1, <2>2, <3>1
    <3>2. CASE e[2] # a
      <4>1. heap[e[2]].seq \in Seqs \ {id[2]} /\ <<e[2], heap[e[2]].seq>> # id
        BY <2>1, <2>3, <3>2, InHands
      <4> QED
        BY <2>2, <4>1 DEF IInv, Timeless, RunningInv, IdOf
    <3> QED
      BY <3>1, <3>2
  <2>6. NoTimerLost'
    BY <1>2, <2>2 DEF IInv, Timeless, NoTimerLost
  <2> QED
    BY <1>3, <1>4, <2>4, <2>5, <2>6 DEF IInv, Timeless
<1> QED
  BY <1>5, <1>6

LEMMA CancelTypes ==
  ASSUME TypeOK, NEW id \in Ids, CancelInLoop(id)
  PROVE  /\ heap' \in [Addrs -> Timer \cup {Free}] /\ fate' \in [Seqs -> Fates]
         /\ timers' \subseteq timers /\ active' \subseteq Ids /\ canceling' \subseteq Ids
<1>1. heap' \in [Addrs -> Timer \cup {Free}]
  BY DEF TypeOK, CancelInLoop
<1>2. fate' \in [Seqs -> Fates]
  BY DEF TypeOK, CancelInLoop, Ids, Fates
<1> QED
  BY <1>1, <1>2 DEF TypeOK, CancelInLoop

LEMMA CancelByOwnerKeeps == ASSUME IInv, NEW id \in ids, CancelByOwner(id) PROVE IInv'
<1>1. id \in Ids /\ CancelInLoop(id)
  BY DEF IInv, TypeOK, CancelByOwner
<1>2. UNCHANGED <<PushedAdds, InNew, Pushed, Created, Adding, inbox, call>>
  BY DEF CancelByOwner, PushedAdds, InNew, Pushed, Created, Adding
<1>3. AddedOnce'
  BY <1>2 DEF IInv, Timeless, HeapOwned, AddedOnce
<1>4. TypeOK'
  <2>1. cancels' \in 0..MaxCancels
    BY TimerAssumption DEF IInv, TypeOK, CancelByOwner
  <2> QED
    BY <1>1, <2>1, CancelTypes DEF IInv, TypeOK, CancelByOwner, clockVars
<1>5. UNCHANGED <<created, expired, toRun, alarm, clockVars, pc>>
  BY DEF CancelByOwner
<1> QED
  BY <1>1, <1>2, <1>3, <1>4, <1>5, CancelWaiting, CancelRunning

LEMMA RunCancelKeeps == ASSUME IInv, RunCancel PROVE IInv'
<1>1. /\ AddedOnce' /\ Created' = Created /\ Pushed' = Pushed /\ Head(inbox) \in Requests
  BY TailPushed DEF IInv, Timeless, HeapOwned, RunCancel
<1>2. Adding' = Adding
  BY <1>1 DEF Adding
<1> DEFINE id == Head(inbox).id
<1>3. id \in Ids /\ CancelInLoop(id)
  BY <1>1 DEF Requests, RunCancel
<1>4. TypeOK'
  <2>1. inbox' \in Seq(Requests)
    BY DEF IInv, TypeOK, RunCancel
  <2> QED
    BY <1>3, <2>1, CancelTypes DEF IInv, TypeOK, RunCancel, clockVars
<1>5. UNCHANGED <<created, expired, toRun, alarm, clockVars, pc>>
  BY DEF RunCancel
<1> HIDE DEF id
<1> QED
  BY <1>1, <1>2, <1>3, <1>4, <1>5, CancelWaiting, CancelRunning

-------------------------------------------------------------------------------
(* handle_read.                                                            *)

LEMMA PollReportsKeeps == ASSUME IInv, PollReports PROVE IInv'
<1>1. UNCHANGED <<PushedAdds, InNew, Pushed, Created, Adding, AddrsOf(timers), AddrsOf(expired),
                  SeqsOf(timers), SeqsOf(expired)>>
  BY DEF PollReports, PushedAdds, InNew, Pushed, Created, Adding, queueVars, AddrsOf, SeqsOf
<1>2. TypeOK'
  BY DEF IInv, TypeOK, PollReports, queueVars, clockVars, Places
<1>3. SetsAgree' /\ HeapOwned' /\ SeqsInv'
  BY <1>1 DEF IInv, Timeless, SetsAgree, HeapOwned, AddedOnce, SeqsInv, PollReports, queueVars, IdOf
<1>4. BatchInv' /\ WaitingInv' /\ RunningInv' /\ NoTimerLost'
  BY <1>1 DEF IInv, Timeless, BatchInv, WaitingInv, RunningInv, NoTimerLost, PollReports,
              queueVars, IdOf
<1>5. AlarmInTime'
  BY AlarmStays DEF IInv, PollReports, queueVars
<1> QED
  BY <1>2, <1>3, <1>4, <1>5 DEF IInv, Timeless

\* The timers that are due change hands.
LEMMA HandleReadKeeps == ASSUME IInv, HandleRead PROVE IInv'
<1> DEFINE due == Due(wall)
<1>1. /\ due \subseteq timers /\ expired' = due /\ toRun' = due /\ timers' = timers \ due
      /\ active' = active \ {<<e[2], heap[e[2]].seq>> : e \in due}
      /\ canceling' = {} /\ pc' = "callbacks" /\ expired = {}
      /\ UNCHANGED <<heap, created, fate, inbox, call>>
  BY DEF HandleRead, Due, IInv, Timeless, BatchInv
<1> HIDE DEF due
<1>2. UNCHANGED <<PushedAdds, InNew, Pushed, Created, Adding, AddedOnce>>
  BY <1>1 DEF PushedAdds, InNew, Pushed, Created, Adding, AddedOnce
<1>3. TypeOK'
  <2>1. timers' \cup expired' \subseteq Times \X Addrs /\ toRun' \subseteq expired'
    BY <1>1 DEF IInv, TypeOK
  <2>2. active' \cup canceling' \cup ids' \subseteq Ids
    BY <1>1 DEF IInv, TypeOK, HandleRead
  <2>3. now' \in Times /\ alarm' \in (0..MaxTime) \cup {Never} /\ pc' \in Places
    BY DEF IInv, TypeOK, HandleRead, Places
  <2> QED
    BY <2>1, <2>2, <2>3 DEF IInv, TypeOK, HandleRead, clockVars
<1>4. /\ AddrsOf(timers)' \cup AddrsOf(expired)' = AddrsOf(timers)
      /\ AddrsOf(timers)' \cap AddrsOf(expired)' = {}
  <2>1. \A e, f \in timers : e[2] = f[2] => e = f
    BY DEF IInv, Timeless, SetsAgree
  <2>2. AddrsOf(timers \ due) \cap AddrsOf(due) = {}
    BY <1>1, <2>1 DEF AddrsOf
  <2>3. AddrsOf(timers \ due) \cup AddrsOf(due) = AddrsOf(timers)
    BY <1>1 DEF AddrsOf
  <2> QED
    BY <1>1, <2>2, <2>3 DEF AddrsOf
<1>5. SetsAgree'
  <2>1. active = {<<a, heap[a].seq>> : a \in AddrsOf(timers)}
    BY DEF IInv, Timeless, SetsAgree, IdOf
  <2>2. active' = active \ {<<a, heap[a].seq>> : a \in AddrsOf(expired)'}
    BY <1>1 DEF AddrsOf
  <2>3. active' = {<<a, heap[a].seq>> : a \in AddrsOf(timers)'}
    BY <1>4, <2>1, <2>2
  <2> QED
    BY <1>1, <2>3 DEF IInv, Timeless, SetsAgree, IdOf
<1>6. HeapOwned'
  <2>1. AddrsOf(expired) = {}
    BY <1>1 DEF AddrsOf
  <2> QED
    BY <1>1, <1>2, <1>4, <2>1 DEF IInv, Timeless, HeapOwned
<1>7. BatchInv' /\ SeqsInv' /\ WaitingInv'
  BY <1>1 DEF IInv, Timeless, BatchInv, SeqsInv, WaitingInv
<1>8. RunningInv'
  BY <1>1 DEF IInv, Timeless, WaitingInv, RunningInv
<1>9. NoTimerLost'
  <2>1. SeqsOf(timers)' \cup SeqsOf(expired)' = SeqsOf(timers) \cup SeqsOf(expired)
    BY <1>1, <1>4 DEF SeqsOf, AddrsOf
  <2>2. pc # "gone"
    BY DEF HandleRead
  <2> QED
    BY <1>1, <2>1, <2>2 DEF IInv, Timeless, NoTimerLost
<1>10. AlarmInTime'
  BY <1>1 DEF AlarmInTime
<1> QED
  BY <1>3, <1>5, <1>6, <1>7, <1>8, <1>9, <1>10 DEF IInv, Timeless

\* One timer of the batch has run.
LEMMA RunTimerKeeps == ASSUME IInv, RunTimer PROVE IInv'
<1>1. PICK e \in toRun :
        /\ toRun' = toRun \ {e}
        /\ LET timer == heap[e[2]] IN
             fate' = [fate EXCEPT ![timer.seq] =
                        IF timer.interval = OneShot /\ @ = "armed" THEN "ran" ELSE @]
  BY DEF RunTimer
<1>2. UNCHANGED <<heap, created, timers, active, canceling, expired, now, alarm, clockVars, pc, inbox,
                  call, ids, cancels>>
  BY DEF RunTimer
<1> DEFINE timer == heap[e[2]]
           ends == timer.interval = OneShot /\ fate[timer.seq] = "armed"
<1>3. e \in expired /\ e[2] \in AddrsOf(expired) /\ timer \in Timer /\ timer.seq \in Seqs
  BY InHands DEF IInv, TypeOK
<1>4. /\ fate' \in [Seqs -> Fates]
      /\ fate'[timer.seq] = IF ends THEN "ran" ELSE fate[timer.seq]
      /\ \A s \in Seqs \ {timer.seq} : fate'[s] = fate[s]
  BY <1>1, <1>3 DEF IInv, TypeOK, Fates
<1> HIDE DEF timer
<1>5. UNCHANGED <<PushedAdds, InNew, Pushed, Created, Adding, AddrsOf(timers), AddrsOf(expired),
                  SeqsOf(timers), SeqsOf(expired)>>
  BY <1>2 DEF PushedAdds, InNew, Pushed, Created, Adding, AddrsOf, SeqsOf
<1>6. TypeOK'
  BY <1>1, <1>2, <1>4 DEF IInv, TypeOK, clockVars
<1>7. SetsAgree' /\ HeapOwned' /\ SeqsInv' /\ BatchInv'
  BY <1>2, <1>5 DEF IInv, Timeless, SetsAgree, HeapOwned, AddedOnce, SeqsInv, BatchInv, IdOf
<1>8. WaitingInv'
  BY <1>2, <1>3, <1>4, InHands DEF IInv, Timeless, WaitingInv, timer
<1>9. RunningInv'
  <2> SUFFICES ASSUME NEW f \in expired
               PROVE  LET t == heap[f[2]] IN
                      /\ fate'[t.seq] \in {"armed", "ran", "cancelled"}
                      /\ fate'[t.seq] = "ran" => t.interval = OneShot
                      /\ fate'[t.seq] = "cancelled" => <<f[2], t.seq>> \in canceling
                      /\ <<f[2], t.seq>> \in canceling => fate'[t.seq] = "cancelled"
                      /\ t.interval = OneShot /\ fate'[t.seq] = "armed" => f \in toRun'
    BY <1>2 DEF RunningInv, IdOf
  <2>1. LET t == heap[f[2]] IN
        /\ fate[t.seq] \in {"armed", "ran", "cancelled"}
        /\ fate[t.seq] = "ran" => t.interval = OneShot
        /\ fate[t.seq] = "cancelled" => <<f[2], t.seq>> \in canceling
        /\ <<f[2], t.seq>> \in canceling => fate[t.seq] = "cancelled"
        /\ t.interval = OneShot /\ fate[t.seq] = "armed" => f \in toRun
    BY DEF IInv, Timeless, RunningInv, IdOf
  <2>2. CASE f[2] = e[2]
    BY <1>1, <1>4, <2>1, <2>2 DEF timer
  <2>3. CASE f[2] # e[2]
    <3>1. heap[f[2]].seq \in Seqs \ {timer.seq} /\ f # e
      BY <1>3, <2>3, InHands DEF timer
    <3> QED
      BY <1>1, <1>4, <2>1, <3>1
  <2> QED
    BY <2>2, <2>3
<1>10. NoTimerLost'
  BY <1>2, <1>4, <1>5 DEF IInv, Timeless, NoTimerLost
<1>11. AlarmInTime'
  BY <1>2, AlarmStays DEF IInv, RunTimer
<1> QED
  BY <1>6, <1>7, <1>8, <1>9, <1>10, <1>11 DEF IInv, Timeless

(* reset: a timer of the batch that is still armed goes back to timers_,   *)
(* and no other does; the rest of the batch is deleted.                    *)
LEMMA ResetKeeps == ASSUME IInv, Reset PROVE IInv'
<1> DEFINE again == {e \in expired : Restarts(e)}
           over == expired \ again
<1>1. /\ pc = "callbacks" /\ toRun = {}
      /\ heap' = [a \in Addrs |-> IF a \in AddrsOf(again) THEN Restarted(heap[a])
                                  ELSE IF a \in AddrsOf(over) THEN Free ELSE heap[a]]
      /\ timers' = timers \cup {EntryAgain(e) : e \in again}
      /\ active' = active \cup {<<e[2], heap[e[2]].seq>> : e \in again}
      /\ alarm' = IF timers' # {} THEN ResetTimerFd(Earliest(timers')) ELSE alarm
      /\ expired' = {} /\ pc' = "loop"
      /\ UNCHANGED <<created, canceling, toRun, now, clockVars, inbox, call, ids, cancels, fate>>
  BY DEF Reset
<1>2. \A e \in expired :
        LET timer == heap[e[2]] IN
        Restarts(e) => timer.interval # OneShot /\ fate[timer.seq] = "armed"
  BY DEF IInv, Timeless, RunningInv, Restarts, IdOf
<1>3. \A e \in expired :
        LET timer == heap[e[2]] IN fate[timer.seq] = "armed" => Restarts(e)
  BY <1>1 DEF IInv, Timeless, RunningInv, Restarts, IdOf
<1> DEFINE goOn == AddrsOf(again)
           end == AddrsOf(over)
<1>4. /\ goOn \cup end = AddrsOf(expired) /\ goOn \cap end = {}
      /\ goOn \subseteq Addrs /\ end \subseteq Addrs
  <2>1. \A e, f \in expired : e[2] = f[2] => (Restarts(e) <=> Restarts(f))
    BY DEF Restarts
  <2>2. goOn \cap end = {}
    BY <2>1 DEF AddrsOf
  <2>3. goOn \cup end = AddrsOf(expired)
    BY DEF AddrsOf
  <2> HIDE DEF goOn, end
  <2> QED
    BY <2>2, <2>3, InHands
<1>5. \A a \in goOn : /\ heap[a] \in Timer /\ heap[a].interval # OneShot
                      /\ fate[heap[a].seq] = "armed"
  BY <1>2, InHands DEF AddrsOf
<1>6. \A a \in goOn : /\ Restarted(heap[a]) \in Timer
                      /\ Restarted(heap[a]).seq = heap[a].seq
                      /\ Restarted(heap[a]).when \in Times
  <2> TAKE a \in goOn
  <2>1. heap[a].interval \in Nat /\ heap[a].interval # OneShot /\ heap[a] \in Timer
    BY <1>5, TimerAssumption DEF Timer
  <2>2. Later(now, heap[a].interval) \in Times
    BY <2>1, TimerAssumption DEF IInv, TypeOK, Later, Times
  <2> QED
    BY <2>1, <2>2 DEF Restarted, Timer
<1>7. \A e \in again : EntryAgain(e) = <<Restarted(heap[e[2]]).when, e[2]>> /\ e[2] \in goOn
  BY DEF EntryAgain, AddrsOf
<1>8. \A a \in goOn : \E e \in again : e[2] = a
  BY DEF AddrsOf
<1>9. /\ timers' = timers \cup {<<Restarted(heap[a]).when, a>> : a \in goOn}
      /\ active' = active \cup {<<a, heap[a].seq>> : a \in goOn}
  <2>1. {EntryAgain(e) : e \in again} = {<<Restarted(heap[a]).when, a>> : a \in goOn}
    BY <1>7, <1>8
  <2>2. {<<e[2], heap[e[2]].seq>> : e \in again} = {<<a, heap[a].seq>> : a \in goOn}
    BY <1>7, <1>8
  <2> QED
    BY <1>1, <2>1, <2>2
<1>10. heap' = [a \in Addrs |-> IF a \in goOn THEN Restarted(heap[a])
                                ELSE IF a \in end THEN Free ELSE heap[a]]
  BY <1>1
<1> HIDE DEF again, over, goOn, end
<1>11. /\ \A a \in goOn : heap'[a] = Restarted(heap[a]) /\ heap'[a] # Free
       /\ \A a \in end : heap'[a] = Free
       /\ \A a \in Addrs \ (goOn \cup end) : heap'[a] = heap[a]
  BY <1>4, <1>6, <1>10, FreeAssumption
<1>12. AddrsOf(timers)' = AddrsOf(timers) \cup goOn /\ AddrsOf(expired)' = {}
  <2> DEFINE back == {<<Restarted(heap[a]).when, a>> : a \in goOn}
  <2>1. AddrsOf(timers \cup back) = AddrsOf(timers) \cup goOn
    <3>1. (\A e \in back : e[2] \in goOn) /\ (\A a \in goOn : \E e \in back : e[2] = a)
      <4>1. \A e \in back : e[2] \in goOn
        OBVIOUS
      <4>2. ASSUME NEW a \in goOn PROVE \E e \in back : e[2] = a
        <5>1. <<Restarted(heap[a]).when, a>> \in back
          OBVIOUS
        <5> HIDE DEF back
        <5> QED
          BY <5>1
      <4> QED
        BY <4>1, <4>2
    <3> HIDE DEF back
    <3> QED
      BY <3>1 DEF AddrsOf
  <2> QED
    BY <1>1, <1>9, <2>1 DEF AddrsOf
<1>13. \A a \in AddrsOf(timers) : a \in Addrs \ (goOn \cup end) /\ heap'[a] = heap[a]
  BY <1>4, <1>11, InHands
<1>14. \A a \in AddrsOf(timers)' : /\ heap'[a] # Free
                                   /\ heap'[a].seq = heap[a].seq
                                   /\ fate[heap[a].seq] = "armed"
  <2>1. \A a \in AddrsOf(timers) : fate[heap[a].seq] = "armed" /\ heap[a] # Free
    BY InHands DEF IInv, Timeless, WaitingInv, AddrsOf
  <2> QED
    BY <1>5, <1>6, <1>11, <1>12, <1>13, <2>1
<1>15. TypeOK'
  <2>1. heap' \in [Addrs -> Timer \cup {Free}]
    BY <1>6, <1>10 DEF IInv, TypeOK
  <2>2. timers' \subseteq Times \X Addrs
    BY <1>4, <1>6, <1>9 DEF IInv, TypeOK
  <2>3. active' \subseteq Ids
    BY <1>4, <1>9, InHands DEF IInv, TypeOK, Ids
  <2>4. alarm' \in (0..MaxTime) \cup {Never}
    <3>1. CASE timers' # {}
      <4>1. PICK e \in timers' : Earliest(timers') = e[1]
        BY <2>2, <3>1, EarliestFirst
      <4> QED
        BY <1>1, <2>2, <3>1, <4>1, AlarmType DEF IInv
    <3>2. CASE timers' = {}
      BY <1>1, <3>2 DEF IInv, TypeOK
    <3> QED
      BY <3>1, <3>2
  <2> QED
    BY <1>1, <2>1, <2>2, <2>3, <2>4 DEF IInv, TypeOK, Places, clockVars
<1>16. SetsAgree'
  <2>1. \A e \in timers' : heap'[e[2]] # Free /\ heap'[e[2]].when = e[1]
    <3>1. \A e \in timers : heap'[e[2]] # Free /\ heap'[e[2]].when = e[1]
      BY <1>13, InHands DEF IInv, Timeless, SetsAgree
    <3> QED
      BY <1>9, <1>11, <3>1
  <2>2. \A e, f \in timers' : e[2] = f[2] => e = f
    <3>1. \A e \in timers : e[2] \notin goOn
      BY <1>13, InHands
    <3>2. \A e, f \in timers : e[2] = f[2] => e = f
      BY DEF IInv, Timeless, SetsAgree
    <3> QED
      BY <1>9, <3>1, <3>2
  <2>3. active' = {<<a, heap'[a].seq>> : a \in AddrsOf(timers)'}
    <3>1. active = {<<a, heap[a].seq>> : a \in AddrsOf(timers)}
      BY DEF IInv, Timeless, SetsAgree, IdOf
    <3>2. active' = {<<a, heap[a].seq>> : a \in AddrsOf(timers)'}
      BY <1>9, <1>12, <3>1
    <3> QED
      BY <1>14, <3>2
  <2> QED
    BY <2>1, <2>2, <2>3 DEF SetsAgree, IdOf
<1>17. UNCHANGED <<PushedAdds, InNew, Pushed, Created, Adding, AddedOnce>>
  BY <1>1 DEF PushedAdds, InNew, Pushed, Created, Adding, AddedOnce
<1>18. HeapOwned'
  <2>1. /\ {a \in Addrs : heap[a] # Free} = AddrsOf(timers) \cup goOn \cup end \cup Adding
        /\ Adding \cap (AddrsOf(timers) \cup goOn \cup end) = {} /\ AddedOnce
    BY <1>4 DEF IInv, Timeless, HeapOwned
  <2>2. {a \in Addrs : heap'[a] # Free} = AddrsOf(timers) \cup goOn \cup Adding
    BY <1>4, <1>11, <1>13, <2>1
  <2> QED
    BY <1>12, <1>17, <2>1, <2>2 DEF HeapOwned
<1>19. BatchInv' /\ RunningInv'
  BY <1>1 DEF BatchInv, RunningInv
<1>20. SeqsInv'
  <2>1. \A a \in Addrs : heap'[a] # Free => heap[a] # Free /\ heap'[a].seq = heap[a].seq
    BY <1>4, <1>6, <1>11, InHands
  <2> QED
    BY <1>1, <2>1 DEF IInv, Timeless, SeqsInv
<1>21. WaitingInv'
  <2>1. \A e \in timers' : e[2] \in AddrsOf(timers)'
    BY DEF AddrsOf
  <2> QED
    BY <1>1, <1>14, <2>1 DEF WaitingInv
<1>22. NoTimerLost'
  <2> SUFFICES ASSUME NEW s \in Seqs, fate[s] = "armed" PROVE s \in SeqsOf(timers)'
    BY <1>1 DEF NoTimerLost
  <2>1. PICK a \in AddrsOf(timers) \cup AddrsOf(expired) : heap[a].seq = s
    BY <1>1 DEF IInv, Timeless, NoTimerLost, SeqsOf
  <2>2. a \notin end
    <3>1. \A e \in over : fate[heap[e[2]].seq] # "armed"
      BY <1>3 DEF over, again
    <3> QED
      BY <2>1, <3>1 DEF end, AddrsOf
  <2>3. a \in AddrsOf(timers)' /\ heap'[a].seq = s
    BY <1>4, <1>12, <1>14, <2>1, <2>2
  <2> QED
    BY <2>3 DEF SeqsOf
<1>23. AlarmInTime'
  <2> SUFFICES ASSUME timers' # {}
               PROVE  alarm' # Never /\ alarm' <= ResetTimerFd(Earliest(timers))'
    BY DEF AlarmInTime
  <2>1. timers' \subseteq Times \X Addrs
    BY <1>15 DEF TypeOK
  <2>2. PICK e \in timers' : Earliest(timers') = e[1]
    BY <2>1, EarliestFirst
  <2>3. ResetTimerFd(Earliest(timers))' = ResetTimerFd(Earliest(timers'))
    BY <1>1 DEF clockVars, ResetTimerFd, HowMuchTimeFromNow, Later, Earliest
  <2>4. ResetTimerFd(e[1]) \in 0..MaxTime /\ ResetTimerFd(e[1]) # Never
    BY <2>1, AlarmType DEF IInv
  <2> QED
    BY <1>1, <2>2, <2>3, <2>4, TimerAssumption
<1> QED
  BY <1>15, <1>16, <1>18, <1>19, <1>20, <1>21, <1>22, <1>23 DEF IInv, Timeless

LEMMA DestroyKeeps == ASSUME IInv, Destroy PROVE IInv'
<1>1. /\ heap' = [a \in Addrs |-> IF a \in AddrsOf(timers) THEN Free ELSE heap[a]]
      /\ timers' = {} /\ active' = {} /\ alarm' = Never /\ pc' = "gone" /\ expired = {}
      /\ UNCHANGED <<created, canceling, expired, toRun, now, clockVars, inbox, call, ids, cancels, fate>>
  BY DEF Destroy, IInv, Timeless, BatchInv
<1>2. UNCHANGED <<PushedAdds, InNew, Pushed, Created, Adding, AddedOnce>>
  BY <1>1 DEF PushedAdds, InNew, Pushed, Created, Adding, AddedOnce
<1>3. TypeOK'
  <2>1. heap' \in [Addrs -> Timer \cup {Free}]
    BY <1>1 DEF IInv, TypeOK
  <2> QED
    BY <1>1, <2>1 DEF IInv, TypeOK, Places, clockVars
<1>4. AddrsOf(timers)' = {} /\ AddrsOf(expired) = {} /\ AddrsOf(expired)' = {}
  BY <1>1 DEF AddrsOf
<1>5. HeapOwned'
  <2>1. {a \in Addrs : heap'[a] # Free} = {a \in Addrs : heap[a] # Free} \ AddrsOf(timers)
    BY <1>1
  <2> QED
    BY <1>2, <1>4, <2>1 DEF IInv, Timeless, HeapOwned
<1>6. SetsAgree'
  BY <1>1, <1>4 DEF SetsAgree
<1>7. SeqsInv'
  <2>1. \A a \in Addrs : heap'[a] # Free => heap'[a] = heap[a]
    BY <1>1
  <2> QED
    BY <1>1, <2>1 DEF IInv, Timeless, SeqsInv
<1> QED
  BY <1>1, <1>3, <1>5, <1>6, <1>7
     DEF IInv, Timeless, BatchInv, WaitingInv, RunningInv, NoTimerLost, AlarmInTime

-------------------------------------------------------------------------------
LEMMA NextIInv == IInv /\ [Next]_vars => IInv'
<1> SUFFICES ASSUME IInv, [Next]_vars PROVE IInv'
  OBVIOUS
<1>1. ASSUME NEW t \in Threads, OtherThread(t) PROVE IInv'
  BY <1>1, NewKeeps, PushAddKeeps, ReturnIdKeeps, CancelKeeps DEF OtherThread
<1>2. ASSUME OwnerCall PROVE IInv'
  BY <1>2, AddByOwnerKeeps, CancelByOwnerKeeps DEF OwnerCall
<1>3. CASE UNCHANGED vars
  <2>1. UNCHANGED <<PushedAdds, InNew, Pushed, Created, Adding, AddedOnce>>
    BY <1>3 DEF vars, PushedAdds, InNew, Pushed, Created, Adding, AddedOnce
  <2>2. TypeOK'
    BY <1>3 DEF vars, queueVars, clockVars, IInv, TypeOK
  <2>3. AddedOnce'
    BY <2>1 DEF IInv, Timeless, HeapOwned
  <2> QED
    BY <1>3, <2>1, <2>2, <2>3, QueueStays DEF vars
<1> QED
  BY <1>1, <1>2, <1>3, TickKeeps, SetWallClockKeeps, RunAddKeeps, RunCancelKeeps, PollReportsKeeps,
     HandleReadKeeps, RunTimerKeeps, ResetKeeps, DestroyKeeps DEF Next, Clock

LEMMA Invariant == Spec => []IInv
  BY InitIInv, NextIInv, PTL DEF Spec

(* The two sets agree, and every timer has one owner, whatever is added,   *)
(* cancelled, restarted and allocated again.                               *)
THEOREM OneOwner == Spec => []TimersConsistent
<1>1. IInv => TimersConsistent
  BY DEF IInv, Timeless, TimersConsistent
<1> QED
  BY <1>1, Invariant, PTL

(* No timer is lost, and none that ran as a one-shot timer or was          *)
(* cancelled comes back.                                                   *)
THEOREM FatesHold == Spec => []FatesKept
<1>1. ASSUME IInv PROVE NoTimerRevived
  <2>1. \A a \in AddrsOf(timers) : fate[heap[a].seq] = "armed"
    BY <1>1 DEF IInv, Timeless, WaitingInv, AddrsOf
  <2>2. pc = "loop" => SeqsOf(expired) = {}
    BY <1>1 DEF IInv, Timeless, BatchInv, SeqsOf, AddrsOf
  <2> QED
    BY <2>1, <2>2 DEF NoTimerRevived, SeqsOf
<1>2. IInv => FatesKept
  BY <1>1 DEF IInv, Timeless, FatesKept
<1> QED
  BY <1>2, Invariant, PTL

\* The timerfd fires when the earliest timer expires, or soon after.
THEOREM AlarmSet == Spec => []AlarmInTime
<1>1. IInv => AlarmInTime
  BY DEF IInv
<1> QED
  BY <1>1, Invariant, PTL
===============================================================================
