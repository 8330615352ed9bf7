--------------------------- MODULE EventLoopProofs ---------------------------
(***************************************************************************)
(* The safety of event_loop_t for any number of threads, channels and      *)
(* functors: the type invariant, the invariants of the wakeup protocol,    *)
(* and the implementation of FunctorQueue.  The invariants of EventLoop    *)
(* are not inductive by themselves: they speak of the moments the owner    *)
(* blocks or returns.  IInv says what holds in the meantime.               *)
(*                                                                         *)
(* Then the safety of channel_t and of the part of event_loop_t that       *)
(* handles active channels, for any channels and any revents_.             *)
(***************************************************************************)
EXTENDS EventLoop, Dispatch, FiniteSetTheorems, SequenceTheorems, TLAPS

\* What the owner is doing, and which of its variables can be non-empty then.
OwnerInv ==
  /\ functors # <<>> => calling
  /\ unhandled # {} => pc = "handling" \/ (pc = "callback" /\ ~calling)
  /\ op[owner] # "none" => pc \in {"idle", "callback"}

\* Every pending functor was accepted.
PendingInv == \A i \in DOMAIN pending : pending[i] <= created

(* The owner is past the swap of this iteration, or outside the loop: what *)
(* is pushed from now on waits for the next poll.                          *)
Committed == pc \notin {"handling", "callback"} \/ (pc = "callback" /\ calling)

(* A wakeup that will be written for sure: QueueWakeup of the owner writes *)
(* one only while it runs pending functors.                                *)
SureWakeup ==
  wakeupFd > 0 \/ \E t \in Threads : op[t] = "queued" /\ (t # owner \/ calling)

WakeupInv ==
  Committed => \/ \A i \in DOMAIN pending : origin[pending[i]] = "outside"
               \/ SureWakeup

ChannelInv ==
  Committed => \A i \in DOMAIN pending : origin[pending[i]] # "channel"

\* The inductive invariant.
IInv ==
  /\ TypeOK
  /\ OwnerInv
  /\ PendingInv
  /\ WakeupInv
  /\ ChannelInv
  /\ NoLostQuit
-------------------------------------------------------------------------------
LEMMA InitIInv == Init => IInv
<1> USE LoopAssumption
<1> SUFFICES ASSUME Init PROVE IInv
  OBVIOUS
<1>1. TypeOK
  <2>1. /\ 0 \in 0..MaxFunctors /\ 0 \in 0..MaxQuits /\ 0 \in 0..MaxLoops
        /\ <<>> \in Seq(Functors)
    BY DEF LoopAssumption
  <2> QED
    BY <2>1 DEF Init, TypeOK, Places, Duties, Origins
<1>2. OwnerInv /\ PendingInv /\ WakeupInv /\ ChannelInv /\ NoLostQuit
  BY DEF Init, OwnerInv, PendingInv, WakeupInv, ChannelInv, NoLostQuit
<1> QED
  BY <1>1, <1>2 DEF IInv

LEMMA NextIInv == IInv /\ [Next]_vars => IInv'
<1> USE LoopAssumption
<1> SUFFICES ASSUME IInv, [Next]_vars PROVE IInv'
  OBVIOUS
<1> USE DEF IInv, TypeOK, Places, Duties, Origins, Functors, queueVars, callVars,
            Pushed, MustWake, Written, NotLooping
<1>1. ASSUME NEW t \in Threads, QueueInLoop(t) PROVE IInv'
  <2>1. /\ DOMAIN pending = 1..Len(pending)
        /\ DOMAIN pending' = 1..(Len(pending) + 1)
        /\ \A i \in DOMAIN pending : pending'[i] = pending[i]
        /\ pending'[Len(pending) + 1] = created + 1
        /\ \A i \in DOMAIN pending' : i \in DOMAIN pending \/ i = Len(pending) + 1
    BY <1>1 DEF QueueInLoop
  <2>2. created + 1 \in Functors /\ OriginOf(t) \in Origins
    BY <1>1, LoopAssumption DEF QueueInLoop, OriginOf
  <2>3. /\ \A i \in DOMAIN pending : origin'[pending'[i]] = origin[pending[i]]
        /\ origin'[pending'[Len(pending) + 1]] = OriginOf(t)
    <3>1. \A i \in DOMAIN pending : pending[i] \in Functors /\ pending[i] # created + 1
      BY <2>1, ElementOfSeq DEF PendingInv
    <3>2. /\ \A f \in Functors : f # created + 1 => origin'[f] = origin[f]
          /\ origin'[created + 1] = OriginOf(t)
      BY <1>1, <2>2 DEF QueueInLoop
    <3> QED
      BY <2>1, <3>1, <3>2
  <2>4. TypeOK'
    BY <1>1, <2>2 DEF QueueInLoop
  <2>5. OwnerInv'
    BY <1>1 DEF QueueInLoop, OwnerInv, CanCall, InLoopThread
  <2>6. PendingInv'
    BY <1>1, <2>1 DEF QueueInLoop, PendingInv
  <2>7. WakeupInv'
    <3>1. CASE t # owner \/ calling
      BY <1>1, <3>1 DEF QueueInLoop, WakeupInv, SureWakeup
    <3>2. CASE t = owner /\ pc = "idle" /\ ~calling
      <4>1. Committed /\ OriginOf(t) = "outside"
        BY <3>2 DEF Committed, OriginOf, InLoopThread
      <4>2. CASE SureWakeup
        BY <1>1, <3>2, <4>2 DEF QueueInLoop, WakeupInv, SureWakeup, CanCall
      <4>3. CASE \A i \in DOMAIN pending : origin[pending[i]] = "outside"
        BY <2>1, <2>3, <4>1, <4>3 DEF WakeupInv
      <4> QED
        BY <4>1, <4>2, <4>3 DEF WakeupInv
    <3>3. CASE t = owner /\ pc = "callback" /\ ~calling
      BY <1>1, <3>3 DEF QueueInLoop, WakeupInv, Committed
    <3> QED
      BY <1>1, <3>1, <3>2, <3>3 DEF QueueInLoop, CanCall, InLoopThread
  <2>8. ChannelInv'
    <3> SUFFICES ASSUME Committed PROVE \A i \in DOMAIN pending' : origin'[pending'[i]] # "channel"
      BY <1>1 DEF QueueInLoop, ChannelInv, Committed
    <3>1. OriginOf(t) # "channel"
      BY <1>1 DEF QueueInLoop, OriginOf, CanCall, InLoopThread, Committed
    <3> QED
      BY <2>1, <2>3, <3>1 DEF ChannelInv
  <2>9. NoLostQuit'
    BY <1>1 DEF QueueInLoop, CanCall, NoLostQuit, WakeupComing
  <2> QED
    BY <2>4, <2>5, <2>6, <2>7, <2>8, <2>9
<1>2. ASSUME NEW t \in Threads, QueueWakeup(t) PROVE IInv'
  <2>1. TypeOK'
    BY <1>2 DEF QueueWakeup
  <2>2. OwnerInv' /\ PendingInv'
    BY <1>2 DEF QueueWakeup, OwnerInv, PendingInv, InLoopThread
  <2>3. WakeupInv' /\ ChannelInv'
    BY <1>2 DEF QueueWakeup, WakeupInv, ChannelInv, Committed, SureWakeup, OwnerInv, InLoopThread
  <2>4. NoLostQuit'
    BY <1>2 DEF QueueWakeup, NoLostQuit, WakeupComing, OwnerInv, InLoopThread
  <2> QED
    BY <2>1, <2>2, <2>3, <2>4
<1>3. CASE RunNow
  <2>1. TypeOK'
    BY <1>3, LoopAssumption DEF RunNow, CanCall
  <2>2. OwnerInv' /\ PendingInv'
    BY <1>3 DEF RunNow, OwnerInv, PendingInv, CanCall, InLoopThread
  <2>3. WakeupInv' /\ ChannelInv'
    BY <1>3 DEF RunNow, WakeupInv, ChannelInv, Committed, SureWakeup, OwnerInv, CanCall, InLoopThread
  <2>4. NoLostQuit'
    BY <1>3 DEF RunNow, NoLostQuit, WakeupComing, OwnerInv, CanCall, InLoopThread
  <2> QED
    BY <2>1, <2>2, <2>3, <2>4
<1>4. ASSUME NEW t \in Threads, Quit(t) PROVE IInv'
  <2>1. TypeOK'
    BY <1>4, LoopAssumption DEF Quit, CanCall
  <2>2. OwnerInv' /\ PendingInv'
    BY <1>4 DEF Quit, OwnerInv, PendingInv, CanCall, InLoopThread
  <2>3. WakeupInv' /\ ChannelInv'
    BY <1>4 DEF Quit, WakeupInv, ChannelInv, Committed, SureWakeup, OwnerInv, CanCall, InLoopThread
  <2>4. NoLostQuit'
    BY <1>4 DEF Quit, NoLostQuit, WakeupComing, OwnerInv, CanCall, InLoopThread
  <2> QED
    BY <2>1, <2>2, <2>3, <2>4
<1>5. ASSUME NEW t \in Threads, QuitWakeup(t) PROVE IInv'
  <2>1. TypeOK'
    BY <1>5 DEF QuitWakeup
  <2>2. OwnerInv' /\ PendingInv'
    BY <1>5 DEF QuitWakeup, OwnerInv, PendingInv
  <2>3. WakeupInv' /\ ChannelInv'
    BY <1>5 DEF QuitWakeup, WakeupInv, ChannelInv, Committed, SureWakeup, OwnerInv
  <2>4. NoLostQuit'
    BY <1>5 DEF QuitWakeup, NoLostQuit, WakeupComing, OwnerInv
  <2> QED
    BY <2>1, <2>2, <2>3, <2>4
<1>6. CASE LoopStart
  <2>1. TypeOK'
    <3>1. starts' \in 0..MaxLoops
      BY <1>6, LoopAssumption DEF LoopStart
    <3>2. looping' = (pc' # "idle")
      BY <1>6 DEF LoopStart
    <3> QED
      BY <1>6, <3>1, <3>2 DEF LoopStart
  <2>2. OwnerInv' /\ PendingInv'
    BY <1>6 DEF LoopStart, OwnerInv, PendingInv
  <2>3. WakeupInv' /\ ChannelInv'
    BY <1>6 DEF LoopStart, WakeupInv, ChannelInv, Committed, SureWakeup, OwnerInv
  <2>4. NoLostQuit'
    BY <1>6 DEF LoopStart, NoLostQuit, WakeupComing, OwnerInv
  <2> QED
    BY <2>1, <2>2, <2>3, <2>4
<1>7. CASE ResetQuit
  <2>1. TypeOK'
    BY <1>7 DEF ResetQuit
  <2>2. OwnerInv' /\ PendingInv'
    BY <1>7 DEF ResetQuit, OwnerInv, PendingInv
  <2>3. WakeupInv' /\ ChannelInv'
    BY <1>7 DEF ResetQuit, WakeupInv, ChannelInv, Committed, SureWakeup, OwnerInv
  <2>4. NoLostQuit'
    BY <1>7 DEF ResetQuit, NoLostQuit, WakeupComing, OwnerInv
  <2> QED
    BY <2>1, <2>2, <2>3, <2>4
<1>8. CASE LoopExit
  <2>1. TypeOK'
    BY <1>8 DEF LoopExit
  <2>2. OwnerInv' /\ PendingInv'
    BY <1>8 DEF LoopExit, OwnerInv, PendingInv
  <2>3. WakeupInv' /\ ChannelInv'
    BY <1>8 DEF LoopExit, WakeupInv, ChannelInv, Committed, SureWakeup, OwnerInv
  <2>4. NoLostQuit'
    BY <1>8 DEF LoopExit, NoLostQuit, WakeupComing, OwnerInv
  <2> QED
    BY <2>1, <2>2, <2>3, <2>4
<1>9. CASE EnterPoll
  <2>1. TypeOK'
    BY <1>9 DEF EnterPoll
  <2>2. OwnerInv' /\ PendingInv'
    BY <1>9 DEF EnterPoll, OwnerInv, PendingInv
  <2>3. WakeupInv' /\ ChannelInv'
    BY <1>9 DEF EnterPoll, WakeupInv, ChannelInv, Committed, SureWakeup, OwnerInv
  <2>4. NoLostQuit'
    BY <1>9 DEF EnterPoll, NoLostQuit, WakeupComing, OwnerInv
  <2> QED
    BY <2>1, <2>2, <2>3, <2>4
<1>10. ASSUME NEW S \in SUBSET (Io \cup {wakeup}), PollReturns(S) PROVE IInv'
  <2>1. TypeOK'
    BY <1>10 DEF PollReturns
  <2>2. OwnerInv' /\ PendingInv'
    BY <1>10 DEF PollReturns, OwnerInv, PendingInv
  <2>3. WakeupInv' /\ ChannelInv'
    BY <1>10 DEF PollReturns, WakeupInv, ChannelInv, Committed, SureWakeup, OwnerInv
  <2>4. NoLostQuit'
    BY <1>10 DEF PollReturns, NoLostQuit, WakeupComing, OwnerInv
  <2> QED
    BY <2>1, <2>2, <2>3, <2>4
<1>11. CASE HandleRead
  <2>1. TypeOK'
    BY <1>11 DEF HandleRead
  <2>2. OwnerInv' /\ PendingInv'
    BY <1>11 DEF HandleRead, OwnerInv, PendingInv
  <2>3. WakeupInv' /\ ChannelInv'
    BY <1>11 DEF HandleRead, WakeupInv, ChannelInv, Committed, SureWakeup, OwnerInv
  <2>4. NoLostQuit'
    BY <1>11 DEF HandleRead, NoLostQuit, WakeupComing, OwnerInv
  <2> QED
    BY <2>1, <2>2, <2>3, <2>4
<1>12. ASSUME NEW c \in Io, HandleIo(c) PROVE IInv'
  <2>1. TypeOK'
    BY <1>12 DEF HandleIo
  <2>2. OwnerInv' /\ PendingInv'
    BY <1>12 DEF HandleIo, OwnerInv, PendingInv
  <2>3. WakeupInv' /\ ChannelInv'
    BY <1>12 DEF HandleIo, WakeupInv, ChannelInv, Committed, SureWakeup, OwnerInv
  <2>4. NoLostQuit'
    BY <1>12 DEF HandleIo, NoLostQuit, WakeupComing, OwnerInv
  <2> QED
    BY <2>1, <2>2, <2>3, <2>4
<1>13. CASE SwapPending
  <2>1. TypeOK'
    BY <1>13 DEF SwapPending
  <2>2. OwnerInv' /\ PendingInv'
    BY <1>13 DEF SwapPending, OwnerInv, PendingInv
  <2>3. WakeupInv' /\ ChannelInv'
    BY <1>13 DEF SwapPending, WakeupInv, ChannelInv, Committed, SureWakeup, OwnerInv
  <2>4. NoLostQuit'
    BY <1>13 DEF SwapPending, NoLostQuit, WakeupComing, OwnerInv
  <2> QED
    BY <2>1, <2>2, <2>3, <2>4
<1>14. CASE RunFunctor
  <2>1. TypeOK'
    BY <1>14 DEF RunFunctor
  <2>2. OwnerInv' /\ PendingInv'
    BY <1>14 DEF RunFunctor, OwnerInv, PendingInv
  <2>3. WakeupInv' /\ ChannelInv'
    BY <1>14 DEF RunFunctor, WakeupInv, ChannelInv, Committed, SureWakeup, OwnerInv
  <2>4. NoLostQuit'
    BY <1>14 DEF RunFunctor, NoLostQuit, WakeupComing, OwnerInv
  <2> QED
    BY <2>1, <2>2, <2>3, <2>4
<1>15. CASE CallbackReturn
  <2>1. TypeOK'
    BY <1>15 DEF CallbackReturn, OwnerInv
  <2>2. OwnerInv' /\ PendingInv'
    BY <1>15 DEF CallbackReturn, OwnerInv, PendingInv
  <2>3. WakeupInv' /\ ChannelInv'
    BY <1>15 DEF CallbackReturn, WakeupInv, ChannelInv, Committed, SureWakeup, OwnerInv
  <2>4. NoLostQuit'
    BY <1>15 DEF CallbackReturn, NoLostQuit, WakeupComing, OwnerInv
  <2> QED
    BY <2>1, <2>2, <2>3, <2>4
<1>16. CASE PendingDone
  <2>1. TypeOK'
    BY <1>16 DEF PendingDone
  <2>2. OwnerInv' /\ PendingInv'
    BY <1>16 DEF PendingDone, OwnerInv, PendingInv
  <2>3. WakeupInv' /\ ChannelInv'
    BY <1>16 DEF PendingDone, WakeupInv, ChannelInv, Committed, SureWakeup, OwnerInv
  <2>4. NoLostQuit'
    BY <1>16 DEF PendingDone, NoLostQuit, WakeupComing, OwnerInv
  <2> QED
    BY <2>1, <2>2, <2>3, <2>4
<1>17. CASE UNCHANGED vars
  BY <1>17 DEF vars, OwnerInv, PendingInv, WakeupInv, ChannelInv, NoLostQuit,
               Committed, SureWakeup, WakeupComing
<1> QED
  BY <1>1, <1>2, <1>3, <1>4, <1>5, <1>6, <1>7, <1>8, <1>9, <1>10, <1>11, <1>12,
     <1>13, <1>14, <1>15, <1>16, <1>17
     DEF Next, Call, Wake, RunInLoop, InLoopThread, OwnerStep, PollWakeup, PollIo,
         PollTimeout


LEMMA Inductive == Spec => []IInv
  BY InitIInv, NextIInv, PTL DEF Spec

LEMMA IInvImplies == IInv => NoLostWakeup /\ ChannelFunctorsRun
<1> SUFFICES ASSUME IInv PROVE NoLostWakeup /\ ChannelFunctorsRun
  OBVIOUS
<1>1. \A i \in DOMAIN pending : pending[i] \in Functors
  BY ElementOfSeq DEF IInv, TypeOK
<1>2. NoLostWakeup
  BY <1>1 DEF IInv, WakeupInv, Committed, SureWakeup, NoLostWakeup, WakeupComing,
              Unhurried, Members
<1>3. ChannelFunctorsRun
  BY DEF IInv, ChannelInv, Committed, ChannelFunctorsRun, Members
<1> QED
  BY <1>2, <1>3

(* Every variable of the loop stays in its type, and looping_ and          *)
(* calling_pending_functors_ say truly where the owner is.                 *)
THEOREM TypeCorrect == Spec => []TypeOK
<1>1. IInv => TypeOK
  BY DEF IInv
<1> QED
  BY Inductive, <1>1, PTL

(* No functor is stranded by queue_in_loop: whenever the owner blocks in   *)
(* poll(), a wakeup is coming for what was queued from another thread or   *)
(* from a callback.                                                        *)
THEOREM WakeupNotLost == Spec => []NoLostWakeup
  BY Inductive, IInvImplies, PTL

(* No quit() is missed by an owner that has tested quit_ and then blocks.  *)
THEOREM QuitNotLost == Spec => []NoLostQuit
<1>1. IInv => NoLostQuit
  BY DEF IInv
<1> QED
  BY Inductive, <1>1, PTL

(* loop() never returns, nor polls, while a functor queued by a channel's  *)
(* callback is pending.                                                    *)
THEOREM ChannelFunctorsServed == Spec => []ChannelFunctorsRun
  BY Inductive, IInvImplies, PTL

-------------------------------------------------------------------------------
(* The refinement.  In terms of the functor queue a push is Accept, a      *)
(* functor run by do_pending_functors is Execute, one run by run_in_loop   *)
(* at once is ExecuteNow, and every other step, the swap in particular, is *)
(* a stutter.                                                              *)

LEMMA InitQueue == Init => Queue!Init
  BY DEF Init, Queue!Init

LEMMA NextQueue == IInv /\ [Next]_vars => [Queue!Next]_(Queue!fqVars)
<1> SUFFICES ASSUME IInv, [Next]_vars PROVE [Queue!Next]_(Queue!fqVars)
  OBVIOUS
<1>0. pending \in Seq(Functors) /\ functors \in Seq(Functors)
  BY DEF IInv, TypeOK
<1>1. ASSUME NEW t \in Threads, QueueInLoop(t) PROVE Queue!Accept
  <2>1. created + 1 \in Functors
    BY <1>1, LoopAssumption DEF QueueInLoop, Functors, IInv, TypeOK
  <2>2. Append(functors \o pending, created + 1) = functors \o Append(pending, created + 1)
    BY <1>0, <2>1
  <2> QED
    BY <1>1, <2>2 DEF QueueInLoop, Pushed, Queue!Accept
<1>2. ASSUME RunNow PROVE Queue!ExecuteNow
  BY <1>2 DEF RunNow, callVars, Queue!ExecuteNow
<1>3. ASSUME RunFunctor PROVE Queue!Execute
  <2>1. functors # <<>> /\ functors \o pending # <<>>
    BY <1>0, <1>3, ConcatEqualIffEmpty DEF RunFunctor
  <2>2. /\ Head(functors \o pending) = Head(functors)
        /\ Tail(functors \o pending) = Tail(functors) \o pending
    BY <1>0, <2>1
  <2> QED
    BY <1>3, <2>1, <2>2 DEF RunFunctor, callVars, Queue!Execute
<1>4. CASE SwapPending
  <2>1. functors = <<>>
    BY <1>4 DEF SwapPending, IInv, TypeOK, OwnerInv
  <2>2. functors' \o pending' = functors \o pending
    BY <1>0, <1>4, <2>1, ConcatEmptySeq DEF SwapPending
  <2> QED
    BY <1>4, <2>2 DEF SwapPending, callVars, Queue!fqVars
<1>5. CASE UNCHANGED <<functors, pending, executed, created>>
  BY <1>5 DEF Queue!fqVars
<1>6. \/ \E t \in Threads : QueueInLoop(t)
      \/ RunNow
      \/ RunFunctor
      \/ SwapPending
      \/ UNCHANGED <<functors, pending, executed, created>>
  BY DEF Next, vars, queueVars, callVars, Call, Wake, RunInLoop, InLoopThread, OwnerStep,
         QueueWakeup, Quit, QuitWakeup, LoopStart, ResetQuit, LoopExit, EnterPoll, PollReturns, PollWakeup,
         PollIo, PollTimeout, HandleRead, HandleIo, CallbackReturn, PendingDone
<1> QED
  BY <1>1, <1>2, <1>3, <1>4, <1>5, <1>6 DEF Queue!Next

(* event_loop_t implements the functor queue: whatever the threads do,     *)
(* each functor is run at most once, in the order of acceptance, and none  *)
(* is dropped or invented.                                                 *)
THEOREM ImplementsQueue == Spec => QueueSpec
  BY Inductive, InitQueue, NextQueue, PTL DEF Spec, QueueSpec, Queue!Spec

-------------------------------------------------------------------------------
(* The channels that the loop handles: channel_t, and user code.           *)

\* A channel is in active_channels_ once.
ActiveOnce == \A j, k \in DOMAIN active : j # k => active[j][1] # active[k][1]

\* Where the owner is says which of the active channels it handles.
PlaceInv ==
  /\ place = "poll" => active = <<>>
  /\ place = "functors" => at = Len(active)
  /\ place \in {"calling", "callback", "release"} => at > 0 /\ current = active[at][1]

\* While a tied channel is handled its object is held.
GuardInv == place \in {"calling", "callback"} /\ current \in tied => guard

\* The inductive invariant.
DispatchInv ==
  /\ DispatchTypeOK /\ AddedIffRegistered /\ wanting \subseteq registered
  /\ ActiveOnce /\ PlaceInv
  /\ NoDangling /\ CurrentAlive /\ GuardInv

LEMMA InitDispatchInv == DispatchInit => DispatchInv
<1> SUFFICES ASSUME DispatchInit PROVE DispatchInv
  OBVIOUS
<1>1. active \in Seq(Channels \X Revents) /\ Len(active) = 0 /\ calls \in Seq(Callbacks)
  BY DEF DispatchInit
<1>2. DispatchTypeOK
  <2>1. /\ guard \in BOOLEAN /\ aborted \in BOOLEAN /\ eventHandling \in BOOLEAN
        /\ ~eventHandling /\ place = "functors"
    BY DEF DispatchInit
  <2>2. /\ alive \subseteq Channels /\ held \subseteq tied
        /\ registered \cup added \cup wanting \cup handling \cup tied \subseteq alive
    BY DEF DispatchInit
  <2>3. at \in 0..Len(active) /\ current \in Channels \cup {NoChannel}
    BY <1>1 DEF DispatchInit
  <2> QED
    BY <1>1, <2>1, <2>2, <2>3 DEF DispatchTypeOK, DispatchPlaces
<1> QED
  BY <1>2 DEF DispatchInit, DispatchInv, AddedIffRegistered, ActiveOnce, PlaceInv, NoDangling, CurrentAlive, GuardInv

LEMMA CallsType == ASSUME NEW r PROVE CallsFor(r) \in Seq(Callbacks)
<1> DEFINE if(callback) == IF Called(r, callback) THEN <<callback>> ELSE <<>>
<1>1. \A callback \in Callbacks : if(callback) \in Seq(Callbacks)
  OBVIOUS
<1> HIDE DEF if
<1>2. /\ if("close") \in Seq(Callbacks) /\ if("error") \in Seq(Callbacks)
      /\ if("read") \in Seq(Callbacks) /\ if("write") \in Seq(Callbacks)
  BY <1>1 DEF Callbacks
<1>3. if("close") \o if("error") \o if("read") \o if("write") \in Seq(Callbacks)
  BY <1>2
<1> QED
  BY <1>3 DEF CallsFor, if

-------------------------------------------------------------------------------
(* User code                                                               *)

\* Steps that neither remove nor destroy a channel, nor tie the current one.
LEMMA CallsKeep ==
  ASSUME DispatchInv, NEW c \in Channels, New(c) \/ Tie(c) \/ Drop(c) \/ Enable(c) \/ Disable(c) \/ Abort(c)
  PROVE  DispatchInv'
<1>1. UNCHANGED loopVars /\ alive \subseteq alive' /\ registered \subseteq registered'
  BY DEF New, Tie, Drop, Enable, Disable, Abort, channelVars
<1>2. DispatchTypeOK' /\ AddedIffRegistered' /\ wanting' \subseteq registered'
  <2>1. aborted' \in BOOLEAN
    BY DEF DispatchInv, DispatchTypeOK, New, Tie, Drop, Enable, Disable, Abort
  <2>2. /\ alive' \subseteq Channels /\ held' \subseteq tied'
        /\ registered' \cup added' \cup wanting' \cup handling' \cup tied' \subseteq alive'
        /\ added' = registered' /\ wanting' \subseteq registered'
    BY <1>1 DEF DispatchInv, DispatchTypeOK, AddedIffRegistered, New, Tie, Drop, Enable, Disable, Abort,
                channelVars, loopVars
  <2> QED
    BY <1>1, <2>1, <2>2 DEF DispatchInv, DispatchTypeOK, AddedIffRegistered, loopVars
<1>3. ActiveOnce' /\ PlaceInv'
  BY <1>1 DEF DispatchInv, ActiveOnce, PlaceInv, loopVars
<1>4. NoDangling' /\ CurrentAlive'
  BY <1>1 DEF DispatchInv, NoDangling, CurrentAlive, loopVars
<1>5. GuardInv'
  BY <1>1 DEF DispatchInv, CurrentAlive, GuardInv, loopVars, New, Tie, Drop, Enable, Disable, Abort,
              channelVars
<1> QED
  BY <1>2, <1>3, <1>4, <1>5 DEF DispatchInv

(* A channel that is removed is not among those still to be handled: it is *)
(* the current one, or no active one, or all were handled.                 *)
LEMMA RemoveKeeps ==
  ASSUME DispatchInv, NEW c \in Channels, Remove(c)
  PROVE  DispatchInv'
<1>1. /\ UNCHANGED loopVars /\ UNCHANGED <<alive, wanting, tied, held, aborted>>
      /\ added' = added \ {c} /\ registered' = registered \ {c} /\ c \notin wanting
  BY DEF Remove, RemoveAsserts, NoLongerAdded
<1>2. DispatchTypeOK' /\ AddedIffRegistered' /\ wanting' \subseteq registered'
  BY <1>1 DEF DispatchInv, DispatchTypeOK, AddedIffRegistered, loopVars
<1>3. ActiveOnce' /\ PlaceInv' /\ CurrentAlive' /\ GuardInv'
  BY <1>1 DEF DispatchInv, ActiveOnce, PlaceInv, CurrentAlive, GuardInv, loopVars
<1>4. NoDangling'
  <2> SUFFICES ASSUME NEW k \in (at + 1)..Len(active), active[k][1] = c PROVE FALSE
    BY <1>1 DEF DispatchInv, NoDangling, Remove, InUserCode, loopVars
  <2>1. active \in Seq(Channels \X Revents) /\ at \in 0..Len(active) /\ k \in DOMAIN active
    BY DEF DispatchInv, DispatchTypeOK
  <2>2. place \in {"callback", "release"} /\ eventHandling
    BY <2>1 DEF DispatchInv, DispatchTypeOK, PlaceInv, Remove, InUserCode
  <2>3. at > 0 /\ current = active[at][1] /\ at \in DOMAIN active /\ at # k
    BY <2>1, <2>2 DEF DispatchInv, PlaceInv
  <2>4. c \in ActiveChannels
    BY <2>1 DEF ActiveChannels
  <2>5. current = c
    BY <2>2, <2>4 DEF Remove, RemoveAsserts
  <2> QED
    BY <2>1, <2>3, <2>5 DEF DispatchInv, ActiveOnce
<1> QED
  BY <1>2, <1>3, <1>4 DEF DispatchInv

LEMMA DestroyKeeps ==
  ASSUME DispatchInv, NEW c \in Channels, Destroy(c)
  PROVE  DispatchInv'
<1>1. /\ UNCHANGED loopVars /\ UNCHANGED <<registered, added, wanting, aborted>>
      /\ alive' = alive \ {c} /\ tied' = tied \ {c} /\ held' = held \ {c}
      /\ c \notin handling /\ c \notin added /\ c \notin registered
  BY DEF Destroy, DestroyAsserts
<1>2. DispatchTypeOK' /\ AddedIffRegistered' /\ wanting' \subseteq registered'
  BY <1>1 DEF DispatchInv, DispatchTypeOK, AddedIffRegistered, loopVars
<1>3. ActiveOnce' /\ PlaceInv'
  BY <1>1 DEF DispatchInv, ActiveOnce, PlaceInv, loopVars
<1>4. NoDangling' /\ CurrentAlive' /\ GuardInv'
  BY <1>1 DEF DispatchInv, NoDangling, CurrentAlive, GuardInv, loopVars
<1> QED
  BY <1>2, <1>3, <1>4 DEF DispatchInv

-------------------------------------------------------------------------------
(* The loop                                                                *)

LEMMA PollKeeps ==
  ASSUME DispatchInv, Poll
  PROVE  DispatchInv'
<1>1. PICK S \in SUBSET registered :
        \E s \in Listings(S) : \E r \in [DOMAIN s -> Revents] :
          active' = [k \in DOMAIN s |-> <<s[k], r[k]>>]
  BY DEF Poll
<1> PICK s \in Listings(S) :
        \E r \in [DOMAIN s -> Revents] : active' = [k \in DOMAIN s |-> <<s[k], r[k]>>]
  BY <1>1
<1> PICK r \in [DOMAIN s -> Revents] : active' = [k \in DOMAIN s |-> <<s[k], r[k]>>]
  OBVIOUS
<1>2. S \subseteq Channels /\ S \subseteq registered /\ S \subseteq alive
  BY DEF DispatchInv, DispatchTypeOK
<1>3. PICK n \in Nat : /\ s \in [1..n -> S]
                       /\ \A j, k \in 1..n : j # k => s[j] # s[k]
  <2>1. Cardinality(S) \in Nat
    BY <1>2, DispatchAssumption, FS_Subset, FS_CardinalityType
  <2> QED
    BY <2>1 DEF Listings
<1>4. /\ active' = [k \in 1..n |-> <<s[k], r[k]>>]
      /\ \A k \in 1..n : s[k] \in S /\ r[k] \in Revents /\ active'[k] = <<s[k], r[k]>>
  BY <1>3
<1>5. active' \in Seq(Channels \X Revents) /\ Len(active') = n /\ DOMAIN active' = 1..n
  BY <1>2, <1>4
<1>6. /\ at' = 0 /\ eventHandling' = TRUE /\ place' = "next"
      /\ UNCHANGED <<alive, registered, added, wanting, tied, held, handling, guard, current,
                     calls, aborted>>
  BY DEF Poll, channelVars
<1>7. DispatchTypeOK' /\ AddedIffRegistered' /\ wanting' \subseteq registered'
  BY <1>3, <1>5, <1>6 DEF DispatchInv, DispatchTypeOK, AddedIffRegistered, DispatchPlaces
<1>8. ActiveOnce' /\ PlaceInv' /\ CurrentAlive' /\ GuardInv'
  BY <1>3, <1>4, <1>5, <1>6 DEF ActiveOnce, PlaceInv, CurrentAlive, GuardInv
<1>9. NoDangling'
  <2>1. ASSUME NEW k \in 1..n PROVE active'[k][1] \in alive \cap registered
    <3>1. active'[k] = <<s[k], r[k]>> /\ s[k] \in S
      BY <1>4
    <3>2. active'[k][1] = s[k]
      BY <3>1
    <3> QED
      BY <1>2, <3>1, <3>2
  <2> QED
    BY <1>3, <1>5, <1>6, <2>1 DEF NoDangling
<1> QED
  BY <1>7, <1>8, <1>9 DEF DispatchInv

LEMMA HandleEventKeeps ==
  ASSUME DispatchInv, HandleEvent
  PROVE  DispatchInv'
<1> DEFINE c == active[at + 1][1]
<1>1. /\ at + 1 \in 1..Len(active) /\ at \in Nat /\ active \in Seq(Channels \X Revents)
      /\ c \in Channels
  BY DEF DispatchInv, DispatchTypeOK, HandleEvent
<1>2. c \in alive /\ c \in registered
  BY <1>1 DEF DispatchInv, NoDangling, HandleEvent
<1>3. /\ place = "next" /\ place' = "calling" /\ at' = at + 1
      /\ current' = c /\ guard' = (c \in tied) /\ handling' = handling \cup {c}
      /\ calls' \in Seq(Callbacks)
      /\ UNCHANGED <<alive, registered, added, wanting, tied, held, eventHandling, active, aborted>>
  BY CallsType DEF HandleEvent, Guards, channelVars
<1> HIDE DEF c
<1>4. DispatchTypeOK' /\ AddedIffRegistered' /\ wanting' \subseteq registered'
  BY <1>1, <1>2, <1>3 DEF DispatchInv, DispatchTypeOK, AddedIffRegistered, DispatchPlaces
<1>5. ActiveOnce' /\ CurrentAlive' /\ GuardInv'
  BY <1>2, <1>3 DEF DispatchInv, ActiveOnce, CurrentAlive, GuardInv
<1>6. PlaceInv'
  BY <1>1, <1>3 DEF PlaceInv, c
<1>7. NoDangling'
  BY <1>1, <1>3 DEF DispatchInv, NoDangling
<1> QED
  BY <1>4, <1>5, <1>6, <1>7 DEF DispatchInv

LEMMA SkipEventKeeps ==
  ASSUME DispatchInv, SkipEvent
  PROVE  DispatchInv'
<1>1. /\ at + 1 \in 1..Len(active) /\ at \in Nat /\ active \in Seq(Channels \X Revents)
      /\ active[at + 1][1] \in Channels
  BY DEF DispatchInv, DispatchTypeOK, SkipEvent
<1>2. /\ place = "next" /\ at' = at + 1 /\ current' = active[at + 1][1]
      /\ UNCHANGED <<alive, registered, added, wanting, tied, held, handling, guard, eventHandling,
                     active, calls, place, aborted>>
  BY DEF SkipEvent, channelVars
<1>3. DispatchTypeOK' /\ AddedIffRegistered' /\ wanting' \subseteq registered'
  BY <1>1, <1>2 DEF DispatchInv, DispatchTypeOK, AddedIffRegistered
<1>4. ActiveOnce' /\ PlaceInv' /\ CurrentAlive' /\ GuardInv'
  BY <1>2 DEF DispatchInv, ActiveOnce, PlaceInv, CurrentAlive, GuardInv
<1>5. NoDangling'
  BY <1>1, <1>2 DEF DispatchInv, NoDangling
<1> QED
  BY <1>3, <1>4, <1>5 DEF DispatchInv

\* Steps between callbacks, and between channels.
LEMMA BetweenKeeps ==
  ASSUME DispatchInv, Callback \/ CallbackReturns \/ EventHandled \/ Released
  PROVE  DispatchInv'
<1>1. /\ UNCHANGED <<alive, registered, added, wanting, tied, held, eventHandling, active, current,
                     at, aborted>>
      /\ place \in {"calling", "callback", "release"}
      /\ place' \in {"next", "calling", "callback", "release"}
      /\ place' = "release" => place = "calling"
      /\ handling' \subseteq handling /\ calls' \in Seq(Callbacks) /\ guard' \in BOOLEAN
      /\ place' \in {"calling", "callback"} =>
           place \in {"calling", "callback"} /\ UNCHANGED <<handling, guard>>
  <2>1. calls \in Seq(Callbacks) /\ guard \in BOOLEAN
    BY DEF DispatchInv, DispatchTypeOK
  <2>2. CASE Callback
    BY <2>1, <2>2 DEF Callback, channelVars
  <2>3. CASE CallbackReturns
    BY <2>1, <2>3 DEF CallbackReturns, channelVars
  <2>4. CASE EventHandled
    BY <2>1, <2>4 DEF EventHandled, channelVars
  <2>5. CASE Released
    BY <2>1, <2>5 DEF Released, channelVars
  <2> QED
    BY <2>2, <2>3, <2>4, <2>5
<1>2. DispatchTypeOK' /\ AddedIffRegistered' /\ wanting' \subseteq registered'
  BY <1>1 DEF DispatchInv, DispatchTypeOK, AddedIffRegistered, DispatchPlaces
<1>3. ActiveOnce' /\ PlaceInv' /\ CurrentAlive' /\ GuardInv'
  BY <1>1 DEF DispatchInv, ActiveOnce, PlaceInv, CurrentAlive, GuardInv
<1>4. NoDangling'
  BY <1>1 DEF DispatchInv, NoDangling
<1> QED
  BY <1>2, <1>3, <1>4 DEF DispatchInv

LEMMA IterationKeeps ==
  ASSUME DispatchInv, AllHandled \/ NextIteration
  PROVE  DispatchInv'
<1>1. CASE AllHandled
  <2>1. DispatchTypeOK'
    BY <1>1 DEF DispatchInv, DispatchTypeOK, AllHandled, channelVars, DispatchPlaces
  <2> QED
    BY <1>1, <2>1 DEF DispatchInv, DispatchTypeOK, AllHandled, channelVars, AddedIffRegistered, ActiveOnce, PlaceInv,
                      NoDangling, CurrentAlive, GuardInv
<1>2. CASE NextIteration
  <2>1. active' = <<>> /\ at' = 0 /\ place' = "poll" /\ place = "functors"
    BY <1>2 DEF NextIteration
  <2>2. DispatchTypeOK'
    BY <1>2, <2>1 DEF DispatchInv, DispatchTypeOK, NextIteration, channelVars, DispatchPlaces
  <2> QED
    BY <1>2, <2>1, <2>2 DEF DispatchInv, NextIteration, channelVars, AddedIffRegistered, ActiveOnce,
                            PlaceInv, NoDangling, CurrentAlive, GuardInv
<1> QED
  BY <1>1, <1>2

LEMMA NextDispatchInv == DispatchInv /\ [DispatchNext]_dispatchVars => DispatchInv'
<1> SUFFICES ASSUME DispatchInv, [DispatchNext]_dispatchVars PROVE DispatchInv'
  OBVIOUS
<1>1. ASSUME NEW c \in Channels, UserCode(c) PROVE DispatchInv'
  BY <1>1, CallsKeep, RemoveKeeps, DestroyKeeps DEF UserCode
<1>2. CASE UNCHANGED dispatchVars
  BY <1>2 DEF dispatchVars, channelVars, loopVars, DispatchInv, DispatchTypeOK, AddedIffRegistered, ActiveOnce, PlaceInv,
              NoDangling, CurrentAlive, GuardInv
<1> QED
  BY <1>1, <1>2, PollKeeps, HandleEventKeeps, SkipEventKeeps, BetweenKeeps, IterationKeeps DEF DispatchNext

LEMMA Invariant == DispatchSpec => []DispatchInv
  BY InitDispatchInv, NextDispatchInv, PTL DEF DispatchSpec

(* The loop touches no channel that is gone, whatever callbacks remove and *)
(* destroy.                                                                *)
THEOREM NothingDangles == DispatchSpec => []DispatchSafe
<1>1. DispatchInv => DispatchSafe
  BY DEF DispatchInv, DispatchSafe
<1> QED
  BY <1>1, Invariant, PTL

\* add_to_loop_ is raised exactly while the poller knows the channel.
THEOREM RegistrationAgrees == DispatchSpec => []RegistrationConsistent
<1>1. DispatchInv => RegistrationConsistent
  BY DEF DispatchInv, RegistrationConsistent
<1> QED
  BY <1>1, Invariant, PTL

\* The callbacks of a tied channel run only while its object lives.
THEOREM TiedLives == DispatchSpec => []TieHolds
<1>1. DispatchInv => TieHolds
  BY DEF DispatchInv, GuardInv, TieHolds
<1> QED
  BY <1>1, Invariant, PTL
===============================================================================
