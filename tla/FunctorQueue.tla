----------------------------- MODULE FunctorQueue -----------------------------
(***************************************************************************)
(* What event_loop_t promises to the threads that hand it functors, with   *)
(* no loop, no poller, no mutex and no eventfd: functors given to          *)
(* queue_in_loop are executed one at a time, each exactly once, in the     *)
(* order in which they were accepted; functors given to run_in_loop by the *)
(* loop's own thread are executed at once and may overtake queued ones.    *)
(*                                                                         *)
(* EventLoop.tla implements this specification: see Queue there.           *)
(***************************************************************************)
EXTENDS Naturals, Sequences

CONSTANT MaxFunctors   \* how many functors are ever handed over

VARIABLES
  todo,       \* accepted and not executed yet, oldest first
  done,       \* executed, oldest first
  accepted    \* how many functors were handed over: the last one's number

fqVars == <<todo, done, accepted>>

Functors == 1..MaxFunctors

Init ==
  /\ todo = <<>>
  /\ done = <<>>
  /\ accepted = 0

\* A functor is accepted for later.
Accept ==
  /\ accepted < MaxFunctors
  /\ accepted' = accepted + 1
  /\ todo' = Append(todo, accepted + 1)
  /\ UNCHANGED done

\* The oldest accepted functor is executed.
Execute ==
  /\ todo # <<>>
  /\ done' = Append(done, Head(todo))
  /\ todo' = Tail(todo)
  /\ UNCHANGED accepted

\* A functor is executed by its caller instead of being queued.
ExecuteNow ==
  /\ accepted < MaxFunctors
  /\ accepted' = accepted + 1
  /\ done' = Append(done, accepted + 1)
  /\ UNCHANGED todo

\* All that was accepted is given away at once, in order: a drain().
ExecuteAll ==
  /\ done' = done \o todo
  /\ todo' = <<>>
  /\ UNCHANGED accepted

Next == Accept \/ Execute \/ ExecuteNow

Spec == Init /\ [][Next]_fqVars

\* A queue that can also be drained.
DrainedSpec == Init /\ [][Next \/ ExecuteAll]_fqVars
===============================================================================
