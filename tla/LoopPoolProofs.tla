---------------------------- MODULE LoopPoolProofs ----------------------------
(***************************************************************************)
(* The safety of the pool for any number of threads and of calls: its      *)
(* loops are there for whoever is given one, they are handed out evenly,   *)
(* and no thread outlives the pool, but for the loops that somebody else   *)
(* asked to quit.                                                          *)
(***************************************************************************)
EXTENDS LoopPool, SequenceTheorems, TLAPS

Starting == {"latch", "test", "wait"}
Destroying == {"destroy", "quitting", "join"}

\* The places of a thread before its loop_ is set, while it is, and until its loop leaves.
Early == {"none", "born", "counted", "built"}
Set == {"published", "looping", "running", "left"}
Staying == Early \cup (Set \ {"left"})

(* Which of threads_ the base thread is at.  The loops are those of the    *)
(* first threads, in order.                                                *)
CallerInv ==
  /\ caller = "idle" => mine = 0 /\ loops = <<>>
  /\ caller \in Starting => mine \in 1..numThreads /\ Len(loops) = mine - 1
  /\ caller = "started" => Len(loops) = numThreads
  /\ caller \in Destroying => mine \in 1..Len(loops)
  /\ caller = "gone" => Len(loops) < mine
  /\ Len(loops) <= numThreads
  /\ \A i \in 1..Len(loops) : loops[i] = i

\* The threads that start has not come to do not run yet.
UnstartedInv ==
  caller \in Starting \cup {"idle"} => \A k \in Ks : k > mine => pc[k] = "none"

\* The loops that start has seen were published.
SeenInv == \A k \in 1..Len(loops) : pc[k] \notin Early

\* The destructor of thread k has come as far as quit(), or found nothing to quit.
Begun(k) ==
  \/ caller = "gone"
  \/ caller = "join" /\ k <= mine
  \/ caller \in {"destroy", "quitting"} /\ k < mine

\* A loop that nobody has asked to quit does not leave.
StayInv == \A k \in Ks \ asked : Begun(k) \/ (~quit[k] /\ pc[k] \in Staying)

(* The loops before next_ were handed out once more often than the others, *)
(* and none before the pool is started.                                    *)
Extra(k) == IF k <= next THEN 1 ELSE 0
PicksInv ==
  /\ caller \in Starting \cup {"idle"} => next = 0 /\ \A k \in Ks : picks[k] = 0
  /\ \A j, k \in 1..Len(loops) : picks[j] - Extra(j) = picks[k] - Extra(k)

\* The destructor of thread k has returned.
Over(k) == caller = "gone" \/ (caller \in Destroying /\ k < mine)

\* NoThreadLeft, in terms of the threads.
LeftInv ==
  /\ dangling \subseteq asked
  /\ \A k \in (1..Len(loops)) \ asked : Over(k) => pc[k] = "done"

\* The inductive invariant.
IInv ==
  /\ TypeOK
  /\ CallerInv
  /\ UnstartedInv
  /\ SeenInv
  /\ StayInv
  /\ PicksInv
  /\ LeftInv
-------------------------------------------------------------------------------
LEMMA InitIInv == Init => IInv
<1> SUFFICES ASSUME Init PROVE IInv
  OBVIOUS
<1> USE PoolAssumption DEF PoolAssumption, Init
<1>1. TypeOK
  <2>1. 0 \in 0..MaxThreads /\ 0 \in 0..(MaxThreads + 1) /\ loops \in Seq(Ks)
    OBVIOUS
  <2> QED
    BY <2>1 DEF TypeOK, Callers, Places
<1>2. CallerInv /\ UnstartedInv /\ SeenInv /\ StayInv
  BY DEF CallerInv, UnstartedInv, SeenInv, StayInv, Starting, Destroying, Begun, Ks, Early, Staying
<1>3. PicksInv /\ LeftInv
  BY DEF PicksInv, LeftInv, Starting, Destroying, Over, Ks
<1> QED
  BY <1>1, <1>2, <1>3 DEF IInv

\* The loops are those of threads.
LEMMA LoopsStarted ==
  ASSUME IInv
  PROVE  Len(loops) \in Nat /\ Len(loops) <= MaxThreads /\ 1..Len(loops) \subseteq Ks
<1>1. Len(loops) \in Nat
  BY DEF IInv, TypeOK
<1> QED
  BY <1>1, PoolAssumption DEF PoolAssumption, IInv, TypeOK, CallerInv, Ks

\* What is handed out is handed out by one step.
LEMMA PicksUntouched ==
  ASSUME PicksInv, UNCHANGED <<caller, next, picks, loops>>
  PROVE  PicksInv'
BY DEF PicksInv, Extra

(* A step of a thread only takes it to another place.  What the invariant  *)
(* says of the base thread stays, if that thread and the loops do.         *)
LEMMA GoesKeeps ==
  ASSUME IInv, NEW k \in Ks, NEW from \in Places \ {"none", "done"}, NEW to \in Places,
         Goes(k, from, to),
         to \in Early => from \in Early,
         UNCHANGED <<caller, poolVars, asked, dangling>>
  PROVE  CallerInv' /\ UnstartedInv' /\ SeenInv' /\ PicksInv' /\ LeftInv'
<1>1. 1..Len(loops) \subseteq Ks
  BY LoopsStarted
<1>2. /\ pc[k] = from
      /\ \A j \in Ks : pc'[j] = IF j = k THEN to ELSE pc[j]
  BY DEF IInv, TypeOK, Goes
<1>3. CallerInv'
  BY DEF IInv, CallerInv, poolVars
<1>4. UnstartedInv'
  BY <1>2 DEF IInv, UnstartedInv, poolVars
<1>5. SeenInv'
  BY <1>1, <1>2 DEF IInv, SeenInv, poolVars
<1>6. PicksInv'
  BY PicksUntouched DEF IInv, poolVars
<1>7. LeftInv'
  BY <1>1, <1>2 DEF IInv, LeftInv, Over, poolVars
<1> QED
  BY <1>3, <1>4, <1>5, <1>6, <1>7

\* Where a step takes a thread, and what it keeps in its type.
LEMMA GoesTypes ==
  ASSUME IInv, NEW k \in Ks, NEW from \in Places, NEW to \in Places, Goes(k, from, to)
  PROVE  /\ pc' \in [Ks -> Places] /\ pc[k] = from
         /\ \A j \in Ks : pc'[j] = IF j = k THEN to ELSE pc[j]
BY DEF IInv, TypeOK, Goes

(* Most steps of a thread say the same of its loop_ and of its loop as     *)
(* before.                                                                 *)
LEMMA GoesOnlyKeeps ==
  ASSUME IInv, NEW k \in Ks, NEW from \in Places \ {"none", "done"}, NEW to \in Places,
         GoesOnly(k, from, to),
         from \in Set <=> to \in Set,
         to \in Early => from \in Early,
         from \in Staying => to \in Staying
  PROVE  IInv'
<1> USE DEF GoesOnly
<1>1. CallerInv' /\ UnstartedInv' /\ SeenInv' /\ PicksInv' /\ LeftInv'
  BY GoesKeeps
<1>2. /\ pc' \in [Ks -> Places] /\ pc[k] = from
      /\ \A j \in Ks : pc'[j] = IF j = k THEN to ELSE pc[j]
  BY GoesTypes
<1>3. TypeOK'
  BY <1>2 DEF IInv, TypeOK, Set, poolVars
<1>4. StayInv'
  BY <1>2 DEF IInv, StayInv, Begun, poolVars
<1> QED
  BY <1>1, <1>3, <1>4 DEF IInv

LEMMA NextIInv == IInv /\ [Next]_vars => IInv'
<1> SUFFICES ASSUME IInv, [Next]_vars PROVE IInv'
  OBVIOUS
<1>0. Len(loops) \in Nat /\ Len(loops) <= MaxThreads /\ 1..Len(loops) \subseteq Ks
  BY LoopsStarted
<1> USE <1>0, PoolAssumption
        DEF PoolAssumption, IInv, TypeOK, Ks, Callers, Places, poolVars, threadVars
<1>1. ASSUME NEW n \in 0..MaxThreads, SetThreadNum(n) PROVE IInv'
  <2>1. TypeOK'
    BY <1>1 DEF SetThreadNum
  <2>2. CallerInv'
    BY <1>1 DEF CallerInv, Starting, Destroying, SetThreadNum
  <2>3. UnstartedInv' /\ SeenInv'
    BY <1>1 DEF CallerInv, UnstartedInv, SeenInv, Starting, Destroying, SetThreadNum
  <2>4. StayInv'
    BY <1>1 DEF CallerInv, StayInv, Begun, Destroying, SetThreadNum
  <2>5. PicksInv'
    BY <1>1 DEF CallerInv, PicksInv, Extra, Starting, SetThreadNum
  <2>6. LeftInv'
    BY <1>1 DEF CallerInv, LeftInv, Over, Destroying, SetThreadNum
  <2> QED
    BY <2>1, <2>2, <2>3, <2>4, <2>5, <2>6
<1>2. ASSUME Start PROVE IInv'
  <2>1. TypeOK'
    BY <1>2 DEF CallerInv, UnstartedInv, PicksInv, Starting, Destroying, Start, StartThread
  <2>2. CallerInv'
    BY <1>2 DEF CallerInv, Starting, Destroying, Start, StartThread
  <2>3. UnstartedInv' /\ SeenInv'
    BY <1>2 DEF CallerInv, UnstartedInv, SeenInv, Starting, Destroying, Start, StartThread
  <2>4. StayInv'
    BY <1>2 DEF CallerInv, StayInv, Begun, Destroying, Early, Staying, Start, StartThread
  <2>5. PicksInv'
    BY <1>2 DEF CallerInv, PicksInv, Extra, Starting, Start, StartThread
  <2>6. LeftInv'
    BY <1>2 DEF CallerInv, LeftInv, Over, Destroying, Start, StartThread
  <2> QED
    BY <2>1, <2>2, <2>3, <2>4, <2>5, <2>6
<1>3. ASSUME LatchOpens PROVE IInv'
  <2>1. TypeOK'
    BY <1>3 DEF LatchOpens
  <2>2. CallerInv'
    BY <1>3 DEF CallerInv, Starting, Destroying, LatchOpens
  <2>3. UnstartedInv' /\ SeenInv'
    BY <1>3 DEF CallerInv, UnstartedInv, SeenInv, Starting, Destroying, LatchOpens
  <2>4. StayInv'
    BY <1>3 DEF CallerInv, StayInv, Begun, Destroying, LatchOpens
  <2>5. PicksInv'
    BY <1>3 DEF CallerInv, PicksInv, Extra, Starting, LatchOpens
  <2>6. LeftInv'
    BY <1>3 DEF CallerInv, LeftInv, Over, Destroying, LatchOpens
  <2> QED
    BY <2>1, <2>2, <2>3, <2>4, <2>5, <2>6
<1>4. ASSUME TestSet PROVE IInv'
  <2>1. TypeOK'
    <3>1. mine \in Ks /\ next = 0 /\ loops' = Append(loops, mine)
      BY <1>4 DEF CallerInv, PicksInv, Starting, TestSet, Seen
    <3>2. loops' \in Seq(Ks) /\ next < Len(loops')
      BY <3>1
    <3>3. CASE mine < numThreads
      <4>1. mine + 1 \in Ks /\ mine + 1 > mine
        BY <3>1, <3>3
      <4>3. ~loopPtr[mine + 1]
        BY <1>4, <4>1 DEF UnstartedInv, Starting, TestSet
      <4>2. pc' = [pc EXCEPT ![mine + 1] = "born"] /\ mine' = mine + 1 /\ caller' = "latch"
        BY <1>4, <3>3 DEF TestSet, StartThread
      <4>4. /\ pc' \in [Ks -> Places] /\ mine' \in 0..(MaxThreads + 1)
            /\ \A k \in Ks : loopPtr[k] <=> pc'[k] \in {"published", "looping", "running", "left"}
        <5>1. pc' \in [Ks -> Places] /\ mine' \in 0..(MaxThreads + 1)
          BY <4>1, <4>2
        <5>2. \A k \in Ks : pc'[k] = IF k = mine + 1 THEN "born" ELSE pc[k]
          BY <4>1, <4>2
        <5> QED
          BY <4>3, <5>1, <5>2
      <4>5. UNCHANGED <<numThreads, next, given, picks, loopPtr, signaled, quit, asked, early,
                      dangling>>
        BY <1>4 DEF TestSet
      <4> QED
        BY <3>2, <4>2, <4>4, <4>5
    <3>4. CASE ~(mine < numThreads)
      <4>1. /\ caller' = "started"
            /\ UNCHANGED <<numThreads, mine, next, given, picks, threadVars>>
        BY <1>4, <3>4 DEF TestSet
      <4> QED
        BY <3>1, <3>2, <4>1
    <3> QED
      BY <3>3, <3>4
  <2>2. CallerInv'
    <3>1. mine \in 1..numThreads /\ Len(loops) = mine - 1 /\ loops' = Append(loops, mine)
      BY <1>4 DEF CallerInv, Starting, TestSet
    <3>2. /\ Len(loops') = mine
          /\ \A i \in 1..Len(loops') : loops'[i] = i
      BY <3>1 DEF CallerInv
    <3>3. \/ caller' = "latch" /\ mine' = mine + 1 /\ mine < numThreads
          \/ caller' = "started" /\ mine' = mine /\ mine = numThreads
      BY <1>4, <3>1 DEF TestSet, StartThread
    <3>4. numThreads' = numThreads
      BY <1>4 DEF TestSet
    <3>5. numThreads \in Nat /\ mine \in Nat
      BY <3>1
    <3>6. CASE caller' = "latch" /\ mine' = mine + 1 /\ mine < numThreads
      BY ONLY <3>1, <3>2, <3>4, <3>5, <3>6 DEF CallerInv, Starting, Destroying
    <3>7. CASE caller' = "started" /\ mine' = mine /\ mine = numThreads
      BY ONLY <3>1, <3>2, <3>4, <3>5, <3>7 DEF CallerInv, Starting, Destroying
    <3> QED
      BY <3>3, <3>6, <3>7
  <2>3. UnstartedInv' /\ SeenInv'
    <3>0. mine \in Ks /\ Len(loops) = mine - 1 /\ loops' = Append(loops, mine)
      BY <1>4 DEF CallerInv, Starting, TestSet
    <3>1. mine \in Ks /\ Len(loops) = mine - 1 /\ Len(loops') = mine /\ pc[mine] \notin Early
      <4>1. loopPtr[mine] /\ pc[mine] \notin Early
        BY <1>4, <3>0 DEF TestSet, Seen, Early
      <4> QED
        BY <3>0, <4>1
    <3>2. \A k \in Ks : k > mine => pc[k] = "none"
      BY <1>4 DEF UnstartedInv, Starting, TestSet
    <3>3. \A k \in 1..mine : pc'[k] = pc[k]
      <4>1. pc' = pc \/ pc' = [pc EXCEPT ![mine + 1] = "born"]
        BY <1>4 DEF TestSet, StartThread
      <4>2. pc \in [Ks -> Places] /\ \A k \in 1..mine : k \in Ks /\ k # mine + 1
        BY <3>1
      <4> QED
        BY ONLY <4>1, <4>2
    <3>4. \A k \in Ks : k > mine' => pc'[k] = "none" \/ caller' = "started"
      BY <1>4, <3>1, <3>2 DEF TestSet, StartThread
    <3>5. caller' = "latch" \/ caller' = "started"
      BY <1>4 DEF TestSet, StartThread
    <3>6. UnstartedInv'
      BY <3>4, <3>5 DEF UnstartedInv, Starting
    <3>7. \A k \in 1..mine : k \in 1..Len(loops) \/ k = mine
      BY <3>1
    <3>8. SeenInv'
      BY <3>1, <3>3, <3>7 DEF SeenInv
    <3> QED
      BY <3>6, <3>8
  <2>4. StayInv'
    <3>1. \A k \in Ks : pc'[k] = pc[k] \/ pc'[k] = "born"
      BY <1>4 DEF TestSet, StartThread
    <3>2. \A k \in Ks : ~Begun(k)
      BY <1>4 DEF Begun, TestSet
    <3> QED
      BY <1>4, <3>1, <3>2 DEF StayInv, Staying, Early, TestSet
  <2>5. PicksInv'
    BY <1>4 DEF CallerInv, PicksInv, Extra, Starting, TestSet, Seen, StartThread
  <2>6. LeftInv'
    BY <1>4 DEF CallerInv, LeftInv, Over, Destroying, TestSet, Seen, StartThread
  <2> QED
    BY <2>1, <2>2, <2>3, <2>4, <2>5, <2>6
<1>5. ASSUME TestNull PROVE IInv'
  <2>1. TypeOK'
    BY <1>5 DEF TestNull
  <2>2. CallerInv'
    BY <1>5 DEF CallerInv, Starting, Destroying, TestNull
  <2>3. UnstartedInv' /\ SeenInv'
    BY <1>5 DEF CallerInv, UnstartedInv, SeenInv, Starting, Destroying, TestNull
  <2>4. StayInv'
    BY <1>5 DEF CallerInv, StayInv, Begun, Destroying, TestNull
  <2>5. PicksInv'
    BY <1>5 DEF CallerInv, PicksInv, Extra, Starting, TestNull
  <2>6. LeftInv'
    BY <1>5 DEF CallerInv, LeftInv, Over, Destroying, TestNull
  <2> QED
    BY <2>1, <2>2, <2>3, <2>4, <2>5, <2>6
<1>6. ASSUME caller = "wait", caller' = "test", UNCHANGED <<poolVars, threadVars>> PROVE IInv'
  <2>1. TypeOK'
    BY <1>6
  <2>2. CallerInv'
    BY <1>6 DEF CallerInv, Starting, Destroying
  <2>3. UnstartedInv' /\ SeenInv'
    BY <1>6 DEF CallerInv, UnstartedInv, SeenInv, Starting, Destroying, Early
  <2>4. StayInv'
    BY <1>6 DEF CallerInv, StayInv, Begun, Destroying, Early, Staying, Set
  <2>5. PicksInv'
    BY <1>6 DEF CallerInv, PicksInv, Extra, Starting
  <2>6. LeftInv'
    BY <1>6 DEF CallerInv, SeenInv, StayInv, LeftInv, Over, Begun, Destroying, Early, Staying, Set
  <2> QED
    BY <2>1, <2>2, <2>3, <2>4, <2>5, <2>6
<1>7. ASSUME GetNextLoop PROVE IInv'
  <2>1. TypeOK'
    <3>1. /\ given' \in 0..MaxThreads /\ next' \in 0..MaxThreads
          /\ loops # <<>> => next' < Len(loops)
      <4>1. CASE loops = <<>>
        BY <1>7, <4>1 DEF GetNextLoop
      <4>2. CASE loops # <<>>
        <5>0. next \in 0..MaxThreads /\ next < Len(loops)
          BY <4>2
        <5>1. next \in Nat /\ next + 1 \in 1..Len(loops)
          BY ONLY <1>0, <5>0, PoolAssumption DEF PoolAssumption
        <5>2. loops[next + 1] = next + 1
          BY <5>1 DEF CallerInv
        <5>3. given' = next + 1 /\ next' = Wrapped(next + 1)
          BY <1>7, <4>2, <5>2 DEF GetNextLoop
        <5> QED
          BY ONLY <1>0, <5>0, <5>1, <5>3, PoolAssumption DEF PoolAssumption, Wrapped
      <4> QED
        BY <4>1, <4>2
    <3>2. picks' = [picks EXCEPT ![given'] = @ + 1]
      BY <1>7 DEF GetNextLoop, Picked
    <3>3. picks' \in [0..MaxThreads -> Nat]
      <4>1. picks \in [0..MaxThreads -> Nat]
        OBVIOUS
      <4> QED
        BY ONLY <3>1, <3>2, <4>1
    <3> QED
      BY <1>7, <3>1, <3>3 DEF GetNextLoop
  <2>2. CallerInv'
    BY <1>7 DEF CallerInv, Starting, Destroying, GetNextLoop, Picked, Wrapped
  <2>3. UnstartedInv' /\ SeenInv'
    BY <1>7 DEF CallerInv, UnstartedInv, SeenInv, Starting, Destroying, GetNextLoop, Picked, Wrapped
  <2>4. StayInv'
    BY <1>7 DEF CallerInv, StayInv, Begun, Destroying, GetNextLoop, Picked, Wrapped
  <2>5. PicksInv'
    <3>1. CASE loops = <<>>
      BY <1>7, <3>1 DEF PicksInv, Starting, GetNextLoop
    <3>2. CASE loops # <<>>
      <4>1. /\ next \in Nat /\ next + 1 \in 1..Len(loops)
            /\ picks' = [picks EXCEPT ![next + 1] = @ + 1]
        <5>0. next \in 0..MaxThreads /\ next < Len(loops)
          BY <3>2
        <5>2. next \in Nat /\ next + 1 \in 1..Len(loops)
          BY ONLY <1>0, <5>0, PoolAssumption DEF PoolAssumption
        <5>1. loops[next + 1] = next + 1
          BY <5>2 DEF CallerInv
        <5> QED
          BY <1>7, <3>2, <5>1, <5>2 DEF GetNextLoop, Picked
      <4>2. next' = IF next + 1 = Len(loops) THEN 0 ELSE next + 1
        <5>1. next' = Wrapped(next + 1)
          BY <1>7, <3>2 DEF GetNextLoop
        <5> QED
          BY ONLY <1>0, <4>1, <5>1 DEF Wrapped
      <4>3. \A k \in 1..Len(loops) :
              /\ k \in DOMAIN picks /\ picks[k] \in Nat
              /\ picks'[k] = IF k = next + 1 THEN picks[k] + 1 ELSE picks[k]
        <5>1. \A k \in 1..Len(loops) : k \in 0..MaxThreads
          BY DEF CallerInv
        <5> QED
          BY <4>1, <5>1
      <4>4. \A j, k \in 1..Len(loops) : picks[j] - Extra(j) = picks[k] - Extra(k)
        BY DEF PicksInv
      <4>5. \A j, k \in 1..Len(loops) : picks'[j] - Extra(j)' = picks'[k] - Extra(k)'
        <5> SUFFICES ASSUME NEW j \in 1..Len(loops), NEW k \in 1..Len(loops)
                     PROVE picks'[j] - Extra(j)' = picks'[k] - Extra(k)'
          OBVIOUS
        <5>1. /\ picks[j] - Extra(j) = picks[next + 1] - Extra(next + 1)
              /\ picks[k] - Extra(k) = picks[next + 1] - Extra(next + 1)
          BY <4>1, <4>4
        <5>2. picks[j] \in Nat /\ picks[k] \in Nat /\ picks[next + 1] \in Nat
          BY <4>1, <4>3
        <5>3. CASE next + 1 = Len(loops)
          BY ONLY <1>0, <4>1, <4>2, <4>3, <5>1, <5>2, <5>3 DEF Extra
        <5>4. CASE next + 1 # Len(loops)
          BY ONLY <1>0, <4>1, <4>2, <4>3, <5>1, <5>2, <5>4 DEF Extra
        <5> QED
          BY <5>3, <5>4
      <4> QED
        BY <1>7, <4>5 DEF PicksInv, Starting, GetNextLoop
    <3> QED
      BY <3>1, <3>2
  <2>6. LeftInv'
    BY <1>7 DEF CallerInv, LeftInv, Over, Destroying, GetNextLoop, Picked, Wrapped
  <2> QED
    BY <2>1, <2>2, <2>3, <2>4, <2>5, <2>6
<1>8. ASSUME NEW h \in Hashes, GetLoopForHash(h) PROVE IInv'
  <2>1. TypeOK'
    <3>1. given' \in 0..MaxThreads
      <4>1. CASE loops = <<>>
        BY <1>8, <4>1 DEF GetLoopForHash
      <4>2. CASE loops # <<>>
        <5>1. Len(loops) > 0 /\ h \in Nat
          BY <4>2
        <5>2. (h % Len(loops)) + 1 \in 1..Len(loops)
          BY ONLY <1>0, <5>1
        <5>3. given' = loops[(h % Len(loops)) + 1]
          BY <1>8, <4>2 DEF GetLoopForHash
        <5>4. \A i \in 1..Len(loops) : loops[i] = i
          BY DEF CallerInv
        <5> QED
          BY ONLY <1>0, <5>2, <5>3, <5>4, PoolAssumption DEF PoolAssumption
      <4> QED
        BY <4>1, <4>2
    <3> QED
      BY <1>8, <3>1 DEF GetLoopForHash
  <2>2. CallerInv'
    BY <1>8 DEF CallerInv, Starting, Destroying, GetLoopForHash
  <2>3. UnstartedInv' /\ SeenInv'
    BY <1>8 DEF CallerInv, UnstartedInv, SeenInv, Starting, Destroying, GetLoopForHash
  <2>4. StayInv'
    BY <1>8 DEF CallerInv, StayInv, Begun, Destroying, GetLoopForHash
  <2>5. PicksInv'
    BY <1>8 DEF CallerInv, PicksInv, Extra, Starting, GetLoopForHash
  <2>6. LeftInv'
    BY <1>8 DEF CallerInv, LeftInv, Over, Destroying, GetLoopForHash
  <2> QED
    BY <2>1, <2>2, <2>3, <2>4, <2>5, <2>6
<1>9. ASSUME Destroy PROVE IInv'
  <2>1. TypeOK'
    BY <1>9 DEF Destroy
  <2>2. CallerInv'
    BY <1>9 DEF CallerInv, Starting, Destroying, Destroy
  <2>3. UnstartedInv' /\ SeenInv'
    BY <1>9 DEF CallerInv, UnstartedInv, SeenInv, Starting, Destroying, Destroy
  <2>4. StayInv'
    BY <1>9 DEF CallerInv, StayInv, Begun, Destroying, Destroy
  <2>5. PicksInv'
    BY <1>9 DEF CallerInv, PicksInv, Extra, Starting, Destroy
  <2>6. LeftInv'
    BY <1>9 DEF CallerInv, LeftInv, Over, Destroying, Destroy
  <2> QED
    BY <2>1, <2>2, <2>3, <2>4, <2>5, <2>6
<1>10. ASSUME DestroyNull PROVE IInv'
  <2>1. TypeOK'
    <3>1. mine' \in 0..(MaxThreads + 1)
      BY <1>10 DEF CallerInv, Destroying, DestroyNull, DestroyNext
    <3> QED
      BY <1>10, <3>1 DEF DestroyNull, DestroyNext
  <2>2. CallerInv'
    <3>1. /\ mine \in 1..Len(loops) /\ mine' = mine + 1
          /\ caller' = IF mine = Len(loops) THEN "gone" ELSE "destroy"
          /\ UNCHANGED <<numThreads, loops>>
      BY <1>10 DEF CallerInv, Destroying, DestroyNull, DestroyNext
    <3> QED
      BY ONLY <1>0, <3>1, IInv DEF IInv, CallerInv, Starting, Destroying
  <2>3. UnstartedInv' /\ SeenInv'
    BY <1>10 DEF CallerInv, UnstartedInv, SeenInv, Starting, Destroying, DestroyNull, DestroyNext
  <2>4. StayInv'
    BY <1>10 DEF CallerInv, StayInv, Begun, Destroying, DestroyNull, DestroyNext
  <2>5. PicksInv'
    BY <1>10 DEF CallerInv, PicksInv, Extra, Starting, DestroyNull, DestroyNext
  <2>6. LeftInv'
    <3>1. /\ mine \in 1..Len(loops) /\ mine \in Ks /\ ~loopPtr[mine]
          /\ UNCHANGED <<pc, loops, asked, dangling>>
      BY <1>10 DEF CallerInv, Destroying, DestroyNull
    <3>2. mine \in asked
      BY <1>10, <3>1 DEF SeenInv, StayInv, Begun, Early, Staying, Set, DestroyNull
    <3>3. \A k \in 1..Len(loops) : Over(k)' => Over(k) \/ k = mine
      BY <1>10, <3>1 DEF Over, Destroying, DestroyNull, DestroyNext
    <3> QED
      BY <3>1, <3>2, <3>3 DEF LeftInv
  <2> QED
    BY <2>1, <2>2, <2>3, <2>4, <2>5, <2>6
<1>11. ASSUME DestroySet PROVE IInv'
  <2>1. TypeOK'
    BY <1>11 DEF DestroySet
  <2>2. CallerInv'
    BY <1>11 DEF CallerInv, Starting, Destroying, DestroySet
  <2>3. UnstartedInv' /\ SeenInv'
    BY <1>11 DEF CallerInv, UnstartedInv, SeenInv, Starting, Destroying, DestroySet
  <2>4. StayInv'
    BY <1>11 DEF CallerInv, StayInv, Begun, Destroying, DestroySet
  <2>5. PicksInv'
    BY <1>11 DEF CallerInv, PicksInv, Extra, Starting, DestroySet
  <2>6. LeftInv'
    BY <1>11 DEF CallerInv, LeftInv, Over, Destroying, DestroySet
  <2> QED
    BY <2>1, <2>2, <2>3, <2>4, <2>5, <2>6
<1>12. ASSUME Quit PROVE IInv'
  <2>1. TypeOK'
    <3>1. Live(mine) \in BOOLEAN
      BY DEF Live
    <3>2. quit' \in [Ks -> BOOLEAN] /\ mine \in Ks
      BY <1>12, <3>1 DEF CallerInv, Destroying, Quit, QuitRaised
    <3> QED
      BY <1>12, <3>2 DEF Quit
  <2>2. CallerInv'
    BY <1>12 DEF CallerInv, Starting, Destroying, Quit, QuitRaised, Live
  <2>3. UnstartedInv' /\ SeenInv'
    BY <1>12 DEF CallerInv, UnstartedInv, SeenInv, Starting, Destroying, Quit, QuitRaised, Live
  <2>4. StayInv'
    BY <1>12 DEF CallerInv, StayInv, Begun, Destroying, Quit, QuitRaised, Live
  <2>5. PicksInv'
    BY <1>12 DEF CallerInv, PicksInv, Extra, Starting, Quit, QuitRaised, Live
  <2>6. LeftInv'
    <3>1. mine \in 1..Len(loops) /\ mine \in Ks
      BY <1>12 DEF CallerInv, Destroying, Quit
    <3>2. mine \notin asked => Live(mine)
      <4>1. ~Begun(mine)
        BY <1>12, <3>1 DEF Begun, Quit
      <4> QED
        BY ONLY <3>1, <4>1, IInv DEF IInv, SeenInv, StayInv, Early, Staying, Set, Live, Places
    <3>3. dangling' \subseteq asked /\ UNCHANGED <<pc, loops, mine, asked>>
      BY <1>12, <3>2 DEF LeftInv, Quit
    <3>4. \A k \in 1..Len(loops) : Over(k)' => Over(k)
      BY <1>12, <3>3 DEF Over, Destroying, Quit
    <3> QED
      BY <3>3, <3>4 DEF LeftInv
  <2> QED
    BY <2>1, <2>2, <2>3, <2>4, <2>5, <2>6
<1>13. ASSUME Join PROVE IInv'
  <2>1. TypeOK'
    <3>1. mine' \in 0..(MaxThreads + 1)
      BY <1>13 DEF CallerInv, Destroying, Join, DestroyNext
    <3> QED
      BY <1>13, <3>1 DEF Join, DestroyNext
  <2>2. CallerInv'
    <3>1. /\ mine \in 1..Len(loops) /\ mine' = mine + 1
          /\ caller' = IF mine = Len(loops) THEN "gone" ELSE "destroy"
          /\ UNCHANGED <<numThreads, loops>>
      BY <1>13 DEF CallerInv, Destroying, Join, DestroyNext
    <3> QED
      BY ONLY <1>0, <3>1, IInv DEF IInv, CallerInv, Starting, Destroying
  <2>3. UnstartedInv' /\ SeenInv'
    BY <1>13 DEF CallerInv, UnstartedInv, SeenInv, Starting, Destroying, Join, Joined, DestroyNext
  <2>4. StayInv'
    BY <1>13 DEF CallerInv, StayInv, Begun, Destroying, Join, Joined, DestroyNext
  <2>5. PicksInv'
    BY <1>13 DEF CallerInv, PicksInv, Extra, Starting, Join, Joined, DestroyNext
  <2>6. LeftInv'
    <3>1. pc[mine] = "done" /\ mine \in 1..Len(loops) /\ UNCHANGED <<pc, loops, asked, dangling>>
      BY <1>13 DEF CallerInv, Destroying, Join, Joined
    <3>2. \A k \in 1..Len(loops) : Over(k)' => Over(k) \/ k = mine
      BY <1>13, <3>1 DEF Over, Destroying, Join, DestroyNext
    <3> QED
      BY <3>1, <3>2 DEF LeftInv
  <2> QED
    BY <2>1, <2>2, <2>3, <2>4, <2>5, <2>6
<1>14. ASSUME NEW k \in Ks, QuitByOther(k) PROVE IInv'
  <2>1. TypeOK'
    BY <1>14 DEF QuitByOther, Live
  <2>2. CallerInv'
    BY <1>14 DEF CallerInv, Starting, Destroying, QuitByOther, Live
  <2>3. UnstartedInv' /\ SeenInv'
    BY <1>14 DEF CallerInv, UnstartedInv, SeenInv, Starting, Destroying, QuitByOther, Live
  <2>4. StayInv'
    BY <1>14 DEF CallerInv, StayInv, Begun, Destroying, QuitByOther, Live
  <2>5. PicksInv'
    BY <1>14, PicksUntouched DEF QuitByOther
  <2>6. LeftInv'
    BY <1>14 DEF CallerInv, LeftInv, Over, Destroying, QuitByOther, Live
  <2> QED
    BY <2>1, <2>2, <2>3, <2>4, <2>5, <2>6
<1>15. ASSUME NEW k \in Ks, Publish(k) PROVE IInv'
  <2>1. CallerInv' /\ UnstartedInv' /\ SeenInv' /\ PicksInv' /\ LeftInv'
    BY <1>15, GoesKeeps DEF Publish, Early
  <2>2. /\ pc' \in [Ks -> Places] /\ pc[k] = "built"
        /\ \A j \in Ks : pc'[j] = IF j = k THEN "published" ELSE pc[j]
    BY <1>15, GoesTypes DEF Publish
  <2>3. TypeOK'
    BY <1>15, <2>2 DEF Publish
  <2>4. StayInv'
    BY <1>15, <2>2 DEF StayInv, Begun, Staying, Set, Publish
  <2> QED
    BY <2>1, <2>3, <2>4
<1>16. ASSUME NEW k \in Ks, ResetQuit(k) PROVE IInv'
  <2>1. CallerInv' /\ UnstartedInv' /\ SeenInv' /\ PicksInv' /\ LeftInv'
    BY <1>16, GoesKeeps DEF ResetQuit, Early
  <2>2. /\ pc' \in [Ks -> Places] /\ pc[k] = "looping"
        /\ \A j \in Ks : pc'[j] = IF j = k THEN "running" ELSE pc[j]
    BY <1>16, GoesTypes DEF ResetQuit
  <2>3. TypeOK'
    BY <1>16, <2>2 DEF ResetQuit
  <2>4. StayInv'
    <3>1. \A j \in Ks : quit'[j] => quit[j]
      BY <1>16 DEF ResetQuit
    <3>2. UNCHANGED <<caller, mine, asked>>
      BY <1>16 DEF ResetQuit
    <3> QED
      BY ONLY <2>2, <3>1, <3>2, IInv DEF IInv, StayInv, Begun, Staying, Early, Set
  <2> QED
    BY <2>1, <2>3, <2>4
<1>17. ASSUME NEW k \in Ks, Leave(k) PROVE IInv'
  <2>1. CallerInv' /\ UnstartedInv' /\ SeenInv' /\ PicksInv' /\ LeftInv'
    BY <1>17, GoesKeeps DEF Leave, Early
  <2>2. /\ pc' \in [Ks -> Places] /\ pc[k] = "running"
        /\ \A j \in Ks : pc'[j] = IF j = k THEN "left" ELSE pc[j]
    BY <1>17, GoesTypes DEF Leave
  <2>3. TypeOK'
    BY <1>17, <2>2 DEF Leave
  <2>4. StayInv'
    BY <1>17, <2>2 DEF StayInv, Begun, Staying, Set, Leave
  <2> QED
    BY <2>1, <2>3, <2>4
<1>18. ASSUME NEW k \in Ks, Unpublish(k) PROVE IInv'
  <2>1. CallerInv' /\ UnstartedInv' /\ SeenInv' /\ PicksInv' /\ LeftInv'
    BY <1>18, GoesKeeps DEF Unpublish, Early
  <2>2. /\ pc' \in [Ks -> Places] /\ pc[k] = "left"
        /\ \A j \in Ks : pc'[j] = IF j = k THEN "locked" ELSE pc[j]
    BY <1>18, GoesTypes DEF Unpublish
  <2>3. TypeOK'
    BY <1>18, <2>2 DEF Unpublish
  <2>4. StayInv'
    <3>1. UNCHANGED <<caller, mine, quit, asked>>
      BY <1>18 DEF Unpublish
    <3> QED
      BY ONLY <2>2, <3>1, IInv DEF IInv, StayInv, Begun, Staying, Early, Set
  <2> QED
    BY <2>1, <2>3, <2>4
<1>19. ASSUME NEW k \in Ks, CountDown(k) \/ Build(k) \/ Enter(k) \/ Unlock(k) \/ Finish(k)
       PROVE IInv'
  BY <1>19, GoesOnlyKeeps DEF CountDown, Build, Enter, Unlock, Finish, Early, Set, Staying
<1>20. CASE UNCHANGED vars
  <2> USE <1>20 DEF vars
  <2>0. TypeOK'
    OBVIOUS
  <2>1. CallerInv' /\ UnstartedInv' /\ SeenInv'
    BY DEF CallerInv, UnstartedInv, SeenInv
  <2>2. StayInv' /\ LeftInv'
    BY DEF StayInv, LeftInv, Begun, Over
  <2>3. PicksInv'
    BY DEF PicksInv, Extra
  <2> QED
    BY <2>0, <2>1, <2>2, <2>3
<1> QED
  BY <1>1, <1>2, <1>3, <1>4, <1>5, <1>6, <1>7, <1>8, <1>9, <1>10, <1>11, <1>12,
     <1>13, <1>14, <1>15, <1>16, <1>17, <1>18, <1>19, <1>20
     DEF Next, Base, Thread, WaitEnds, WaitSpurious

LEMMA Inductive == Spec => []IInv
  BY InitIInv, NextIInv, PTL DEF Spec

\* The loops in the pool, as a set.
LEMMA MembersOfLoops == IInv => Members(loops) = 1..Len(loops)
<1> SUFFICES ASSUME IInv PROVE Members(loops) = 1..Len(loops)
  OBVIOUS
<1>1. DOMAIN loops = 1..Len(loops)
  BY DEF IInv, TypeOK
<1> QED
  BY <1>1 DEF Members, IInv, CallerInv

LEMMA IInvImplies == IInv => LoopsConsistent /\ NoThreadLeft
<1> SUFFICES ASSUME IInv PROVE LoopsConsistent /\ NoThreadLeft
  OBVIOUS
<1>0. Members(loops) = 1..Len(loops) /\ Len(loops) \in Nat /\ 1..Len(loops) \subseteq Ks
  BY MembersOfLoops, LoopsStarted
<1>1. LoopsAlive
  <2> SUFFICES ASSUME NEW k \in (1..Len(loops)) \ asked,
                      ~(caller \in {"join", "gone"} /\ k <= mine),
                      ~(caller \in {"destroy", "quitting"} /\ k < mine)
               PROVE  Live(k) /\ loopPtr[k]
    BY <1>0 DEF LoopsAlive
  <2>1. ~Begun(k)
    BY <1>0 DEF Begun, IInv, TypeOK, CallerInv
  <2>2. pc[k] \in Staying \ Early
    BY <1>0, <2>1 DEF IInv, StayInv, SeenInv
  <2> QED
    BY <1>0, <2>2 DEF Staying, Early, Set, Live, Places, IInv, TypeOK
<1>2. Balanced
  <2> SUFFICES ASSUME NEW j \in 1..Len(loops), NEW k \in 1..Len(loops)
               PROVE  picks[j] - picks[k] \in {-1, 0, 1}
    BY <1>0 DEF Balanced
  <2>1. picks[j] - Extra(j) = picks[k] - Extra(k)
    BY DEF IInv, PicksInv
  <2>2. picks[j] \in Nat /\ picks[k] \in Nat
    <3>1. j \in 0..MaxThreads /\ k \in 0..MaxThreads
      BY <1>0 DEF Ks
    <3> QED
      BY <3>1 DEF IInv, TypeOK
  <2> QED
    BY ONLY <2>1, <2>2 DEF Extra
<1>3. NoThreadLeft
  BY <1>0 DEF IInv, LeftInv, Over, Destroying, NoThreadLeft
<1> QED
  BY <1>1, <1>2, <1>3 DEF LoopsConsistent, IInv

(* Every loop that start_loop returned is there for whoever is given it,   *)
(* until somebody asks it to quit or the pool comes to destroy it, and     *)
(* get_next_loop hands the loops out evenly.                               *)
THEOREM PoolConsistent == Spec => []LoopsConsistent
  BY Inductive, IInvImplies, PTL

(* ~event_loop_thread_t finds every loop that nobody else asked to quit    *)
(* still there, though it reads loop_ without mutex_, and returns only     *)
(* when the thread that uses its members has ended.                        *)
THEOREM ThreadsJoined == Spec => []NoThreadLeft
  BY Inductive, IInvImplies, PTL
===============================================================================
