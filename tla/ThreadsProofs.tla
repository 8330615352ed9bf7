----------------------------- MODULE ThreadsProofs -----------------------------
(***************************************************************************)
(* The safety of thread, count_down_latch, singleton_t and the objects of  *)
(* each thread, for any threads, any number of passes over the keys and of *)
(* constructors that throw.                                                *)
(***************************************************************************)
EXTENDS Threads, FiniteSetTheorems, TLAPS

\* Of those that ask for the singleton, one at most constructs it.
InitsOnce ==
  /\ once = "running" <=> initing # {}
  /\ \A s, t \in initing : s = t

\* What holds of the objects of Instances.tla, whoever asks for them.
InstancesInv == InstanceTypes /\ InitsOnce /\ OneSingleton /\ LocalsAgree

\* The threads that have not counted down for all.
Uncounted == {t \in Threads : at[t] \in {"none", "born", "counted"}}

\* The latches count the threads that have not counted down.
CountsInv ==
  /\ \A t \in Threads : count[t] = IF at[t] \in {"none", "born"} THEN 1 ELSE 0
  /\ count[All] = Cardinality(Uncounted)

\* Where Main is says where the threads are that it started or joined.
MainInv ==
  /\ \A t \in Threads : at[t] = "none" <=> t \notin started
  /\ \A t \in Threads : at[t] = "born" => main = <<"wait", t>>
  /\ \A t \in joined : at[t] # "ended" => main = <<"join", t>> /\ t \in alive
  /\ \A t \in joined \cap joinable : main = <<"join", t>>
  /\ \A l \in asleep : count[l] > 0 /\ main = <<"wait", l>>
  /\ process # "terminated"

(* No joined thread finds its object gone; only a function asks for the    *)
(* singleton, which goes when Main does, and then Main joins nobody. The   *)
(* key of the instances goes then, too.                                    *)
ObjectsInv ==
  /\ stale \cap (alive \cup joined) = {}
  /\ \A t \in asking : at[t] = "func"
  /\ value = "deleted" => process # "running" /\ main = Idle
  /\ process = "exiting" => main = Idle
  /\ Single \notin keys => process # "running"
  /\ \A t \in Threads : at[t] = "ended" /\ Going => NothingLeft(t)

\* The inductive invariant.
IInv == TypeOK /\ InstancesInv /\ CountsInv /\ MainInv /\ ObjectsInv

-------------------------------------------------------------------------------
(* The objects that threads ask for                                        *)

LEMMA InstancesAtFirst == InstanceInit => InstancesInv
  BY InstanceAssumption
     DEF InstanceInit, InstancesInv, InstanceTypes, InitsOnce, OneSingleton, LocalsAgree,
         Keys, Pointers, Local, Single

\* The singleton is constructed once.
LEMMA SingletonKept ==
  ASSUME InstancesInv, NEW t \in Threads,
         Ask(t) \/ InitBegins(t) \/ InitReturns(t) \/ InitThrows(t) \/ Answer(t)
  PROVE  InstancesInv'
<1>1. LocalsAgree' /\ UNCHANGED localVars
  BY DEF InstancesInv, LocalsAgree, localVars, Ask, InitBegins, InitReturns, InitThrows, Answer
<1>2. /\ specific' \in [Threads -> SUBSET keys'] /\ tValue' \in [Threads -> Pointers]
      /\ pass' \in [Threads -> 0..MaxPasses] /\ left' \in [Threads -> SUBSET keys']
      /\ keys' \subseteq Keys
  BY <1>1 DEF InstancesInv, InstanceTypes, localVars
<1>3. CASE Ask(t)
  BY <1>1, <1>2, <1>3 DEF Ask, InstancesInv, InstanceTypes, InitsOnce, OneSingleton
<1>4. CASE InitBegins(t)
  BY <1>1, <1>2, <1>4 DEF InitBegins, MayInit, InstancesInv, InstanceTypes, InitsOnce, OneSingleton
<1>5. CASE InitReturns(t)
  <2>1. built = 0 /\ initing = {t}
    BY <1>5 DEF InitReturns, InstancesInv, InstanceTypes, InitsOnce, OneSingleton
  <2> QED
    BY <1>1, <1>2, <1>5, <2>1
       DEF InitReturns, InstancesInv, InstanceTypes, InitsOnce, OneSingleton, Pointers
<1>6. CASE InitThrows(t)
  <2>1. initing = {t} /\ throws + 1 \in 0..MaxThrows
    BY <1>6, InstanceAssumption DEF InitThrows, InstancesInv, InstanceTypes, InitsOnce
  <2> QED
    BY <1>1, <1>2, <1>6, <2>1
       DEF InitThrows, InstancesInv, InstanceTypes, InitsOnce, OneSingleton
<1>7. CASE Answer(t)
  BY <1>1, <1>2, <1>7 DEF Answer, InstancesInv, InstanceTypes, InitsOnce, OneSingleton
<1> QED
  BY <1>3, <1>4, <1>5, <1>6, <1>7

LEMMA DestroyedOnce ==
  ASSUME InstancesInv, DestroySingleton
  PROVE  InstancesInv'
<1>1. LocalsAgree' /\ UNCHANGED <<once, asking, initing, built, throws, localVars>>
  BY DEF InstancesInv, LocalsAgree, localVars, DestroySingleton
<1> QED
  BY <1>1 DEF DestroySingleton, InstancesInv, InstanceTypes, InitsOnce, OneSingleton, Pointers,
              localVars

\* A thread's own objects agree with its key.
LEMMA LocalsKept ==
  ASSUME InstancesInv, NEW t \in Threads,
         \/ Value(t) \/ LocalInstance(t) \/ PassBegins(t)
         \/ \E key \in Keys, asks \in BOOLEAN : RunDestructor(t, key, asks)
  PROVE  InstancesInv'
<1>1. UNCHANGED onceVars
  BY DEF Value, LocalInstance, PassBegins, RunDestructor
<1>2. /\ once' \in {"not", "running", "done"} /\ value' \in Pointers
      /\ initing' \subseteq asking' /\ asking' \subseteq Threads
      /\ built' \in 0..1 /\ throws' \in 0..MaxThrows
      /\ InitsOnce' /\ OneSingleton'
  BY <1>1 DEF onceVars, InstancesInv, InstanceTypes, InitsOnce, OneSingleton
<1>3. /\ specific \in [Threads -> SUBSET keys] /\ tValue \in [Threads -> Pointers]
      /\ pass \in [Threads -> 0..MaxPasses] /\ left \in [Threads -> SUBSET keys]
      /\ keys \subseteq Keys /\ LocalsAgree
  BY DEF InstancesInv, InstanceTypes
<1>4. /\ specific' \in [Threads -> SUBSET keys] /\ tValue' \in [Threads -> Pointers]
      /\ pass' \in [Threads -> 0..MaxPasses] /\ left' \in [Threads -> SUBSET keys]
      /\ keys' = keys /\ LocalsAgree'
  <2>1. CASE Value(t)
    BY <1>3, <2>1 DEF Value, LocalsAgree, Keys, Local, Single
  <2>2. CASE LocalInstance(t)
    BY <1>3, <2>2 DEF LocalInstance, WithInstance, LocalsAgree, Keys, Pointers, Local, Single
  <2>3. CASE PassBegins(t)
    <3>1. pass[t] + 1 \in 0..MaxPasses /\ specific[t] \subseteq keys
      BY <1>3, <2>3, InstanceAssumption DEF PassBegins
    <3> QED
      BY <1>3, <2>3, <3>1 DEF PassBegins, LocalsAgree
  <2>4. ASSUME NEW key \in Keys, NEW asks \in BOOLEAN, RunDestructor(t, key, asks)
        PROVE  /\ specific' \in [Threads -> SUBSET keys] /\ tValue' \in [Threads -> Pointers]
               /\ pass' \in [Threads -> 0..MaxPasses] /\ left' \in [Threads -> SUBSET keys]
               /\ keys' = keys /\ LocalsAgree'
    <3>1. pass' = pass /\ keys' = keys /\ left' \in [Threads -> SUBSET keys]
      BY <1>3, <2>4 DEF RunDestructor
    <3>2. CASE key = Single
      BY <1>3, <2>4, <3>1, <3>2 DEF RunDestructor, Cleared, LocalsAgree, Keys, Pointers, Local, Single
    <3>3. CASE key = Local
      BY <1>3, <2>4, <3>1, <3>3
         DEF RunDestructor, WithInstance, LocalsAgree, Keys, Pointers, Local, Single
    <3> QED
      BY <3>1, <3>2, <3>3 DEF Keys
  <2> QED
    BY <2>1, <2>2, <2>3, <2>4
<1> QED
  BY <1>2, <1>3, <1>4 DEF InstancesInv, InstanceTypes

\* A key that is deleted has no values, and t_value_ stays what it is.
LEMMA KeyDeleted ==
  ASSUME InstancesInv, NEW key \in Keys, DeleteKey(key)
  PROVE  /\ InstancesInv' /\ UNCHANGED <<onceVars, tValue, pass>> /\ keys' = keys \ {key}
         /\ \A t \in Threads : NothingLeft(t) => NothingLeft(t)'
<1>1. UNCHANGED <<onceVars, tValue, pass>> /\ keys' = keys \ {key}
  BY DEF DeleteKey
<1>2. /\ \A t \in Threads : specific'[t] = specific[t] \ {key} /\ left'[t] = left[t] \ {key}
      /\ specific \in [Threads -> SUBSET keys] /\ left \in [Threads -> SUBSET keys]
      /\ keys \subseteq Keys
  BY DEF DeleteKey, InstancesInv, InstanceTypes
<1>3. specific' \in [Threads -> SUBSET keys'] /\ left' \in [Threads -> SUBSET keys']
  BY <1>1, <1>2 DEF DeleteKey
<1>4. LocalsAgree'
  BY <1>1, <1>2 DEF InstancesInv, LocalsAgree
<1>5. InstancesInv'
  BY <1>1, <1>2, <1>3, <1>4 DEF InstancesInv, InstanceTypes, InitsOnce, OneSingleton, onceVars
<1>6. \A t \in Threads : NothingLeft(t) => NothingLeft(t)'
  BY <1>1, <1>2 DEF NothingLeft
<1> QED
  BY <1>1, <1>5, <1>6

\* A step that leaves the objects of Instances.tla alone.
LEMMA InstancesStill ==
  ASSUME IInv, UNCHANGED instanceVars
  PROVE  /\ InstancesInv' /\ InstanceTypes' /\ UNCHANGED <<value, asking, keys>>
         /\ \A t \in Threads : NothingLeft(t)' = NothingLeft(t)
<1>1. InstancesInv' /\ InstanceTypes'
  BY DEF IInv, InstancesInv, InstanceTypes, InitsOnce, OneSingleton, LocalsAgree, instanceVars,
         onceVars, localVars
<1>2. value' = value /\ asking' = asking /\ UNCHANGED <<specific, keys, pass>>
  BY DEF instanceVars, onceVars, localVars
<1> QED
  BY <1>1, <1>2 DEF NothingLeft

-------------------------------------------------------------------------------
(* Main                                                                    *)

LEMMA InitIInv == Init => IInv
<1> SUFFICES ASSUME Init PROVE IInv
  OBVIOUS
<1>1. InstancesInv
  BY InstancesAtFirst DEF Init
<1>2. Cardinality(Threads) \in Nat /\ (Threads # {} => Cardinality(Threads) >= 1)
  BY ThreadAssumption, FS_CardinalityType, FS_EmptySet
<1>3. count \in [Latches -> 0..Cardinality(Threads)]
  <2>1. \A l \in Latches : (IF l = All THEN Cardinality(Threads) ELSE 1) \in 0..Cardinality(Threads)
    BY <1>2 DEF Latches
  <2> QED
    BY <2>1 DEF Init
<1>4. TypeOK
  BY <1>1, <1>3 DEF Init, TypeOK, InstancesInv, Idle, Latches
<1>5. CountsInv
  <2>1. Uncounted = Threads
    BY DEF Init, Uncounted
  <2> QED
    BY <2>1, ThreadAssumption DEF Init, CountsInv, Latches
<1>6. MainInv
  BY DEF Init, MainInv
<1>7. ObjectsInv
  BY DEF Init, InstanceInit, ObjectsInv, Keys
<1> QED
  BY <1>1, <1>4, <1>5, <1>6, <1>7 DEF IInv

\* A step of Main after which all latches and threads are as they were.
LEMMA CountsStill ==
  ASSUME IInv, UNCHANGED <<at, count>>
  PROVE  CountsInv'
BY DEF IInv, CountsInv, Uncounted

LEMMA StartKeeps ==
  ASSUME IInv, process = "running", NEW t \in Threads, Start(t)
  PROVE  IInv'
<1>1. /\ InstancesInv' /\ InstanceTypes' /\ UNCHANGED <<value, asking, keys>>
      /\ \A u \in Threads : NothingLeft(u)' = NothingLeft(u)
  BY InstancesStill DEF Start
<1>2. t \notin started /\ at[t] = "none" /\ asleep = {} /\ main = Idle
  BY DEF Start, IInv, MainInv, Idle
<1>3. /\ at \in [Threads -> {"none", "born", "counted", "func", "dying", "ended"}]
      /\ at' = [at EXCEPT ![t] = "born"]
  BY DEF IInv, TypeOK, Start
<1>4. TypeOK'
  BY <1>1, <1>3 DEF IInv, TypeOK, Start, Latches
<1>5. CountsInv'
  <2>1. Uncounted' = Uncounted
    BY <1>2, <1>3 DEF Uncounted
  <2> QED
    BY <1>2, <1>3, <2>1 DEF IInv, CountsInv, Start
<1>6. MainInv'
  BY <1>2, <1>3 DEF IInv, TypeOK, MainInv, Start, Idle
<1>7. ObjectsInv'
  BY <1>1, <1>2, <1>3 DEF IInv, ObjectsInv, Start, Idle, Going
<1> QED
  BY <1>1, <1>4, <1>5, <1>6, <1>7 DEF IInv

LEMMA WaitForAllKeeps ==
  ASSUME IInv, process = "running", WaitForAll
  PROVE  IInv'
<1>1. /\ InstancesInv' /\ InstanceTypes' /\ UNCHANGED <<value, asking, keys>>
      /\ \A u \in Threads : NothingLeft(u)' = NothingLeft(u)
  BY InstancesStill DEF WaitForAll
<1>2. CountsInv'
  BY CountsStill DEF WaitForAll
<1>3. TypeOK'
  BY <1>1 DEF IInv, TypeOK, WaitForAll, Latches, Idle
<1>4. MainInv'
  BY DEF IInv, TypeOK, MainInv, WaitForAll, Idle
<1>5. ObjectsInv'
  BY <1>1 DEF IInv, TypeOK, MainInv, ObjectsInv, WaitForAll, Idle, Going
<1> QED
  BY <1>1, <1>2, <1>3, <1>4, <1>5 DEF IInv

LEMMA WaitKeeps ==
  ASSUME IInv, process = "running", NEW l \in Latches, Wait(l)
  PROVE  IInv'
<1>1. /\ InstancesInv' /\ InstanceTypes' /\ UNCHANGED <<value, asking, keys>>
      /\ \A u \in Threads : NothingLeft(u)' = NothingLeft(u)
  BY InstancesStill DEF Wait
<1>2. CountsInv'
  BY CountsStill DEF Wait
<1>3. TypeOK'
  BY <1>1 DEF IInv, TypeOK, Wait, Latches, Idle
<1>4. MainInv'
  <2>1. asleep = {}
    BY DEF IInv, MainInv, Wait
  <2>2. CASE count[l] > 0
    <3>1. main' = main /\ asleep' = {l} /\ UNCHANGED <<process, started, joined, joinable, alive, at, count>>
      BY <2>2 DEF Wait
    <3> QED
      BY <2>2, <3>1 DEF IInv, MainInv, Wait
  <2>3. CASE ~(count[l] > 0)
    <3>1. main' = Idle /\ asleep' = {} /\ UNCHANGED <<process, started, joined, joinable, alive, at, count>>
      BY <2>1, <2>3 DEF Wait
    <3>2. \A u \in Threads : at[u] # "born"
      <4> SUFFICES ASSUME NEW u \in Threads, at[u] = "born" PROVE FALSE
        OBVIOUS
      <4>1. u = l
        BY DEF IInv, MainInv, Wait
      <4>2. count[u] = 1
        BY DEF IInv, CountsInv
      <4> QED
        BY <2>3, <4>1, <4>2
    <3>3. joined \subseteq Threads /\ \A u \in joined : at[u] = "ended"
      BY DEF IInv, TypeOK, MainInv, Wait
    <3>4. joined \cap joinable = {}
      BY DEF IInv, MainInv, Wait
    <3> QED
      BY <3>1, <3>2, <3>3, <3>4 DEF IInv, MainInv
  <2> QED
    BY <2>2, <2>3
<1>5. ObjectsInv'
  BY <1>1 DEF IInv, TypeOK, MainInv, ObjectsInv, Wait, Idle, Going
<1> QED
  BY <1>1, <1>2, <1>3, <1>4, <1>5 DEF IInv

LEMMA SpuriousKeeps ==
  ASSUME IInv, process = "running", Spurious
  PROVE  IInv'
<1>1. /\ InstancesInv' /\ InstanceTypes' /\ UNCHANGED <<value, asking, keys>>
      /\ \A u \in Threads : NothingLeft(u)' = NothingLeft(u)
  BY InstancesStill DEF Spurious
<1>2. CountsInv'
  BY CountsStill DEF Spurious
<1>3. TypeOK'
  BY <1>1 DEF IInv, TypeOK, Spurious, Latches, Idle
<1>4. MainInv'
  BY DEF IInv, TypeOK, MainInv, Spurious, Idle
<1>5. ObjectsInv'
  BY <1>1 DEF IInv, TypeOK, MainInv, ObjectsInv, Spurious, Idle, Going
<1> QED
  BY <1>1, <1>2, <1>3, <1>4, <1>5 DEF IInv

LEMMA JoinKeeps ==
  ASSUME IInv, process = "running", NEW t \in Threads, Join(t)
  PROVE  IInv'
<1>1. /\ InstancesInv' /\ InstanceTypes' /\ UNCHANGED <<value, asking, keys>>
      /\ \A u \in Threads : NothingLeft(u)' = NothingLeft(u)
  BY InstancesStill DEF Join
<1>2. CountsInv'
  BY CountsStill DEF Join
<1>3. TypeOK'
  BY <1>1 DEF IInv, TypeOK, Join, Latches, Idle
<1>4. MainInv'
  BY DEF IInv, TypeOK, MainInv, Join, Idle
<1>5. ObjectsInv'
  BY <1>1 DEF IInv, TypeOK, MainInv, ObjectsInv, Join, Idle, Going
<1> QED
  BY <1>1, <1>2, <1>3, <1>4, <1>5 DEF IInv

LEMMA JoinReturnsKeeps ==
  ASSUME IInv, process = "running", NEW t \in Threads, JoinReturns(t)
  PROVE  IInv'
<1>1. /\ InstancesInv' /\ InstanceTypes' /\ UNCHANGED <<value, asking, keys>>
      /\ \A u \in Threads : NothingLeft(u)' = NothingLeft(u)
  BY InstancesStill DEF JoinReturns
<1>2. CountsInv'
  BY CountsStill DEF JoinReturns
<1>3. TypeOK'
  BY <1>1 DEF IInv, TypeOK, JoinReturns, Latches, Idle
<1>4. MainInv'
  <2>1. asleep = {} /\ (\A u \in Threads : at[u] # "born")
    BY DEF IInv, MainInv, JoinReturns
  <2>2. \A u \in joined : at[u] = "ended"
    BY DEF IInv, MainInv, JoinReturns, Ended
  <2>3. joined \cap joinable \subseteq {t}
    BY DEF IInv, MainInv, JoinReturns
  <2> QED
    BY <2>1, <2>2, <2>3 DEF IInv, TypeOK, MainInv, JoinReturns
<1>5. ObjectsInv'
  BY <1>1 DEF IInv, TypeOK, MainInv, ObjectsInv, JoinReturns, Idle, Going
<1> QED
  BY <1>1, <1>2, <1>3, <1>4, <1>5 DEF IInv

LEMMA DestroyKeeps ==
  ASSUME IInv, process = "running", NEW t \in Threads, Destroy(t)
  PROVE  IInv'
<1>1. /\ InstancesInv' /\ InstanceTypes' /\ UNCHANGED <<value, asking, keys>>
      /\ \A u \in Threads : NothingLeft(u)' = NothingLeft(u)
  BY InstancesStill DEF Destroy
<1>2. CountsInv'
  BY CountsStill DEF Destroy
<1>3. TypeOK'
  BY <1>1 DEF IInv, TypeOK, Destroy, Latches, Idle
<1>4. MainInv'
  BY DEF IInv, TypeOK, MainInv, Destroy, Idle
<1>5. ObjectsInv'
  BY <1>1 DEF IInv, TypeOK, MainInv, ObjectsInv, Destroy, Idle, Going
<1> QED
  BY <1>1, <1>2, <1>3, <1>4, <1>5 DEF IInv

LEMMA ExitKeeps ==
  ASSUME IInv, Exit
  PROVE  IInv'
<1>1. /\ InstancesInv' /\ InstanceTypes' /\ UNCHANGED <<value, asking, keys>>
      /\ \A u \in Threads : NothingLeft(u)' = NothingLeft(u)
  BY InstancesStill DEF Exit
<1>2. /\ UNCHANGED <<main, started, joined, joinable, alive, at, count, asleep, stale>>
      /\ process = "running" /\ process' = "exiting" /\ main = Idle
  BY DEF Exit
<1>3. TypeOK'
  BY <1>1, <1>2 DEF IInv, TypeOK
<1>4. CountsInv'
  BY <1>2, CountsStill
<1>5. MainInv'
  BY <1>2 DEF IInv, MainInv
<1>6. ObjectsInv'
  BY <1>1, <1>2 DEF IInv, ObjectsInv, Going
<1> QED
  BY <1>1, <1>3, <1>4, <1>5, <1>6 DEF IInv

LEMMA ExitDestroysKeeps ==
  ASSUME IInv, process = "exiting", ExitDestroys
  PROVE  IInv'
<1>1. InstancesInv' /\ InstanceTypes'
  BY DestroyedOnce DEF ExitDestroys, IInv, InstancesInv
<1>2. UNCHANGED <<asking, specific, keys, pass, process, main, started, joined, joinable, alive,
                  at, count, asleep, stale>>
  BY DEF ExitDestroys, DestroySingleton, localVars, threadVars
<1>3. TypeOK'
  BY <1>1, <1>2 DEF IInv, TypeOK
<1>4. CountsInv'
  BY <1>2, CountsStill
<1>5. MainInv'
  BY <1>2 DEF IInv, MainInv
<1>6. ObjectsInv'
  <2>1. \A u \in Threads : NothingLeft(u)' = NothingLeft(u)
    BY <1>2 DEF NothingLeft
  <2> QED
    BY <1>2, <2>1 DEF IInv, ObjectsInv, Going
<1> QED
  BY <1>1, <1>3, <1>4, <1>5, <1>6 DEF IInv

\* Main drops the thread_local_t, or exit() the key of the instances.
LEMMA DropsKeeps ==
  ASSUME IInv, Drops \/ (process = "exiting" /\ ExitDeletes)
  PROVE  IInv'
<1>1. PICK key \in Keys : DeleteKey(key) /\ (key = Single => process = "exiting")
  BY DEF Drops, ExitDeletes, Keys, Local, Single
<1>2. /\ InstancesInv' /\ UNCHANGED <<onceVars, tValue, pass>> /\ keys' = keys \ {key}
      /\ \A u \in Threads : NothingLeft(u) => NothingLeft(u)'
  BY <1>1, KeyDeleted DEF IInv
<1>3. /\ InstanceTypes'
      /\ UNCHANGED <<asking, value, process, main, started, joined, joinable, alive, at, count,
                     asleep, stale>>
  BY <1>2 DEF Drops, ExitDeletes, threadVars, onceVars, InstancesInv
<1>4. TypeOK'
  BY <1>3 DEF IInv, TypeOK
<1>5. CountsInv'
  BY <1>3, CountsStill
<1>6. MainInv'
  BY <1>3 DEF IInv, MainInv
<1>7. ObjectsInv'
  BY <1>1, <1>2, <1>3 DEF IInv, ObjectsInv, Going
<1> QED
  BY <1>2, <1>4, <1>5, <1>6, <1>7 DEF IInv

-------------------------------------------------------------------------------
(* The threads                                                             *)

\* What it comes to when a thread goes to another place.
Went(t, to) ==
  /\ t \in started
  /\ at' \in [Threads -> {"none", "born", "counted", "func", "dying", "ended"}]
  /\ \A u \in Threads : at'[u] = IF u = t THEN to ELSE at[u]
  /\ UNCHANGED <<main, started, joined, joinable, alive>>
  /\ stale' \subseteq Threads /\ stale' \cap (alive' \cup joined') = {}
  /\ \A u \in joined : at'[u] # "ended" => main = <<"join", u>> /\ u \in alive
  /\ \A u \in Threads : at'[u] = "none" <=> u \notin started
  /\ \A u \in Threads : at'[u] = "born" => main = <<"wait", u>>

\* A thread that goes on was started, and if it was joined its object is there.
LEMMA GoesOn ==
  ASSUME IInv, NEW t \in Threads, NEW from, NEW to, NEW uses \in BOOLEAN, Goes(t, from, to, uses),
         from \in {"born", "counted", "func", "dying"},
         to \in {"counted", "func", "dying", "ended"}
  PROVE  at[t] = from /\ Went(t, to)
<1>1. /\ at \in [Threads -> {"none", "born", "counted", "func", "dying", "ended"}]
      /\ stale \subseteq Threads /\ joined \subseteq Threads /\ started \subseteq Threads
  BY DEF IInv, TypeOK
<1>2. /\ at[t] = from /\ at' = [at EXCEPT ![t] = to]
      /\ stale' = (IF uses /\ t \notin alive THEN stale \cup {t} ELSE stale)
      /\ UNCHANGED <<main, started, joined, joinable, alive>>
  BY DEF Goes
<1>3. /\ at' \in [Threads -> {"none", "born", "counted", "func", "dying", "ended"}]
      /\ \A u \in Threads : at'[u] = IF u = t THEN to ELSE at[u]
  BY <1>1, <1>2
<1>4. t \in joined => t \in alive
  BY <1>2 DEF IInv, MainInv
<1>5. stale' \subseteq Threads /\ stale' \cap (alive' \cup joined') = {}
  BY <1>1, <1>2, <1>4 DEF IInv, ObjectsInv
<1>6. t \in started
  BY <1>2 DEF IInv, MainInv
<1>7. \A u \in joined : at'[u] # "ended" => main = <<"join", u>> /\ u \in alive
  BY <1>1, <1>2, <1>3 DEF IInv, MainInv
<1>8. /\ \A u \in Threads : at'[u] = "none" <=> u \notin started
      /\ \A u \in Threads : at'[u] = "born" => main = <<"wait", u>>
  BY <1>2, <1>3, <1>6 DEF IInv, MainInv
<1> QED
  BY <1>2, <1>3, <1>5, <1>6, <1>7, <1>8 DEF Went

\* What it comes to when a latch is counted down.
Counted(l) ==
  /\ count' \in [Latches -> 0..Cardinality(Threads)]
  /\ \A k \in Latches : count'[k] = IF k = l THEN count[l] - 1 ELSE count[k]
  /\ asleep' \subseteq Latches
  /\ \A k \in asleep' : count'[k] > 0 /\ main = <<"wait", k>>

LEMMA CountedDown ==
  ASSUME IInv, NEW l \in Latches, CountDown(l), count[l] > 0
  PROVE  Counted(l)
<1>1. Cardinality(Threads) \in Nat /\ count \in [Latches -> 0..Cardinality(Threads)]
  BY ThreadAssumption, FS_CardinalityType DEF IInv, TypeOK
<1>2. count[l] - 1 \in 0..Cardinality(Threads)
  BY <1>1
<1>3. /\ count' \in [Latches -> 0..Cardinality(Threads)]
      /\ \A k \in Latches : count'[k] = IF k = l THEN count[l] - 1 ELSE count[k]
  BY <1>1, <1>2 DEF CountDown
<1>4. asleep' = (IF count'[l] = 0 THEN asleep \ {l} ELSE asleep) /\ asleep \subseteq Latches
  BY DEF CountDown, Notifies, IInv, TypeOK
<1>5. ASSUME NEW k \in asleep' PROVE count'[k] > 0 /\ main = <<"wait", k>>
  <2>1. k \in Latches /\ count[k] > 0 /\ main = <<"wait", k>>
    BY <1>4 DEF IInv, MainInv
  <2> QED
    BY <1>1, <1>3, <1>4, <2>1
<1> QED
  BY <1>3, <1>4, <1>5 DEF Counted

LEMMA BeginsKeeps ==
  ASSUME IInv, NEW t \in Threads, Begins(t)
  PROVE  IInv'
<1>1. /\ InstancesInv' /\ InstanceTypes' /\ UNCHANGED <<value, asking, keys>>
      /\ \A u \in Threads : NothingLeft(u)' = NothingLeft(u)
  BY InstancesStill DEF Begins
<1>2. process' = process /\ t \in Latches /\ t # All
  BY ThreadAssumption DEF Begins, Latches
<1>3. at[t] = "born" /\ Went(t, "counted")
  <2>1. Goes(t, "born", "counted", TRUE)
    BY DEF Begins
  <2> QED
    BY <2>1, GoesOn
<1>4. count[t] = 1 /\ Counted(t)
  <2>1. CountDown(t) /\ count[t] = 1
    BY <1>3 DEF Begins, IInv, CountsInv
  <2> QED
    BY <1>2, <2>1, CountedDown
<1>5. TypeOK'
  BY <1>1, <1>2, <1>3, <1>4 DEF IInv, TypeOK, Went, Counted
<1>6. CountsInv'
  <2>1. Uncounted' = Uncounted
    BY <1>3 DEF Uncounted, Went
  <2>2. count'[All] = count[All] /\ \A u \in Threads : count'[u] = IF u = t THEN 0 ELSE count[u]
    BY <1>2, <1>4 DEF Counted, Latches
  <2> QED
    BY <1>3, <2>1, <2>2 DEF IInv, CountsInv, Went
<1>7. MainInv'
  BY <1>2, <1>3, <1>4 DEF IInv, MainInv, Went, Counted
<1>8. ObjectsInv'
  <2>1. \A u \in asking' : at'[u] = "func"
    BY <1>1, <1>3 DEF IInv, InstancesInv, InstanceTypes, ObjectsInv, Went
  <2>2. /\ value' = "deleted" => process' # "running" /\ main' = Idle
        /\ process' = "exiting" => main' = Idle
        /\ Single \notin keys' => process' # "running"
    BY <1>1, <1>2, <1>3 DEF IInv, ObjectsInv, Went
  <2>3. \A u \in Threads : at'[u] = "ended" /\ Going' => NothingLeft(u)'
    BY <1>1, <1>2, <1>3 DEF IInv, ObjectsInv, Went, Going
  <2> QED
    BY <1>3, <2>1, <2>2, <2>3 DEF ObjectsInv, Went
<1> QED
  BY <1>1, <1>5, <1>6, <1>7, <1>8 DEF IInv

LEMMA CallsFuncKeeps ==
  ASSUME IInv, NEW t \in Threads, CallsFunc(t)
  PROVE  IInv'
<1>1. /\ InstancesInv' /\ InstanceTypes' /\ UNCHANGED <<value, asking, keys>>
      /\ \A u \in Threads : NothingLeft(u)' = NothingLeft(u)
  BY InstancesStill DEF CallsFunc
<1>2. process' = process /\ All \in Latches /\ All \notin Threads
  BY ThreadAssumption DEF CallsFunc, Latches
<1>3. at[t] = "counted" /\ Went(t, "func")
  <2>1. Goes(t, "counted", "func", TRUE)
    BY DEF CallsFunc
  <2> QED
    BY <2>1, GoesOn
<1>4. Uncounted' = Uncounted \ {t} /\ t \in Uncounted
  BY <1>3 DEF Uncounted, Went
<1>5. IsFiniteSet(Uncounted) /\ Cardinality(Uncounted) \in Nat /\ Cardinality(Uncounted) > 0
  <2>1. IsFiniteSet(Uncounted)
    BY ThreadAssumption, FS_Subset DEF Uncounted
  <2> QED
    BY <1>4, <2>1, FS_CardinalityType, FS_EmptySet
<1>6. count[All] = Cardinality(Uncounted) /\ Counted(All)
  <2>1. CountDown(All) /\ count[All] = Cardinality(Uncounted)
    BY DEF CallsFunc, IInv, CountsInv
  <2> QED
    BY <1>2, <1>5, <2>1, CountedDown
<1>7. TypeOK'
  BY <1>1, <1>2, <1>3, <1>6 DEF IInv, TypeOK, Went, Counted
<1>8. CountsInv'
  <2>1. Cardinality(Uncounted') = Cardinality(Uncounted) - 1
    BY <1>4, <1>5, FS_RemoveElement
  <2>2. count'[All] = Cardinality(Uncounted') /\ \A u \in Threads : count'[u] = count[u]
    BY <1>2, <1>6, <2>1 DEF Counted, Latches
  <2> QED
    BY <1>3, <2>2 DEF IInv, CountsInv, Went
<1>9. MainInv'
  BY <1>2, <1>3, <1>6 DEF IInv, MainInv, Went, Counted
<1>10. ObjectsInv'
  <2>1. \A u \in asking' : at'[u] = "func"
    BY <1>1, <1>3 DEF IInv, InstancesInv, InstanceTypes, ObjectsInv, Went
  <2>2. /\ value' = "deleted" => process' # "running" /\ main' = Idle
        /\ process' = "exiting" => main' = Idle
        /\ Single \notin keys' => process' # "running"
    BY <1>1, <1>2, <1>3 DEF IInv, ObjectsInv, Went
  <2>3. \A u \in Threads : at'[u] = "ended" /\ Going' => NothingLeft(u)'
    BY <1>1, <1>2, <1>3 DEF IInv, ObjectsInv, Went, Going
  <2> QED
    BY <1>3, <2>1, <2>2, <2>3 DEF ObjectsInv, Went
<1> QED
  BY <1>1, <1>7, <1>8, <1>9, <1>10 DEF IInv

\* The function's end, by an exception or not, and that of the thread.
LEMMA EndKeeps ==
  ASSUME IInv, NEW t \in Threads, FuncReturns(t) \/ FuncThrows(t) \/ Ends(t)
  PROVE  IInv'
<1>1. /\ InstancesInv' /\ InstanceTypes' /\ UNCHANGED <<value, asking, keys>>
      /\ \A u \in Threads : NothingLeft(u)' = NothingLeft(u)
  BY InstancesStill DEF FuncReturns, FuncThrows, Ends
<1>2. PICK to \in {"dying", "ended"} :
        /\ Went(t, to) /\ at[t] \in {"func", "dying"} /\ t \notin asking
        /\ to = "ended" => NothingLeft(t) \/ process' = "aborted"
  <2>1. CASE FuncReturns(t)
    <3>1. Goes(t, "func", "dying", TRUE) /\ t \notin asking
      BY <2>1 DEF FuncReturns
    <3> QED
      BY <3>1, GoesOn
  <2>2. CASE FuncThrows(t)
    <3>1. Goes(t, "func", "ended", TRUE) /\ t \notin asking /\ process' = "aborted"
      BY <2>2 DEF FuncThrows
    <3> QED
      BY <3>1, GoesOn
  <2>3. CASE Ends(t)
    <3>1. Goes(t, "dying", "ended", FALSE) /\ NothingLeft(t)
      BY <2>3 DEF Ends, Cleaned, NothingLeft
    <3>2. at[t] = "dying" /\ Went(t, "ended")
      BY <3>1, GoesOn
    <3>3. t \notin asking
      BY <3>2 DEF IInv, ObjectsInv
    <3> QED
      BY <3>1, <3>2, <3>3
  <2> QED
    BY <2>1, <2>2, <2>3
<1>3. UNCHANGED <<count, asleep>> /\ process' \in {process, "aborted"}
  BY DEF FuncReturns, FuncThrows, Ends
<1>4. TypeOK'
  BY <1>1, <1>2, <1>3 DEF IInv, TypeOK, Went
<1>5. CountsInv'
  <2>1. Uncounted' = Uncounted
    BY <1>2 DEF Uncounted, Went
  <2> QED
    BY <1>2, <1>3, <2>1 DEF IInv, CountsInv, Went
<1>6. MainInv'
  BY <1>2, <1>3 DEF IInv, MainInv, Went
<1>7. ObjectsInv'
  <2>1. \A u \in asking' : at'[u] = "func"
    BY <1>1, <1>2 DEF IInv, InstancesInv, InstanceTypes, ObjectsInv, Went
  <2>2. /\ value' = "deleted" => process' # "running" /\ main' = Idle
        /\ process' = "exiting" => main' = Idle
        /\ Single \notin keys' => process' # "running"
    BY <1>1, <1>2, <1>3 DEF IInv, ObjectsInv, Went
  <2>3. ASSUME NEW u \in Threads, at'[u] = "ended", Going' PROVE NothingLeft(u)'
    <3>1. Going /\ process' # "aborted"
      BY <1>3, <2>3 DEF Going
    <3> QED
      BY <1>1, <1>2, <2>3, <3>1 DEF IInv, ObjectsInv, Went
  <2> QED
    BY <1>2, <2>1, <2>2, <2>3 DEF ObjectsInv, Went
<1> QED
  BY <1>1, <1>4, <1>5, <1>6, <1>7 DEF IInv

\* A step among the objects of a thread that has not ended.
LEMMA ObjectsKeep ==
  ASSUME IInv, UNCHANGED threadVars, InstancesInv',
         NEW t \in Threads, at[t] # "ended",
         \A u \in asking' : u \in asking \/ at[u] = "func",
         value' = "deleted" => value = "deleted", keys' = keys,
         \A u \in Threads \ {t} : NothingLeft(u)' = NothingLeft(u)
  PROVE  IInv'
<1>1. UNCHANGED <<process, main, started, joined, joinable, alive, at, count, asleep, stale>>
  BY DEF threadVars
<1>2. TypeOK'
  BY <1>1 DEF IInv, TypeOK, InstancesInv
<1>3. CountsInv'
  BY <1>1, CountsStill
<1>4. MainInv'
  BY <1>1 DEF IInv, MainInv
<1>5. ObjectsInv'
  BY <1>1 DEF IInv, ObjectsInv, Going
<1> QED
  BY <1>2, <1>3, <1>4, <1>5 DEF IInv

LEMMA UsesKeeps ==
  ASSUME IInv, NEW t \in Threads, Uses(t)
  PROVE  IInv'
<1>1. InstancesInv' /\ UNCHANGED threadVars /\ at[t] = "func"
  BY SingletonKept, LocalsKept DEF Uses, IInv
<1>2. asking' \subseteq asking \cup {t} /\ value' = value /\ keys' = keys
  BY DEF Uses, Ask, Value, LocalInstance, onceVars, localVars
<1>3. \A u \in Threads \ {t} : NothingLeft(u)' = NothingLeft(u)
  <2>1. keys' = keys /\ pass' = pass /\ \A u \in Threads \ {t} : specific'[u] = specific[u]
    BY DEF Uses, Ask, Value, LocalInstance, localVars, IInv, TypeOK, InstanceTypes
  <2> QED
    BY <2>1 DEF NothingLeft
<1> QED
  BY <1>1, <1>2, <1>3, ObjectsKeep

LEMMA IsAnsweredKeeps ==
  ASSUME IInv, NEW t \in Threads, IsAnswered(t)
  PROVE  IInv'
<1>1. InstancesInv' /\ UNCHANGED threadVars
  BY SingletonKept DEF IsAnswered, IInv
<1>2. at[t] # "ended"
  <2>1. t \in asking
    BY DEF IsAnswered, InitBegins, InitReturns, InitThrows, Answer, IInv, InstancesInv, InstanceTypes
  <2> QED
    BY <2>1 DEF IInv, ObjectsInv
<1>3. asking' \subseteq asking /\ (value' = "deleted" => value = "deleted") /\ UNCHANGED localVars
  BY DEF IsAnswered, InitBegins, InitReturns, InitThrows, Answer
<1>4. keys' = keys /\ \A u \in Threads \ {t} : NothingLeft(u)' = NothingLeft(u)
  BY <1>3 DEF NothingLeft, localVars
<1> QED
  BY <1>1, <1>2, <1>3, <1>4, ObjectsKeep

LEMMA CleansKeeps ==
  ASSUME IInv, NEW t \in Threads, Cleans(t)
  PROVE  IInv'
<1>1. InstancesInv' /\ UNCHANGED threadVars /\ at[t] = "dying"
  BY LocalsKept DEF Cleans, IInv
<1>2. UNCHANGED <<onceVars, keys>>
  BY DEF Cleans, PassBegins, RunDestructor
<1>3. \A u \in Threads \ {t} : NothingLeft(u)' = NothingLeft(u)
  <2>1. CASE PassBegins(t)
    <3>1. /\ UNCHANGED <<keys, specific>>
          /\ \A u \in Threads \ {t} : pass'[u] = pass[u]
      BY <2>1 DEF PassBegins, IInv, TypeOK, InstanceTypes
    <3> QED
      BY <3>1 DEF NothingLeft
  <2>2. ASSUME NEW key \in Keys, NEW asks \in BOOLEAN, RunDestructor(t, key, asks)
        PROVE  \A u \in Threads \ {t} : NothingLeft(u)' = NothingLeft(u)
    <3>1. UNCHANGED <<keys, pass>> /\ \A u \in Threads \ {t} : specific'[u] = specific[u]
      BY <2>2 DEF RunDestructor, IInv, TypeOK, InstanceTypes, Keys
    <3> QED
      BY <3>1 DEF NothingLeft
  <2> QED
    BY <2>1, <2>2 DEF Cleans
<1> QED
  BY <1>1, <1>2, <1>3, ObjectsKeep DEF onceVars

-------------------------------------------------------------------------------

LEMMA NextIInv == IInv /\ [Next]_vars => IInv'
<1> SUFFICES ASSUME IInv, [Next]_vars PROVE IInv'
  OBVIOUS
<1>1. ASSUME process = "running", NEW t \in Threads, Start(t) \/ Join(t) \/ Destroy(t)
      PROVE  IInv'
  BY <1>1, StartKeeps, JoinKeeps, DestroyKeeps
<1>2. ASSUME process = "running", WaitForAll \/ MainGoes \/ Spurious \/ Exit \/ Drops
      PROVE  IInv'
  BY <1>2, WaitForAllKeeps, WaitKeeps, JoinReturnsKeeps, SpuriousKeeps, ExitKeeps, DropsKeeps
     DEF MainGoes
<1>3. ASSUME NEW t \in Threads, ThreadGoes(t)
      PROVE  IInv'
  BY <1>3, BeginsKeeps, CallsFuncKeeps, EndKeeps, CleansKeeps DEF ThreadGoes
<1>4. ASSUME NEW t \in Threads, Uses(t) \/ IsAnswered(t)
      PROVE  IInv'
  BY <1>4, UsesKeeps, IsAnsweredKeeps
<1>5. ASSUME process = "exiting", ExitDestroys \/ ExitDeletes
      PROVE  IInv'
  BY <1>5, ExitDestroysKeeps, DropsKeeps
<1>6. CASE UNCHANGED vars
  <2>1. /\ InstancesInv' /\ InstanceTypes' /\ UNCHANGED <<value, asking, keys>>
        /\ \A u \in Threads : NothingLeft(u)' = NothingLeft(u)
    BY <1>6, InstancesStill DEF vars
  <2>2. UNCHANGED <<process, main, started, joined, joinable, alive, at, count, asleep, stale>>
    BY <1>6 DEF vars, threadVars
  <2>3. TypeOK' /\ CountsInv' /\ MainInv' /\ ObjectsInv'
    BY <2>1, <2>2, CountsStill DEF IInv, TypeOK, MainInv, ObjectsInv, Going
  <2> QED
    BY <2>1, <2>3 DEF IInv
<1> QED
  BY <1>1, <1>2, <1>3, <1>4, <1>5, <1>6 DEF Next

LEMMA Invariant == Spec => []IInv
  BY InitIInv, NextIInv, PTL DEF Spec

(* start() returns when its thread has counted down, join() when it has    *)
(* ended, wait() when the count is zero; ~thread leaves no joinable        *)
(* std::thread.                                                            *)
THEOREM CallsKeepTheirWord == Spec => []CallsMeanIt
<1>1. IInv => CallsMeanIt
  BY DEF IInv, TypeOK, MainInv, CallsMeanIt
<1> QED
  BY <1>1, Invariant, PTL

(* A thread that was joined used its object and the singleton while they   *)
(* were there, and one singleton is constructed. Every thread's objects    *)
(* are deleted at its end, but for those made again in the last pass, and  *)
(* an instance of thread_local_singleton also from exit() on, which        *)
(* deletes its key while threads go on to make and to hold instances;      *)
(* t_value_ is never an object that was deleted, before or after that.     *)
THEOREM ObjectsOutliveUse == Spec => []NothingOutlived
<1>1. ASSUME IInv PROVE NothingOutlived
  <2>1. ASSUME value = "deleted", NEW t \in asking PROVE t \notin joined
    <3>1. at[t] = "func" /\ main = Idle
      BY <1>1, <2>1 DEF IInv, ObjectsInv
    <3> QED
      BY <1>1, <3>1 DEF IInv, MainInv, Idle
  <2>2. ASSUME NEW t \in Threads, at[t] = "ended", process = "running"
        PROVE  tValue[t] = "null" \/ pass[t] = MaxPasses
    <3>1. Single \in keys /\ NothingLeft(t)
      BY <1>1, <2>2 DEF IInv, ObjectsInv, Going
    <3>2. tValue[t] = "live" => Single \in specific[t]
      BY <1>1, <3>1 DEF IInv, InstancesInv, LocalsAgree
    <3>3. tValue[t] \in {"null", "live"}
      BY <1>1 DEF IInv, InstancesInv, InstanceTypes, LocalsAgree, Pointers
    <3> QED
      BY <3>1, <3>2, <3>3 DEF NothingLeft
  <2> QED
    BY <1>1, <2>1, <2>2 DEF IInv, InstancesInv, ObjectsInv, NothingOutlived
<1> QED
  BY <1>1, Invariant, PTL
===============================================================================
