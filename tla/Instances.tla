------------------------------ MODULE Instances -------------------------------
(***************************************************************************)
(* The objects that threads get by asking for them: the singleton_t of the *)
(* process, and, for each thread, the value of a thread_local_t and the    *)
(* instance of a thread_local_singleton, with the destructors that         *)
(* pthread runs when a thread ends: in passes over the keys whose value is *)
(* not null, at most MaxPasses of them, each set to null before its        *)
(* destructor is called.  A destructor may ask for the other object again, *)
(* which makes another pass necessary.                                     *)
(***************************************************************************)
EXTENDS Naturals

CONSTANTS
  Threads,       \* the threads that may be created
  MaxThrows,     \* bound: how often the constructor of the singleton throws
  MaxPasses      \* PTHREAD_DESTRUCTOR_ITERATIONS

ASSUME InstanceAssumption == MaxThrows \in Nat /\ MaxPasses \in Nat \ {0}

VARIABLES
  once,       \* once_: not called, running, or done
  value,      \* value_: null, live, or what a delete left
  asking,     \* the threads that are in singleton_t::instance()
  initing,    \* those of them that are in init()
  built,      \* history: how many singletons were constructed
  throws,     \* history: how many constructors threw
  keys,       \* the pthread keys that exist
  specific,   \* for each thread, the keys whose pthread_getspecific is not null
  tValue,     \* t_value_ of each thread: null, live, or what a delete left
  pass,       \* for each thread that ends, the number of the pass over its keys
  left        \* for each thread that ends, the keys that pass has still to look at

onceVars == <<once, value, asking, initing, built, throws>>
localVars == <<keys, specific, tValue, pass, left>>
instanceVars == <<onceVars, localVars>>

\* The key of a thread_local_t, and that of thread_local_singleton's deleter_.
Local == "pkey_"
Single == "deleter_.pkey_"
Keys == {Local, Single}
Pointers == {"null", "live", "deleted"}

InstanceTypes ==
  /\ once \in {"not", "running", "done"}
  /\ value \in Pointers
  /\ initing \subseteq asking /\ asking \subseteq Threads
  /\ built \in 0..1 /\ throws \in 0..MaxThrows
  /\ keys \subseteq Keys
  /\ specific \in [Threads -> SUBSET keys]
  /\ tValue \in [Threads -> Pointers]
  /\ pass \in [Threads -> 0..MaxPasses]
  /\ left \in [Threads -> SUBSET keys]

InstanceInit ==
  /\ once = "not" /\ value = "null"
  /\ asking = {} /\ initing = {} /\ built = 0 /\ throws = 0
  /\ keys = Keys
  /\ specific = [t \in Threads |-> {}]
  /\ tValue = [t \in Threads |-> "null"]
  /\ pass = [t \in Threads |-> 0]
  /\ left = [t \in Threads |-> {}]

-------------------------------------------------------------------------------
(* singleton_t                                                             *)

\* instance() is called.
Ask(t) ==
  /\ t \notin asking
  /\ asking' = asking \cup {t}
  /\ UNCHANGED <<once, value, initing, built, throws, localVars>>

\* Faulty: value_ is tested in place of once_.
MayInitWhileNull == value = "null"

\* call_once: one calls init(), the others wait until it has returned or thrown.
MayInit == once = "not"

\* call_once calls init(), which constructs the object.
InitBegins(t) ==
  /\ t \in asking \ initing
  /\ MayInit
  /\ once' = "running"
  /\ initing' = initing \cup {t}
  /\ UNCHANGED <<value, asking, built, throws, localVars>>

\* init() has constructed the object.
InitReturns(t) ==
  /\ t \in initing
  /\ once' = "done"
  /\ value' = "live"
  /\ initing' = initing \ {t}
  /\ built' = built + 1
  /\ UNCHANGED <<asking, throws, localVars>>

\* The constructor throws, and instance() with it: the next caller tries again.
InitThrows(t) ==
  /\ t \in initing
  /\ throws < MaxThrows
  /\ once' = "not"
  /\ initing' = initing \ {t}
  /\ asking' = asking \ {t}
  /\ throws' = throws + 1
  /\ UNCHANGED <<value, built, localVars>>

\* instance() returns *value_, of which the assert only says that it is not null.
Answer(t) ==
  /\ t \in asking
  /\ once = "done"
  /\ asking' = asking \ {t}
  /\ UNCHANGED <<once, value, initing, built, throws, localVars>>

\* destroy(): value_ == nullptr; leaves the pointer as it is.
DestroySingleton ==
  /\ value = "live"
  /\ value' = "deleted"
  /\ UNCHANGED <<once, asking, initing, built, throws, localVars>>

-------------------------------------------------------------------------------
(* thread_local_t and thread_local_singleton                               *)

\* value(): the thread's object, which is made if there is none.
Value(t) ==
  /\ Local \in keys
  /\ specific' = [specific EXCEPT ![t] = @ \cup {Local}]
  /\ UNCHANGED <<onceVars, keys, tValue, pass, left>>

\* Faulty: the key is not told of the object.
Unset(t) == specific[t]

(* The keys of a thread for which instance() has made an object: of a key  *)
(* that is deleted, pthread_getspecific gives null, which the assert of    *)
(* set() wants, and pthread_setspecific fails, which nobody looks at.      *)
WithInstance(t) == specific[t] \cup ({Single} \cap keys)

\* thread_local_singleton::instance(): by t_value_, not by the key.
LocalInstance(t) ==
  /\ specific' = [specific EXCEPT ![t] = IF tValue[t] = "null" THEN WithInstance(t) ELSE @]
  /\ tValue' = [tValue EXCEPT ![t] = IF @ = "null" THEN "live" ELSE @]
  /\ UNCHANGED <<onceVars, keys, pass, left>>

(* ~thread_local_t, ~deleter: the key has no values any more, and pthread  *)
(* calls no destructor of it; the objects that threads have are nobody's.  *)
DeleteKey(key) ==
  /\ keys' = keys \ {key}
  /\ specific' = [t \in Threads |-> specific[t] \ {key}]
  /\ left' = [t \in Threads |-> left[t] \ {key}]
  /\ UNCHANGED <<onceVars, tValue, pass>>

\* Faulty: t_value_ is left as it is.
Kept == "deleted"

\* t_value_ = nullptr;
Cleared == "null"

\* pthread begins a pass over the keys of a thread that ends.
PassBegins(t) ==
  /\ left[t] = {} /\ specific[t] # {} /\ pass[t] < MaxPasses
  /\ pass' = [pass EXCEPT ![t] = @ + 1]
  /\ left' = [left EXCEPT ![t] = specific[t]]
  /\ UNCHANGED <<onceVars, keys, specific, tValue>>

(* The destructor of a key deletes the object, whose own destructor may    *)
(* ask for the thread's other object.                                      *)
RunDestructor(t, key, asks) ==
  /\ key \in left[t]
  /\ left' = [left EXCEPT ![t] = @ \ {key}]
  /\ key = Single =>
       /\ specific' = [specific EXCEPT ![t] = (@ \ {key}) \cup IF asks THEN {Local} \cap keys ELSE {}]
       /\ tValue' = [tValue EXCEPT ![t] = Cleared]
  /\ key = Local =>
       LET made == asks /\ tValue[t] = "null"
       IN /\ specific' = [specific EXCEPT ![t] = (IF made THEN WithInstance(t) ELSE @) \ {key}]
          /\ tValue' = [tValue EXCEPT ![t] = IF made THEN "live" ELSE @]
  /\ UNCHANGED <<onceVars, keys, pass>>

\* pthread has called all destructors, or given up.
Cleaned(t) == left[t] = {} /\ (specific[t] = {} \/ pass[t] = MaxPasses)

-------------------------------------------------------------------------------
(* init(), call_once: there is one singleton, and whoever is answered gets *)
(* it, constructed.                                                        *)
OneSingleton ==
  /\ once = "done" <=> built = 1
  /\ value = "null" <=> built = 0

(* instance() and the destructor of thread_local_singleton: never is a     *)
(* thread given an object that was deleted, and its destructor finds       *)
(* t_value_ as its assert has it. While the key is there, it has the value *)
(* of t_value_; when exit() has deleted it, whatever instances threads     *)
(* have or make stay theirs, and are deleted by nobody.                    *)
LocalsAgree ==
  \A t \in Threads :
    /\ tValue[t] # "deleted"
    /\ Single \in specific[t] \cup left[t] => tValue[t] = "live"
    /\ Single \in keys /\ tValue[t] = "live" => Single \in specific[t]

(* ~thread_local_t, destructor: when pthread is done with a thread, its    *)
(* objects are deleted, but for those whose key went before them and those *)
(* that their destructors made again in every pass.                        *)
NothingLeft(t) == specific[t] = {} \/ pass[t] = MaxPasses
===============================================================================
