-------------------------------- MODULE Dispatch --------------------------------
(***************************************************************************)
(* channel_t and the part of event_loop_t that handles the active          *)
(* channels: what user code may do to channels from the callbacks of other *)
(* channels, of the same channel, from pending functors, and from the      *)
(* destructor of the object that a channel is tied to.                     *)
(*                                                                         *)
(* All of it runs in the owner's thread; its steps are the calls that user *)
(* code makes, in any order.  The asserts are part of the program: a call  *)
(* whose assert fails ends it.  A channel is its address, so a new channel *)
(* may take the place of a destroyed one.  The poller is that of           *)
(* Poller.tla, the iterations are those of EventLoop.tla.                  *)
(***************************************************************************)
EXTENDS Naturals, Sequences, FiniteSets

CONSTANTS
  Channels,     \* the addresses of channel_t objects
  Revents,      \* the revents_ that poll may report
  NoChannel     \* nullptr

ASSUME DispatchAssumption ==
  /\ IsFiniteSet(Channels) /\ NoChannel \notin Channels
  /\ Revents \subseteq SUBSET {"in", "pri", "out", "hup", "rdhup", "err", "nval"}

VARIABLES
  alive,          \* the channels that are constructed and not destroyed
  registered,     \* the channels the poller knows: has_channel()
  added,          \* the channels with add_to_loop_
  wanting,        \* the channels whose events_ are not none
  handling,       \* the channels with event_handling_
  tied,           \* the channels with tied_
  held,           \* the tied objects that user code refers to
  guard,          \* handle_event holds a reference to the current one's object
  eventHandling,  \* event_handling_ of the loop
  active,         \* active_channels_, each with its revents_
  current,        \* current_active_channel_
  at,             \* how many of the active channels were handled, or are
  calls,          \* the callbacks of the current channel still to be called
  place,          \* where the owner is
  aborted         \* an assert failed

channelVars == <<alive, registered, added, wanting, tied, held>>
loopVars == <<handling, guard, eventHandling, active, current, at, calls, place>>
dispatchVars == <<channelVars, loopVars, aborted>>

Callbacks == {"close", "error", "read", "write"}

(* poll: in poll(); next: between two channels; calling: in handle_event,  *)
(* between two callbacks; callback: in one; release: in the destructor of  *)
(* an object that the guard was the last to hold; functors: in a pending   *)
(* functor.                                                                *)
DispatchPlaces == {"poll", "next", "calling", "callback", "release", "functors"}

DispatchTypeOK ==
  /\ alive \subseteq Channels
  /\ registered \cup added \cup wanting \cup handling \cup tied \subseteq alive
  /\ held \subseteq tied
  /\ guard \in BOOLEAN /\ aborted \in BOOLEAN /\ eventHandling \in BOOLEAN
  /\ eventHandling <=> place \in {"next", "calling", "callback", "release"}
  /\ active \in Seq(Channels \X Revents) /\ at \in 0..Len(active)
  /\ current \in Channels \cup {NoChannel}
  /\ calls \in Seq(Callbacks)
  /\ place \in DispatchPlaces

DispatchInit ==
  /\ alive = {} /\ registered = {} /\ added = {} /\ wanting = {}
  /\ handling = {} /\ tied = {} /\ held = {}
  /\ guard = FALSE /\ eventHandling = FALSE /\ aborted = FALSE
  /\ active = <<>> /\ current = NoChannel /\ at = 0 /\ calls = <<>>
  /\ place = "functors"

-------------------------------------------------------------------------------
(* What user code does.                                                    *)

InUserCode == place \in {"callback", "release", "functors"} /\ ~aborted

New(c) ==
  /\ InUserCode
  /\ c \notin alive
  /\ alive' = alive \cup {c}
  /\ UNCHANGED <<registered, added, wanting, tied, held, loopVars, aborted>>

(* tie: to an object that user code holds.  Callers see to it that the     *)
(* channel is not being handled: its event would go on without a guard.    *)
Tie(c) ==
  /\ InUserCode
  /\ c \in alive \ (tied \cup handling)
  /\ tied' = tied \cup {c}
  /\ held' = held \cup {c}
  /\ UNCHANGED <<alive, registered, added, wanting, loopVars, aborted>>

\* User code drops its reference to the object that c is tied to.
Drop(c) ==
  /\ InUserCode
  /\ c \in held
  /\ held' = held \ {c}
  /\ UNCHANGED <<alive, registered, added, wanting, tied, loopVars, aborted>>

\* enable_reading, enable_writing and update
Enable(c) ==
  /\ InUserCode
  /\ c \in alive
  /\ wanting' = wanting \cup {c}
  /\ added' = added \cup {c}
  /\ registered' = registered \cup {c}
  /\ UNCHANGED <<alive, tied, held, loopVars, aborted>>

\* disable_all, or the last of disable_reading and disable_writing, and update
Disable(c) ==
  /\ InUserCode
  /\ c \in alive
  /\ wanting' = wanting \ {c}
  /\ added' = added \cup {c}
  /\ registered' = registered \cup {c}
  /\ UNCHANGED <<alive, tied, held, loopVars, aborted>>

ActiveChannels == {active[k][1] : k \in DOMAIN active}

\* Faulty: remove_channel looks only at the channel that is being handled.
RemoveAssertsCurrent(c) == c \in registered \ wanting

(* The asserts of channel_t::remove, event_loop_t::remove_channel and the  *)
(* pollers' remove_channel.                                                *)
RemoveAsserts(c) ==
  /\ c \in registered \ wanting
  /\ eventHandling => current = c \/ c \notin ActiveChannels

\* Faulty: add_to_loop_ is not lowered.
StillAdded(c) == added

\* add_to_loop_ = false
NoLongerAdded(c) == added \ {c}

\* remove
Remove(c) ==
  /\ InUserCode
  /\ c \in alive
  /\ RemoveAsserts(c)
  /\ added' = NoLongerAdded(c)
  /\ registered' = registered \ {c}
  /\ UNCHANGED <<alive, wanting, tied, held, loopVars, aborted>>

\* The asserts of ~channel_t.
DestroyAsserts(c) == c \notin handling \cup added \cup registered

\* ~channel_t
Destroy(c) ==
  /\ InUserCode
  /\ c \in alive
  /\ DestroyAsserts(c)
  /\ alive' = alive \ {c}
  /\ tied' = tied \ {c}
  /\ held' = held \ {c}
  /\ UNCHANGED <<registered, added, wanting, loopVars, aborted>>

\* An assert of remove() or of ~channel_t fails.
Abort(c) ==
  /\ InUserCode
  /\ c \in alive
  /\ ~RemoveAsserts(c) \/ ~DestroyAsserts(c)
  /\ aborted' = TRUE
  /\ UNCHANGED <<channelVars, loopVars>>

-------------------------------------------------------------------------------
(* loop() and handle_event.                                                *)

\* The ways to list the members of S.
Listings(S) ==
  {s \in [1..Cardinality(S) -> S] : \A j, k \in DOMAIN s : j # k => s[j] # s[k]}

(* poll: registered channels, in any order.  A hang-up may be reported of  *)
(* a channel that wants nothing (Poller.tla).                              *)
Poll ==
  /\ place = "poll" /\ ~aborted
  /\ \E S \in SUBSET registered : \E s \in Listings(S) :
       \E r \in [DOMAIN s -> Revents] :
         active' = [k \in DOMAIN s |-> <<s[k], r[k]>>]
  /\ at' = 0
  /\ eventHandling' = TRUE
  /\ place' = "next"
  /\ UNCHANGED <<channelVars, handling, guard, current, calls, aborted>>

\* The condition of hand_event_with_guard for each callback.
Called(r, callback) ==
  CASE callback = "close" -> "hup" \in r /\ "in" \notin r
    [] callback = "error" -> r \cap {"err", "nval"} # {}
    [] callback = "read"  -> r \cap {"in", "pri", "rdhup"} # {}
    [] callback = "write" -> "out" \in r

\* The callbacks for some revents_, in their order.
CallsFor(r) ==
  LET if(callback) == IF Called(r, callback) THEN <<callback>> ELSE <<>>
  IN if("close") \o if("error") \o if("read") \o if("write")

\* tie_.lock() yields no object.
ObjectGone(c) == c \in tied /\ c \notin held

\* Faulty: the object is looked at and not held.
GuardsNone(c) == FALSE

\* guard = tie_.lock()
Guards(c) == c \in tied

\* handle_event of the next channel: it is not tied, or its object is there.
HandleEvent ==
  /\ place = "next" /\ ~aborted
  /\ at < Len(active)
  /\ LET c == active[at + 1][1] IN
       /\ ~ObjectGone(c)
       /\ current' = c
       /\ guard' = Guards(c)
       /\ handling' = handling \cup {c}
       /\ calls' = CallsFor(active[at + 1][2])
  /\ at' = at + 1
  /\ place' = "calling"
  /\ UNCHANGED <<channelVars, eventHandling, active, aborted>>

\* handle_event of the next channel: its object is gone.
SkipEvent ==
  /\ place = "next" /\ ~aborted
  /\ at < Len(active)
  /\ ObjectGone(active[at + 1][1])
  /\ current' = active[at + 1][1]
  /\ at' = at + 1
  /\ UNCHANGED <<channelVars, handling, guard, eventHandling, active, calls, place, aborted>>

\* The next callback is called.
Callback ==
  /\ place = "calling"
  /\ calls # <<>>
  /\ calls' = Tail(calls)
  /\ place' = "callback"
  /\ UNCHANGED <<channelVars, handling, guard, eventHandling, active, current, at, aborted>>

CallbackReturns ==
  /\ place = "callback" /\ ~aborted
  /\ place' = "calling"
  /\ UNCHANGED <<channelVars, handling, guard, eventHandling, active, current, at, calls, aborted>>

(* hand_event_with_guard returns and the guard goes out of scope, which    *)
(* destroys the object if user code has dropped it.                        *)
EventHandled ==
  /\ place = "calling"
  /\ calls = <<>>
  /\ handling' = handling \ {current}
  /\ guard' = FALSE
  /\ place' = IF guard /\ current \notin held THEN "release" ELSE "next"
  /\ UNCHANGED <<channelVars, eventHandling, active, current, at, calls, aborted>>

Released ==
  /\ place = "release" /\ ~aborted
  /\ place' = "next"
  /\ UNCHANGED <<channelVars, handling, guard, eventHandling, active, current, at, calls, aborted>>

\* Every active channel was handled; do_pending_functors.
AllHandled ==
  /\ place = "next" /\ ~aborted
  /\ at = Len(active)
  /\ current' = NoChannel
  /\ eventHandling' = FALSE
  /\ place' = "functors"
  /\ UNCHANGED <<channelVars, handling, guard, active, at, calls, aborted>>

\* The functors have run: clear active_channels_ and poll again.
NextIteration ==
  /\ place = "functors" /\ ~aborted
  /\ active' = <<>>
  /\ at' = 0
  /\ place' = "poll"
  /\ UNCHANGED <<channelVars, handling, guard, eventHandling, current, calls, aborted>>

UserCode(c) ==
  New(c) \/ Tie(c) \/ Drop(c) \/ Enable(c) \/ Disable(c) \/ Remove(c) \/ Destroy(c) \/ Abort(c)

DispatchNext ==
  \/ \E c \in Channels : UserCode(c)
  \/ Poll
  \/ HandleEvent \/ SkipEvent
  \/ Callback \/ CallbackReturns \/ EventHandled \/ Released
  \/ AllHandled \/ NextIteration

DispatchSpec == DispatchInit /\ [][DispatchNext]_dispatchVars

-------------------------------------------------------------------------------
(* No dangling pointer (remove_channel, ~channel_t): whatever callbacks    *)
(* remove and destroy, every channel that loop() has still to handle in    *)
(* this iteration is constructed and registered; if not, an assert failed  *)
(* first.                                                                  *)
NoDangling ==
  place # "poll" => \A k \in (at + 1)..Len(active) : active[k][1] \in alive \cap registered

(* handle_event is never left with a destroyed channel in its hands.       *)
CurrentAlive == place \in {"calling", "callback"} => current \in alive \cap handling

(* The loop touches no channel that is gone, whatever the callbacks of the *)
(* same iteration removed and destroyed (loop, update_channel, remove).    *)
DispatchSafe == NoDangling /\ CurrentAlive

(* The destructor's two questions have one answer: add_to_loop_ is raised  *)
(* exactly while the poller knows the channel, so the assert on it is as   *)
(* good as has_channel(), which only the owner's thread may ask.           *)
AddedIffRegistered == added = registered

(* Channels and their poller agree on what is registered.                  *)
RegistrationConsistent == DispatchTypeOK /\ AddedIffRegistered

(* tie: a tied channel's callbacks run only while its object lives, even   *)
(* if an earlier callback of the same event dropped the last reference.    *)
TieHolds ==
  place \in {"calling", "callback"} /\ current \in tied => current \in held \/ guard
===============================================================================
