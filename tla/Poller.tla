-------------------------------- MODULE Poller --------------------------------
(***************************************************************************)
(* What poller_t promises to the loop, whichever of its two                *)
(* implementations new_default_poller chooses: update_channel registers a  *)
(* channel with the events it wants, remove_channel forgets one that wants *)
(* nothing, and poll reports registered channels with events that they     *)
(* asked for, hang-ups being reported unasked.                             *)
(*                                                                         *)
(* EpollPoller.tla and PollPoller.tla implement this specification.        *)
(***************************************************************************)
EXTENDS Descriptors

VARIABLES
  registered,   \* the channels the poller knows
  events,       \* events_ of each channel
  active        \* the last poll's active_channels, each with its revents_

pollerVars == <<registered, events, active>>

\* No other channel is registered with the descriptor of c.
Sole(c) == \A d \in registered : Fd[d] = Fd[c] => d = c

Init ==
  /\ registered = {}
  /\ events = [c \in Channels |-> {}]
  /\ active = {}

\* channel_t::enable_reading and its like
Update(c) ==
  /\ Sole(c)
  /\ registered' = registered \cup {c}
  /\ \E ev \in Changed(events[c]) : events' = [events EXCEPT ![c] = ev]
  /\ UNCHANGED active

\* channel_t::remove
Remove(c) ==
  /\ c \in registered
  /\ events[c] = {}
  /\ registered' = registered \ {c}
  /\ UNCHANGED <<events, active>>

(* poll: each channel is reported once at most, and for something that it  *)
(* asked for or that is reported unasked.                                  *)
Poll ==
  /\ active' \subseteq UNION {{c} \X ((SUBSET (events[c] \cup Unasked)) \ {{}}) : c \in registered}
  /\ \A a, b \in active' : a[1] = b[1] => a = b
  /\ UNCHANGED <<registered, events>>

Next == (\E c \in Channels : Update(c) \/ Remove(c)) \/ Poll

Spec == Init /\ [][Next]_pollerVars
===============================================================================
