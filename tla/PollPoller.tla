------------------------------ MODULE PollPoller ------------------------------
(***************************************************************************)
(* poll_poller_t: the poller on poll(2).  Registered channels have a place *)
(* in the vector poll_fds_, which index_ of the channel gives; a channel   *)
(* that wants nothing keeps its place under a negative descriptor.  To     *)
(* remove one, its place is filled with the last pollfd of the vector.     *)
(*                                                                         *)
(* The asserts are part of the program: an action whose assert fails ends  *)
(* it, and aborted says in which function.  misused says whether callers   *)
(* of channel_t have done what poll_poller_t is not made for.              *)
(***************************************************************************)
EXTENDS Descriptors, Sequences, Functions

VARIABLES
  channels,    \* channels_: the channel of each descriptor
  index,       \* index_ of each channel
  events,      \* events_ of each channel
  pollFds,     \* poll_fds_
  active,      \* the last poll's active_channels, each with its revents_
  removed,     \* history: the channels that were removed
  misused,     \* history: one was registered again, or disabled first
  aborted      \* the function whose assert failed

vars == <<channels, index, events, pollFds, active, removed, misused, aborted>>

Fds == {Fd[c] : c \in Channels}

\* Faulty: descriptor 0 has no negative.
IgnoredNegative(fd) == -fd

\* The descriptor that poll(2) ignores, kept in place of fd.
Ignored(fd) == -fd - 1

PollFd == [fd : Fds \cup {-fd - 1 : fd \in Fds}, events : SUBSET Wanted]

TypeOK ==
  /\ channels \in [Fds -> Channels \cup {NoChannel}]
  /\ index \in [Channels -> Nat \cup {-1}]
  /\ events \in [Channels -> SUBSET Wanted]
  /\ pollFds \in Seq(PollFd)
  /\ active \subseteq Channels \X SUBSET (Wanted \cup Unasked)
  /\ removed \subseteq Channels
  /\ misused \in BOOLEAN
  /\ aborted \in {"no", "update_channel", "remove_channel"}

Init ==
  /\ channels = [fd \in Fds |-> NoChannel]
  /\ index = [c \in Channels |-> -1]
  /\ events = [c \in Channels |-> {}]
  /\ pollFds = <<>>
  /\ active = {}
  /\ removed = {}
  /\ misused = FALSE
  /\ aborted = "no"

-------------------------------------------------------------------------------
\* has_channel
HasChannel(c) == channels[Fd[c]] = c

\* What callers see to: a descriptor is closed only when its channel has been removed.
MayUpdate(c) ==
  /\ aborted = "no"
  /\ channels[Fd[c]] \in {c, NoChannel}

\* A channel comes back after remove(), or its first call is a disable_...().
Misuse(c, ev) == ~HasChannel(c) /\ (c \in removed \/ ev = {})

\* The place of c in poll_fds_, counted from 1 as sequences are.
Place(c) == index[c] + 1

\* update_channel of a channel without a place.
UpdateNew(c, ev) ==
  /\ MayUpdate(c)
  /\ index[c] < 0
  /\ events' = [events EXCEPT ![c] = ev]
  /\ pollFds' = Append(pollFds, [fd |-> Fd[c], events |-> ev])
  /\ index' = [index EXCEPT ![c] = Len(pollFds)]
  /\ channels' = [channels EXCEPT ![Fd[c]] = c]
  /\ misused' = (misused \/ Misuse(c, ev))
  /\ UNCHANGED <<active, removed, aborted>>

\* The asserts of update_channel on a channel that has a place.
UpdateAsserts(c) ==
  /\ HasChannel(c)
  /\ Place(c) \in DOMAIN pollFds
  /\ pollFds[Place(c)].fd \in {Fd[c], Ignored(Fd[c])}

\* The descriptor for a channel that has a place and wants ev.
WatchedFd(c, ev) == IF ev = {} THEN Ignored(Fd[c]) ELSE Fd[c]

\* update_channel of a channel with a place.
UpdateKnown(c, ev) ==
  /\ MayUpdate(c)
  /\ index[c] >= 0
  /\ UpdateAsserts(c)
  /\ events' = [events EXCEPT ![c] = ev]
  /\ pollFds' = [pollFds EXCEPT ![Place(c)] = [fd |-> WatchedFd(c, ev), events |-> ev]]
  /\ UNCHANGED <<channels, index, active, removed, misused, aborted>>

UpdateAborts(c, ev) ==
  /\ MayUpdate(c)
  /\ index[c] >= 0
  /\ ~UpdateAsserts(c)
  /\ aborted' = "update_channel"
  /\ misused' = (misused \/ Misuse(c, ev))
  /\ UNCHANGED <<channels, index, events, pollFds, active, removed>>

UpdateChannel(c) ==
  \E ev \in Changed(events[c]) :
    UpdateNew(c, ev) \/ UpdateKnown(c, ev) \/ UpdateAborts(c, ev)

\* channel_t::remove is called for a registered channel that wants nothing.
MayRemove(c) ==
  /\ aborted = "no"
  /\ HasChannel(c)
  /\ events[c] = {}

\* The asserts of remove_channel.
RemoveAsserts(c) ==
  /\ Place(c) \in DOMAIN pollFds
  /\ pollFds[Place(c)] = [fd |-> Ignored(Fd[c]), events |-> events[c]]

Last == pollFds[Len(pollFds)]

Front == SubSeq(pollFds, 1, Len(pollFds) - 1)

\* The descriptor under which channels_ knows the last pollfd.
ChannelAtEnd == IF Last.fd < 0 THEN -Last.fd - 1 ELSE Last.fd

\* Faulty: the channel at the end is moved and not told its new place.
IndexUntold(c) == index

(* index_ after the removal of c: the channel at the end has its place,    *)
(* and c itself keeps what it had.                                         *)
IndexAfterRemove(c) ==
  IF Place(c) = Len(pollFds) THEN index
  ELSE [index EXCEPT ![channels[ChannelAtEnd]] = index[c]]

\* remove_channel: the last pollfd takes the place.
RemoveChannel(c) ==
  /\ MayRemove(c)
  /\ RemoveAsserts(c)
  /\ channels' = [channels EXCEPT ![Fd[c]] = NoChannel]
  /\ pollFds' = IF Place(c) = Len(pollFds) THEN Front ELSE [Front EXCEPT ![Place(c)] = Last]
  /\ index' = IndexAfterRemove(c)
  /\ removed' = removed \cup {c}
  /\ UNCHANGED <<events, active, misused, aborted>>

RemoveAborts(c) ==
  /\ MayRemove(c)
  /\ ~RemoveAsserts(c)
  /\ aborted' = "remove_channel"
  /\ UNCHANGED <<channels, index, events, pollFds, active, removed, misused>>

\* The pollfds that poll(2) looks at.
PollFdsWatched == {pfd \in Range(pollFds) : pfd.fd >= 0}

\* Faulty: pollfds without revents are not passed over.
FillActiveChannelsAll(revents) == {<<channels[pfd.fd], revents[pfd]>> : pfd \in PollFdsWatched}

\* fill_active_channels looks up the channel of every pollfd with revents.
FillActiveChannels(revents) ==
  {<<channels[pfd.fd], revents[pfd]>> : pfd \in {p \in PollFdsWatched : revents[p] # {}}}

\* poll: revents are set to what happened of the events and what is reported unasked.
Poll ==
  /\ aborted = "no"
  /\ \E revents \in [PollFdsWatched -> SUBSET (Wanted \cup Unasked)] :
       /\ \A pfd \in PollFdsWatched : revents[pfd] \subseteq pfd.events \cup Unasked
       /\ active' = FillActiveChannels(revents)
  /\ UNCHANGED <<channels, index, events, pollFds, removed, misused, aborted>>

Next ==
  \/ \E c \in Channels : UpdateChannel(c) \/ RemoveChannel(c) \/ RemoveAborts(c)
  \/ Poll

Spec == Init /\ [][Next]_vars

-------------------------------------------------------------------------------
\* The channels in channels_.
Registered == {c \in Channels : HasChannel(c)}

(* The asserts on index_: every registered channel is found at its index,  *)
(* under its descriptor or the one poll(2) ignores, with the events it     *)
(* wants, whatever channels were removed and moved around it; and the      *)
(* vector holds no other pollfd.                                           *)
PlacesAgree ==
  /\ Len(pollFds) = Cardinality(Registered)
  /\ \A c \in Registered :
       /\ Place(c) \in DOMAIN pollFds
       /\ pollFds[Place(c)].fd \in {Fd[c], Ignored(Fd[c])}
       /\ pollFds[Place(c)].events = events[c]
  /\ \A c, d \in Registered : index[c] = index[d] => c = d

(* channels_, index_ and poll_fds_ agree on every channel.                 *)
PlacesConsistent == TypeOK /\ PlacesAgree

\* The asserts of update_channel hold.
UpdateAssertsHold == aborted # "update_channel"

\* The asserts of remove_channel hold.
RemoveAssertsHold == aborted # "remove_channel"

(* No assert of poll_poller_t fails, as long as callers never register a   *)
(* channel again after remove() nor disable one first.                     *)
AssertsHold == ~misused => UpdateAssertsHold /\ RemoveAssertsHold
===============================================================================
