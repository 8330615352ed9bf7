----------------------------- MODULE EpollPoller -----------------------------
(***************************************************************************)
(* epoll_poller_t: the poller on epoll(4).  A channel that wants nothing   *)
(* is taken out of the kernel's set and stays in channels_; index_ of the  *)
(* channel says which of the two it is in.  The kernel gives back the      *)
(* pointer that was registered with the descriptor, and at most as many    *)
(* events as the vector events_ has room for.                              *)
(***************************************************************************)
EXTENDS Descriptors

CONSTANT Capacity   \* k_init_event_list_size

ASSUME EpollAssumption == Capacity \in Nat \ {0}

VARIABLES
  channels,    \* channels_: the channel of each descriptor
  index,       \* index_ of each channel: k_new, k_added or k_deleted
  events,      \* events_ of each channel
  kernel,      \* the epoll set: data.ptr and events of each descriptor
  ready,       \* what the kernel sees on each descriptor
  capacity,    \* events_.size()
  active       \* the last poll's active_channels, each with its revents_

vars == <<channels, index, events, kernel, ready, capacity, active>>

Fds == {Fd[c] : c \in Channels}

Absent == [ptr |-> NoChannel, events |-> {}]
Entries == [ptr : Channels \cup {NoChannel}, events : SUBSET Wanted]

TypeOK ==
  /\ channels \in [Fds -> Channels \cup {NoChannel}]
  /\ index \in [Channels -> {"new", "added", "deleted"}]
  /\ events \in [Channels -> SUBSET Wanted]
  /\ kernel \in [Fds -> Entries]
  /\ ready \in [Fds -> SUBSET (Wanted \cup Unasked)]
  /\ capacity \in Nat \ {0}
  /\ active \subseteq Channels \X SUBSET (Wanted \cup Unasked)

Init ==
  /\ channels = [fd \in Fds |-> NoChannel]
  /\ index = [c \in Channels |-> "new"]
  /\ events = [c \in Channels |-> {}]
  /\ kernel = [fd \in Fds |-> Absent]
  /\ ready = [fd \in Fds |-> {}]
  /\ capacity = Capacity
  /\ active = {}

-------------------------------------------------------------------------------
\* has_channel
HasChannel(c) == channels[Fd[c]] = c

(* What callers see to, and assert(channels_.find(fd) == channels_.end())  *)
(* checks: a descriptor is closed only when its channel has been removed.  *)
MayUpdate(c) == index[c] = "new" => channels[Fd[c]] = NoChannel

\* update, with EPOLL_CTL_ADD or EPOLL_CTL_MOD
Control(c, ev) == kernel' = [kernel EXCEPT ![Fd[c]] = [ptr |-> c, events |-> ev]]

\* update, with EPOLL_CTL_DEL
Without(c) == [kernel EXCEPT ![Fd[c]] = Absent]

\* update_channel of a channel that is not in the epoll set, wanting ev.
UpdateAdd(c, ev) ==
  /\ MayUpdate(c)
  /\ index[c] \in {"new", "deleted"}
  /\ events' = [events EXCEPT ![c] = ev]
  /\ channels' = [channels EXCEPT ![Fd[c]] = c]
  /\ index' = [index EXCEPT ![c] = "added"]
  /\ Control(c, ev)
  /\ UNCHANGED <<ready, capacity, active>>

\* update_channel of a channel in the epoll set that wants nothing any more.
UpdateDelete(c) ==
  /\ index[c] = "added"
  /\ events' = [events EXCEPT ![c] = {}]
  /\ index' = [index EXCEPT ![c] = "deleted"]
  /\ kernel' = Without(c)
  /\ UNCHANGED <<channels, ready, capacity, active>>

\* update_channel of a channel in the epoll set.
UpdateModify(c, ev) ==
  /\ index[c] = "added"
  /\ ev # {}
  /\ events' = [events EXCEPT ![c] = ev]
  /\ Control(c, ev)
  /\ UNCHANGED <<channels, index, ready, capacity, active>>

UpdateChannel(c) ==
  \E ev \in Changed(events[c]) :
    UpdateAdd(c, ev) \/ (ev = {} /\ UpdateDelete(c)) \/ UpdateModify(c, ev)

\* Faulty: every channel is taken for one that left the epoll set.
KernelKept(c) == kernel

\* remove_channel takes a channel out of the epoll set, unless update_channel has done so.
KernelAfterRemove(c) == IF index[c] = "added" THEN Without(c) ELSE kernel

\* Faulty: index_ is left as it was.
IndexKept(c) == index[c]

\* index_ of a channel that was removed.
IndexAfterRemove(c) == "new"

(* remove_channel, called for a registered channel that wants nothing      *)
(* (channel_t::remove asserts it).                                         *)
RemoveChannel(c) ==
  /\ HasChannel(c)
  /\ events[c] = {}
  /\ channels' = [channels EXCEPT ![Fd[c]] = NoChannel]
  /\ kernel' = KernelAfterRemove(c)
  /\ index' = [index EXCEPT ![c] = IndexAfterRemove(c)]
  /\ UNCHANGED <<events, ready, capacity, active>>

\* Something happens on a file descriptor, or is over.
Happen ==
  /\ \E fd \in Fds, r \in SUBSET (Wanted \cup Unasked) : ready' = [ready EXCEPT ![fd] = r]
  /\ UNCHANGED <<channels, index, events, kernel, capacity, active>>

\* What epoll_wait can report of a descriptor.
Occurred(fd) == ready[fd] \cap (kernel[fd].events \cup Unasked)

\* The descriptors epoll_wait can report.
Reportable == {fd \in Fds : kernel[fd] # Absent /\ Occurred(fd) # {}}

\* Faulty: events_ never grows.
RoomFixed(n) == capacity

\* events_ doubles when epoll_wait has filled it.
RoomAfter(n) == IF n = capacity THEN 2 * capacity ELSE capacity

\* fill_active_channels takes the pointers and the events from events_.
FillActiveChannels(S) == {<<kernel[fd].ptr, Occurred(fd)>> : fd \in S}

\* poll: epoll_wait fills events_ with some of the descriptors it can report.
Poll ==
  /\ \E S \in SUBSET Reportable :
       /\ Cardinality(S) = Cardinality(Reportable) \/ Cardinality(S) = capacity
       /\ Cardinality(S) <= capacity
       /\ active' = FillActiveChannels(S)
       /\ capacity' = RoomAfter(Cardinality(S))
  /\ UNCHANGED <<channels, index, events, kernel, ready>>

Next ==
  \/ \E c \in Channels : UpdateChannel(c) \/ RemoveChannel(c)
  \/ Happen
  \/ Poll

Spec == Init /\ [][Next]_vars

-------------------------------------------------------------------------------
(* The asserts of update_channel and remove_channel: index_ says truly     *)
(* whether the channel is registered, however often it was disabled,       *)
(* enabled again, removed and added again.                                 *)
IndexAgrees ==
  \A c \in Channels :
    /\ index[c] # "new" <=> HasChannel(c)
    /\ index[c] \in {"new", "deleted"} => events[c] = {}

(* The kernel watches what the channels want: a descriptor is in the epoll *)
(* set exactly if its channel is k_added, with that channel's pointer and  *)
(* events.  So no epoll_ctl fails, and epoll_wait never returns a pointer  *)
(* to a channel that was removed, even if its descriptor is used again.    *)
KernelAgrees ==
  \A fd \in Fds :
    LET c == channels[fd] IN
      kernel[fd] = IF c # NoChannel /\ index[c] = "added"
                     THEN [ptr |-> c, events |-> events[c]] ELSE Absent

(* index_, channels_ and the kernel's epoll set agree on every channel.    *)
EpollConsistent == TypeOK /\ IndexAgrees /\ KernelAgrees
===============================================================================
