----------------------------- MODULE PollerProofs -----------------------------
(***************************************************************************)
(* What new_default_poller gives, for any channels, descriptors and        *)
(* events: what each of the two pollers keeps of its channels agrees, and  *)
(* each implements the promise of poller_t.                                *)
(***************************************************************************)
EXTENDS DefaultPoller, FiniteSetTheorems, SequenceTheorems, TLAPS

-------------------------------------------------------------------------------
(* epoll_poller_t                                                          *)

\* channels_ knows a channel under its own descriptor only.
EpollKeyed == \A fd \in Fds : channels[fd] # NoChannel => Fd[channels[fd]] = fd

\* The inductive invariant of epoll_poller_t.
EpollInv == TypeOK /\ EpollKeyed /\ IndexAgrees /\ KernelAgrees

\* The channels that either poller has in channels_.
Known == {c \in DOMAIN events : channels[Fd[c]] = c}

LEMMA EpollInit == Init => EpollInv
<1> SUFFICES ASSUME Init PROVE EpollInv
  OBVIOUS
<1>1. \A c \in Channels : Fd[c] \in Fds
  BY DEF Fds
<1>2. TypeOK
  BY EpollAssumption DEF Init, TypeOK, Entries, Absent
<1>3. EpollKeyed /\ IndexAgrees /\ KernelAgrees
  BY <1>1, DescriptorAssumption DEF Init, EpollKeyed, IndexAgrees, KernelAgrees, HasChannel
<1> QED
  BY <1>2, <1>3 DEF EpollInv

\* A descriptor that a step does not touch, nor its channel.
LEMMA EntryKept ==
  ASSUME EpollInv, NEW fd \in Fds,
         channels'[fd] = channels[fd], kernel'[fd] = kernel[fd],
         channels[fd] # NoChannel => /\ index'[channels[fd]] = index[channels[fd]]
                                     /\ events'[channels[fd]] = events[channels[fd]]
  PROVE  kernel'[fd] = IF channels'[fd] # NoChannel /\ index'[channels'[fd]] = "added"
                       THEN [ptr |-> channels'[fd], events |-> events'[channels'[fd]]]
                       ELSE Absent
<1>1. kernel[fd] = IF channels[fd] # NoChannel /\ index[channels[fd]] = "added"
                   THEN [ptr |-> channels[fd], events |-> events[channels[fd]]]
                   ELSE Absent
  BY DEF EpollInv, KernelAgrees
<1>2. CASE channels[fd] = NoChannel
  BY <1>1, <1>2
<1>3. CASE channels[fd] # NoChannel
  BY <1>1, <1>3
<1> QED
  BY <1>2, <1>3

\* Registration, new or again: the descriptor is the channel's from now on.
LEMMA EpollAdds ==
  ASSUME EpollInv, NEW c \in Channels, NEW ev \in SUBSET Wanted, UpdateAdd(c, ev)
  PROVE  EpollInv'
<1> USE DEF EpollInv
<1>1. /\ Fd[c] \in Fds
      /\ channels[Fd[c]] \in {c, NoChannel}
  BY DEF Fds, UpdateAdd, MayUpdate, IndexAgrees, HasChannel
<1>2. TypeOK'
  BY <1>1 DEF UpdateAdd, TypeOK, Control, Entries
<1>3. EpollKeyed'
  BY <1>1 DEF UpdateAdd, TypeOK, EpollKeyed
<1>4. IndexAgrees'
  <2> SUFFICES ASSUME NEW d \in Channels
               PROVE  /\ index'[d] # "new" <=> channels'[Fd[d]] = d
                      /\ index'[d] \in {"new", "deleted"} => events'[d] = {}
    BY DEF IndexAgrees, HasChannel
  <2>1. Fd[d] \in Fds
    BY DEF Fds
  <2>2. CASE d = c
    BY <1>1, <2>2 DEF UpdateAdd, TypeOK
  <2>3. CASE d # c
    <3>1. index'[d] = index[d] /\ events'[d] = events[d]
      BY <2>3 DEF UpdateAdd, TypeOK
    <3>2. channels'[Fd[d]] = d <=> channels[Fd[d]] = d
      <4>1. CASE Fd[d] = Fd[c]
        BY <1>1, <2>1, <2>3, <4>1, DescriptorAssumption DEF UpdateAdd, TypeOK
      <4>2. CASE Fd[d] # Fd[c]
        BY <2>1, <4>2 DEF UpdateAdd, TypeOK
      <4> QED
        BY <4>1, <4>2
    <3> QED
      BY <3>1, <3>2 DEF IndexAgrees, HasChannel
  <2> QED
    BY <2>2, <2>3
<1>5. KernelAgrees'
  <2> SUFFICES ASSUME NEW fd \in Fds
               PROVE  kernel'[fd] = IF channels'[fd] # NoChannel /\ index'[channels'[fd]] = "added"
                                    THEN [ptr |-> channels'[fd], events |-> events'[channels'[fd]]]
                                    ELSE Absent
    BY DEF KernelAgrees
  <2>1. CASE fd = Fd[c]
    <3>1. channels'[fd] = c /\ index'[c] = "added" /\ events'[c] = ev
      BY <2>1 DEF UpdateAdd, TypeOK
    <3>2. kernel'[fd] = [ptr |-> c, events |-> ev]
      BY <2>1 DEF UpdateAdd, TypeOK, Control
    <3> QED
      BY <3>1, <3>2, DescriptorAssumption
  <2>2. CASE fd # Fd[c]
    <3>1. channels'[fd] = channels[fd] /\ kernel'[fd] = kernel[fd]
      BY <2>2 DEF UpdateAdd, TypeOK, Control
    <3>2. channels[fd] # NoChannel => channels[fd] \in Channels \ {c}
      BY <2>2 DEF TypeOK, EpollKeyed
    <3>3. \A d \in Channels \ {c} : index'[d] = index[d] /\ events'[d] = events[d]
      BY DEF UpdateAdd, TypeOK
    <3> QED
      BY <3>1, <3>2, <3>3, EntryKept
  <2> QED
    BY <2>1, <2>2
<1> QED
  BY <1>2, <1>3, <1>4, <1>5

\* A registered channel is changed, and stays registered.
LEMMA EpollChanges ==
  ASSUME EpollInv, NEW c \in Channels, NEW ev \in SUBSET Wanted,
         (ev = {} /\ UpdateDelete(c)) \/ UpdateModify(c, ev)
  PROVE  EpollInv'
<1> USE DEF EpollInv
<1>1. Fd[c] \in Fds /\ channels[Fd[c]] = c /\ index[c] = "added"
  BY DEF Fds, UpdateDelete, UpdateModify, IndexAgrees, HasChannel
<1>2. /\ channels' = channels /\ ready' = ready /\ capacity' = capacity /\ active' = active
      /\ events' = [events EXCEPT ![c] = ev]
      /\ index' \in [Channels -> {"new", "added", "deleted"}]
      /\ \A d \in Channels \ {c} : index'[d] = index[d]
      /\ index'[c] = IF ev = {} THEN "deleted" ELSE "added"
      /\ kernel' = [kernel EXCEPT ![Fd[c]] =
                      IF ev = {} THEN Absent ELSE [ptr |-> c, events |-> ev]]
  BY <1>1 DEF UpdateDelete, UpdateModify, TypeOK, Control, Without
<1>3. TypeOK'
  BY <1>1, <1>2 DEF TypeOK, Entries, Absent
<1>4. EpollKeyed'
  BY <1>2 DEF EpollKeyed
<1>5. IndexAgrees'
  BY <1>1, <1>2 DEF TypeOK, IndexAgrees, HasChannel
<1>6. KernelAgrees'
  <2> SUFFICES ASSUME NEW fd \in Fds
               PROVE  kernel'[fd] = IF channels'[fd] # NoChannel /\ index'[channels'[fd]] = "added"
                                    THEN [ptr |-> channels'[fd], events |-> events'[channels'[fd]]]
                                    ELSE Absent
    BY DEF KernelAgrees
  <2>1. CASE fd = Fd[c]
    <3>1. channels'[fd] = c /\ events'[c] = ev
      BY <1>1, <1>2, <2>1 DEF TypeOK
    <3>2. kernel'[fd] = IF ev = {} THEN Absent ELSE [ptr |-> c, events |-> ev]
      BY <1>1, <1>2, <2>1 DEF TypeOK
    <3> QED
      BY <1>2, <3>1, <3>2, DescriptorAssumption
  <2>2. CASE fd # Fd[c]
    <3>1. kernel'[fd] = kernel[fd]
      BY <1>2, <2>2 DEF TypeOK
    <3>2. channels[fd] # NoChannel => channels[fd] \in Channels \ {c}
      BY <2>2 DEF TypeOK, EpollKeyed
    <3>3. \A d \in Channels \ {c} : events'[d] = events[d]
      BY <1>2 DEF TypeOK
    <3> QED
      BY <1>2, <3>1, <3>2, <3>3, EntryKept
  <2> QED
    BY <2>1, <2>2
<1> QED
  BY <1>3, <1>4, <1>5, <1>6

\* A registered channel goes, whether it is in the epoll set or not.
LEMMA EpollRemoves ==
  ASSUME EpollInv, NEW c \in Channels, RemoveChannel(c)
  PROVE  EpollInv'
<1> USE DEF EpollInv
<1>1. Fd[c] \in Fds /\ channels[Fd[c]] = c /\ events[c] = {} /\ c # NoChannel
  BY DescriptorAssumption DEF Fds, RemoveChannel, HasChannel
<1>2. kernel' = [kernel EXCEPT ![Fd[c]] = Absent]
  BY <1>1 DEF RemoveChannel, KernelAfterRemove, Without, TypeOK, KernelAgrees
<1>3. TypeOK'
  BY <1>1, <1>2 DEF RemoveChannel, IndexAfterRemove, TypeOK, Entries, Absent
<1>4. EpollKeyed'
  BY <1>1 DEF RemoveChannel, TypeOK, EpollKeyed
<1>5. IndexAgrees'
  <2> SUFFICES ASSUME NEW d \in Channels
               PROVE  /\ index'[d] # "new" <=> channels'[Fd[d]] = d
                      /\ index'[d] \in {"new", "deleted"} => events'[d] = {}
    BY DEF IndexAgrees, HasChannel
  <2>1. Fd[d] \in Fds /\ d # NoChannel
    BY DescriptorAssumption DEF Fds
  <2>2. CASE d = c
    BY <1>1, <2>1, <2>2 DEF RemoveChannel, IndexAfterRemove, TypeOK
  <2>3. CASE d # c
    <3>1. index'[d] = index[d] /\ events'[d] = events[d]
      BY <2>3 DEF RemoveChannel, TypeOK
    <3>2. channels'[Fd[d]] = d <=> channels[Fd[d]] = d
      BY <1>1, <2>1, <2>3 DEF RemoveChannel, TypeOK
    <3> QED
      BY <3>1, <3>2 DEF IndexAgrees, HasChannel
  <2> QED
    BY <2>2, <2>3
<1>6. KernelAgrees'
  <2> SUFFICES ASSUME NEW fd \in Fds
               PROVE  kernel'[fd] = IF channels'[fd] # NoChannel /\ index'[channels'[fd]] = "added"
                                    THEN [ptr |-> channels'[fd], events |-> events'[channels'[fd]]]
                                    ELSE Absent
    BY DEF KernelAgrees
  <2>1. CASE fd = Fd[c]
    BY <1>1, <1>2, <2>1 DEF RemoveChannel, TypeOK
  <2>2. CASE fd # Fd[c]
    <3>1. channels'[fd] = channels[fd] /\ kernel'[fd] = kernel[fd] /\ events' = events
      BY <1>2, <2>2 DEF RemoveChannel, TypeOK
    <3>2. channels[fd] # NoChannel => channels[fd] \in Channels \ {c}
      BY <2>2 DEF TypeOK, EpollKeyed
    <3>3. \A d \in Channels \ {c} : index'[d] = index[d]
      BY DEF RemoveChannel, TypeOK
    <3> QED
      BY <3>1, <3>2, <3>3, EntryKept
  <2> QED
    BY <2>1, <2>2
<1> QED
  BY <1>3, <1>4, <1>5, <1>6

\* What epoll_wait reports, and poll takes from it.
LEMMA EpollReports ==
  ASSUME EpollInv, NEW fd \in Reportable
  PROVE  /\ channels[fd] \in Known
         /\ kernel[fd].ptr = channels[fd]
         /\ Fd[channels[fd]] = fd
         /\ Occurred(fd) \in (SUBSET (events[channels[fd]] \cup Unasked)) \ {{}}
         /\ Occurred(fd) \in SUBSET (Wanted \cup Unasked)
<1>1. /\ channels[fd] # NoChannel
      /\ kernel[fd] = [ptr |-> channels[fd], events |-> events[channels[fd]]]
  BY DEF Reportable, EpollInv, KernelAgrees
<1>2. channels[fd] \in Channels /\ Fd[channels[fd]] = fd /\ DOMAIN events = Channels
  BY <1>1 DEF EpollInv, EpollKeyed, TypeOK, Reportable
<1>3. channels[fd] \in Known
  BY <1>2 DEF Known
<1>4. Occurred(fd) \in (SUBSET (events[channels[fd]] \cup Unasked)) \ {{}}
  <2>1. kernel[fd].events = events[channels[fd]]
    BY <1>1
  <2>2. Occurred(fd) # {}
    BY DEF Reportable
  <2>3. Occurred(fd) \subseteq events[channels[fd]] \cup Unasked
    BY <2>1 DEF Occurred
  <2> QED
    BY <2>2, <2>3
<1>5. Occurred(fd) \in SUBSET (Wanted \cup Unasked)
  BY <1>2, <1>4 DEF EpollInv, TypeOK
<1> QED
  BY <1>1, <1>2, <1>3, <1>4, <1>5

LEMMA EpollPollKeeps == EpollInv /\ (Happen \/ Poll) => EpollInv'
<1> SUFFICES ASSUME EpollInv, Happen \/ Poll PROVE EpollInv'
  OBVIOUS
<1>1. UNCHANGED <<channels, index, events, kernel>>
  BY DEF Happen, Poll
<1>2. TypeOK'
  <2>1. CASE Happen
    BY <2>1 DEF Happen, EpollInv, TypeOK
  <2>2. CASE Poll
    <3>1. PICK S \in SUBSET Reportable :
            /\ active' = FillActiveChannels(S)
            /\ capacity' = RoomAfter(Cardinality(S))
      BY <2>2 DEF Poll
    <3>2. active' \subseteq Channels \X SUBSET (Wanted \cup Unasked)
      BY <3>1, EpollReports DEF FillActiveChannels, Known, EpollInv, TypeOK
    <3>3. capacity' \in Nat \ {0}
      BY <3>1 DEF RoomAfter, EpollInv, TypeOK
    <3> QED
      BY <2>2, <3>2, <3>3 DEF Poll, EpollInv, TypeOK
  <2> QED
    BY <2>1, <2>2
<1> QED
  BY <1>1, <1>2 DEF EpollInv, EpollKeyed, IndexAgrees, HasChannel, KernelAgrees

\* The sets of events that the calls of channel_t can make of a set of events.
LEMMA ChangedWanted == \A ev \in SUBSET Wanted : Changed(ev) \subseteq SUBSET Wanted
  BY DEF Changed

LEMMA EpollNext == EpollInv /\ [Next]_vars => EpollInv'
<1> SUFFICES ASSUME EpollInv, [Next]_vars PROVE EpollInv'
  OBVIOUS
<1>1. ASSUME NEW c \in Channels, UpdateChannel(c) PROVE EpollInv'
  <2>1. PICK ev \in Changed(events[c]) :
          UpdateAdd(c, ev) \/ (ev = {} /\ UpdateDelete(c)) \/ UpdateModify(c, ev)
    BY <1>1 DEF UpdateChannel
  <2>2. ev \in SUBSET Wanted
    BY ChangedWanted DEF EpollInv, TypeOK
  <2> QED
    BY <2>1, <2>2, EpollAdds, EpollChanges
<1>2. ASSUME NEW c \in Channels, RemoveChannel(c) PROVE EpollInv'
  BY <1>2, EpollRemoves
<1>3. CASE Happen \/ Poll
  BY <1>3, EpollPollKeeps
<1>4. CASE UNCHANGED vars
  BY <1>4 DEF vars, EpollInv, TypeOK, EpollKeyed, IndexAgrees, HasChannel, KernelAgrees
<1> QED
  BY <1>1, <1>2, <1>3, <1>4 DEF Next

-------------------------------------------------------------------------------
(* epoll_poller_t implements poller_t                                      *)

\* The events of all channels, as the promise has them.
Asked == [c \in PollChannels |-> IF c \in DOMAIN events THEN events[c] ELSE {}]

\* What Promise has for its variables.
LEMMA PromiseVars ==
  UNCHANGED <<Known, Asked, active>> => UNCHANGED Promise!pollerVars
  BY DEF Promise!pollerVars, Known, Asked

(* A step that registers c, or finds it registered, and changes its events *)
(* is an Update of the promise.                                            *)
LEMMA UpdatePromised ==
  ASSUME NEW c \in PollChannels, NEW ev \in Changed(Asked[c]),
         \A d \in Known : Fd[d] = Fd[c] => d = c,
         Known' = Known \cup {c}, Asked' = [Asked EXCEPT ![c] = ev], active' = active
  PROVE  Promise!Next
<1>1. Promise!Sole(c)
  BY DEF Promise!Sole, Known
<1>2. Changed(Asked[c]) = Promise!Changed(Asked[c])
  BY DEF Changed, Promise!Changed
<1>3. Promise!Update(c)
  <2>1. \E e \in Promise!Changed(Asked[c]) : Asked' = [Asked EXCEPT ![c] = e]
    BY <1>2
  <2> QED
    BY <1>1, <2>1 DEF Promise!Update, Known, Asked
<1> QED
  BY <1>3 DEF Promise!Next

LEMMA RemovePromised ==
  ASSUME NEW c \in PollChannels, c \in Known, Asked[c] = {},
         Known' = Known \ {c}, Asked' = Asked, active' = active
  PROVE  Promise!Next
<1>1. Promise!Remove(c)
  BY DEF Promise!Remove, Known, Asked
<1> QED
  BY <1>1 DEF Promise!Next

LEMMA PollPromised ==
  ASSUME \A a \in active' : /\ a = <<a[1], a[2]>>
                            /\ a[1] \in Known
                            /\ a[2] \in (SUBSET (Asked[a[1]] \cup Unasked)) \ {{}},
         \A a, b \in active' : a[1] = b[1] => a = b,
         Known' = Known, Asked' = Asked
  PROVE  Promise!Next
<1>1. \A a \in active' :
        a \in UNION {{c} \X ((SUBSET (Asked[c] \cup Unasked)) \ {{}}) : c \in Known}
  <2> TAKE a \in active'
  <2>1. a \in {a[1]} \X ((SUBSET (Asked[a[1]] \cup Unasked)) \ {{}})
    OBVIOUS
  <2> QED
    BY <2>1
<1>2. Promise!Poll
  BY <1>1 DEF Promise!Poll, Known, Asked
<1> QED
  BY <1>2 DEF Promise!Next

\* What has to be known of a step that changes the events of one channel.
LEMMA EpollUpdatePromised ==
  ASSUME EpollInv, EpollInv', NEW c \in Channels, NEW ev \in Changed(events[c]),
         channels' = [channels EXCEPT ![Fd[c]] = c], events' = [events EXCEPT ![c] = ev],
         channels[Fd[c]] \in {c, NoChannel}, active' = active
  PROVE  Promise!Next
<1>1. /\ c \in PollChannels /\ c # NoChannel /\ Fd[c] \in Fds
      /\ DOMAIN events = Channels /\ DOMAIN events' = Channels
  BY ChoiceAssumption, DescriptorAssumption DEF EpollInv, TypeOK, Fds
<1>2. Asked[c] = events[c]
  BY <1>1 DEF Asked
<1>3. \A d \in Known : Fd[d] = Fd[c] => d = c
  BY <1>1, DescriptorAssumption DEF Known
<1>4. Known' = Known \cup {c}
  <2>1. \A d \in Channels : channels'[Fd[d]] = d <=> channels[Fd[d]] = d \/ d = c
    <3> TAKE d \in Channels
    <3>1. Fd[d] \in Fds /\ d # NoChannel
      BY DescriptorAssumption DEF Fds
    <3> QED
      BY <1>1, <3>1 DEF EpollInv, TypeOK
  <2> QED
    BY <1>1, <2>1 DEF Known
<1>5. Asked' = [Asked EXCEPT ![c] = ev]
  BY <1>1 DEF Asked
<1> QED
  BY <1>1, <1>2, <1>3, <1>4, <1>5, UpdatePromised

LEMMA EpollStepPromised ==
  EpollInv /\ EpollInv' /\ [Next]_vars => [Promise!Next]_(Promise!pollerVars)
<1> SUFFICES ASSUME EpollInv, EpollInv', [Next]_vars
             PROVE  Promise!Next \/ UNCHANGED <<Known, Asked, active>>
  BY PromiseVars
<1>1. /\ DOMAIN events = Channels
      /\ \A c \in Channels : c \in PollChannels /\ c # NoChannel /\ Fd[c] \in Fds /\ Asked[c] = events[c]
  BY ChoiceAssumption, DescriptorAssumption DEF EpollInv, TypeOK, Fds, Asked
<1>2. ASSUME NEW c \in Channels, UpdateChannel(c) PROVE Promise!Next
  <2>1. PICK ev \in Changed(events[c]) :
          UpdateAdd(c, ev) \/ (ev = {} /\ UpdateDelete(c)) \/ UpdateModify(c, ev)
    BY <1>2 DEF UpdateChannel
  <2>2. channels[Fd[c]] \in {c, NoChannel}
    BY <2>1 DEF UpdateAdd, MayUpdate, UpdateDelete, UpdateModify, EpollInv, IndexAgrees, HasChannel
  <2>3. channels' = [channels EXCEPT ![Fd[c]] = c]
    <3>1. CASE UpdateAdd(c, ev)
      BY <3>1 DEF UpdateAdd
    <3>2. CASE UpdateDelete(c) \/ UpdateModify(c, ev)
      <4>1. channels' = channels /\ channels[Fd[c]] = c
        BY <3>2 DEF UpdateDelete, UpdateModify, EpollInv, IndexAgrees, HasChannel
      <4> QED
        BY <1>1, <4>1 DEF EpollInv, TypeOK
    <3> QED
      BY <2>1, <3>1, <3>2
  <2>4. events' = [events EXCEPT ![c] = ev] /\ active' = active
    BY <2>1 DEF UpdateAdd, UpdateDelete, UpdateModify
  <2> QED
    BY <2>2, <2>3, <2>4, EpollUpdatePromised
<1>3. ASSUME NEW c \in Channels, RemoveChannel(c) PROVE Promise!Next
  <2>1. /\ channels[Fd[c]] = c /\ events[c] = {} /\ events' = events /\ active' = active
        /\ channels' = [channels EXCEPT ![Fd[c]] = NoChannel]
    BY <1>3 DEF RemoveChannel, HasChannel
  <2>2. c \in Known /\ Asked' = Asked
    BY <1>1, <2>1 DEF Known, Asked
  <2>3. Known' = Known \ {c}
    <3>1. \A d \in Channels : channels'[Fd[d]] = d <=> channels[Fd[d]] = d /\ d # c
      BY <1>1, <2>1 DEF EpollInv, TypeOK
    <3> QED
      BY <1>1, <2>1, <3>1 DEF Known
  <2> QED
    BY <1>1, <2>1, <2>2, <2>3, RemovePromised
<1>4. CASE Happen
  BY <1>4 DEF Happen, Known, Asked
<1>5. CASE Poll
  <2>1. PICK S \in SUBSET Reportable : active' = FillActiveChannels(S)
    BY <1>5 DEF Poll
  <2>2. UNCHANGED <<channels, events>>
    BY <1>5 DEF Poll
  <2>3. \A fd \in S : /\ channels[fd] \in Known
                      /\ kernel[fd].ptr = channels[fd]
                      /\ Fd[channels[fd]] = fd
                      /\ Occurred(fd) \in (SUBSET (events[channels[fd]] \cup Unasked)) \ {{}}
    BY <2>1, EpollReports
  <2>4. \A a \in active' : /\ a = <<a[1], a[2]>>
                           /\ a[1] \in Known
                           /\ a[2] \in (SUBSET (Asked[a[1]] \cup Unasked)) \ {{}}
    <3> TAKE a \in active'
    <3>1. PICK fd \in S : a = <<kernel[fd].ptr, Occurred(fd)>>
      BY <2>1 DEF FillActiveChannels
    <3>2. channels[fd] \in Channels
      BY <1>1, <2>3 DEF Known
    <3> QED
      BY <1>1, <2>3, <3>1, <3>2
  <2>5. \A a, b \in active' : a[1] = b[1] => a = b
    BY <2>1, <2>3 DEF FillActiveChannels
  <2>6. Known' = Known /\ Asked' = Asked
    BY <2>2 DEF Known, Asked
  <2> QED
    BY <2>4, <2>5, <2>6, PollPromised
<1>6. CASE UNCHANGED vars
  BY <1>6 DEF vars, Known, Asked
<1> QED
  BY <1>2, <1>3, <1>4, <1>5, <1>6 DEF Next

-------------------------------------------------------------------------------
(* poll_poller_t                                                           *)

\* channels_ knows a channel under its own descriptor only.
PollKeyed == \A fd \in PollImpl!Fds : channels[fd] # NoChannel => Fd[channels[fd]] = fd

\* Every registered channel has a place.
Placed ==
  \A c \in Known :
    /\ PollImpl!Place(c) \in DOMAIN pollFds
    /\ pollFds[PollImpl!Place(c)].fd \in {Fd[c], PollImpl!Ignored(Fd[c])}
    /\ pollFds[PollImpl!Place(c)].events = events[c]

\* No two of them have the same.
PlacesApart == \A c, d \in Known : index[c] = index[d] => c = d

\* There are no other places.
PlacesTaken == \A i \in DOMAIN pollFds : \E c \in Known : PollImpl!Place(c) = i

(* As long as callers do what poll_poller_t is made for, the only channels *)
(* with an old index_ are those that were removed, for good, and a pollfd  *)
(* has a negative descriptor exactly if its channel wants nothing.         *)
UsedWell ==
  /\ \A c \in PollChannels : index[c] >= 0 => c \in Known \cup removed
  /\ removed \cap Known = {}
  /\ \A c \in Known : pollFds[PollImpl!Place(c)].fd = PollImpl!WatchedFd(c, events[c])
  /\ aborted = "no"

\* The inductive invariant of poll_poller_t.
PollInv ==
  /\ PollImpl!TypeOK
  /\ PollKeyed
  /\ Placed
  /\ PlacesApart
  /\ PlacesTaken
  /\ ~misused => UsedWell

\* What the types say of a channel.
LEMMA PollTypes ==
  ASSUME PollInv, NEW c \in PollChannels
  PROVE  /\ c # NoChannel /\ Fd[c] \in Nat /\ Fd[c] \in PollImpl!Fds
         /\ index[c] \in Int /\ PollImpl!Place(c) \in Int
         /\ events[c] \in SUBSET Wanted
         /\ DOMAIN events = PollChannels
         /\ c \in Known <=> PollImpl!HasChannel(c)
<1>1. c # NoChannel /\ Fd[c] \in Nat /\ Fd[c] \in PollImpl!Fds
  BY ChoiceAssumption DEF PollImpl!Fds
<1>2. index[c] \in Int /\ PollImpl!Place(c) \in Int
  BY DEF PollInv, PollImpl!TypeOK, PollImpl!Place
<1>3. events[c] \in SUBSET Wanted /\ DOMAIN events = PollChannels
  BY DEF PollInv, PollImpl!TypeOK
<1>4. c \in Known <=> PollImpl!HasChannel(c)
  BY <1>3 DEF Known, PollImpl!HasChannel
<1> QED
  BY <1>1, <1>2, <1>3, <1>4

LEMMA PollInit == PollImpl!Init => PollInv
<1> SUFFICES ASSUME PollImpl!Init PROVE PollInv
  OBVIOUS
<1>1. Known = {}
  <2>1. \A c \in PollChannels : Fd[c] \in PollImpl!Fds /\ c # NoChannel
    BY ChoiceAssumption DEF PollImpl!Fds
  <2> QED
    BY <2>1 DEF PollImpl!Init, Known
<1>2. PollImpl!TypeOK
  <2>1. pollFds \in Seq(PollImpl!PollFd)
    BY DEF PollImpl!Init
  <2>2. index \in [PollChannels -> Nat \cup {-1}]
    BY DEF PollImpl!Init
  <2> QED
    BY <2>1, <2>2 DEF PollImpl!Init, PollImpl!TypeOK
<1>3. PollKeyed /\ Placed /\ PlacesApart /\ PlacesTaken
  BY <1>1 DEF PollImpl!Init, PollKeyed, Placed, PlacesApart, PlacesTaken
<1>4. UsedWell
  BY <1>1 DEF PollImpl!Init, UsedWell
<1> QED
  BY <1>2, <1>3, <1>4 DEF PollInv

\* A channel gets a place at the end.
LEMMA PollAdds ==
  ASSUME PollInv, NEW c \in PollChannels, NEW ev \in SUBSET Wanted, PollImpl!UpdateNew(c, ev)
  PROVE  PollInv' /\ c \notin Known /\ Known' = Known \cup {c}
<1> DEFINE n == Len(pollFds)
<1>1. /\ pollFds \in Seq(PollImpl!PollFd) /\ n \in Nat /\ DOMAIN pollFds = 1..n
      /\ index[c] < 0
      /\ channels[Fd[c]] \in {c, NoChannel}
      /\ events' = [events EXCEPT ![c] = ev]
      /\ index' = [index EXCEPT ![c] = n]
      /\ channels' = [channels EXCEPT ![Fd[c]] = c]
  BY DEF PollInv, PollImpl!TypeOK, PollImpl!UpdateNew, PollImpl!MayUpdate
<1>2. c \notin Known /\ channels[Fd[c]] = NoChannel
  <2>1. c \notin Known
    BY <1>1, PollTypes DEF PollInv, Placed, PollImpl!Place
  <2> QED
    BY <1>1, <2>1, PollTypes DEF PollImpl!HasChannel
<1>3. /\ pollFds' \in Seq(PollImpl!PollFd)
      /\ DOMAIN pollFds' = 1..(n + 1)
      /\ pollFds'[n + 1] = [fd |-> Fd[c], events |-> ev]
      /\ \A i \in 1..n : pollFds'[i] = pollFds[i]
  <2>1. [fd |-> Fd[c], events |-> ev] \in PollImpl!PollFd
    BY PollTypes DEF PollImpl!PollFd
  <2>2. pollFds' = Append(pollFds, [fd |-> Fd[c], events |-> ev])
    BY DEF PollImpl!UpdateNew
  <2> QED
    BY <1>1, <2>1, <2>2
<1>4. PollImpl!TypeOK'
  BY <1>1, <1>3, PollTypes DEF PollInv, PollImpl!TypeOK, PollImpl!UpdateNew
<1>5. PollKeyed'
  BY <1>1, PollTypes DEF PollInv, PollImpl!TypeOK, PollKeyed
<1>6. Known' = Known \cup {c}
  <2>1. \A d \in PollChannels : channels'[Fd[d]] = d <=> channels[Fd[d]] = d \/ d = c
    <3> TAKE d \in PollChannels
    <3>1. CASE Fd[d] = Fd[c]
      BY <1>1, <1>2, <3>1, PollTypes DEF PollInv, PollImpl!TypeOK
    <3>2. CASE Fd[d] # Fd[c]
      BY <1>1, <1>2, <3>2, PollTypes DEF PollInv, PollImpl!TypeOK
    <3> QED
      BY <3>1, <3>2
  <2>2. DOMAIN events = PollChannels /\ DOMAIN events' = PollChannels
    BY <1>1 DEF PollInv, PollImpl!TypeOK
  <2> QED
    BY <2>1, <2>2 DEF Known
<1>7. /\ index'[c] = n /\ events'[c] = ev
      /\ \A d \in Known : d # c /\ d \in PollChannels /\ index'[d] = index[d] /\ events'[d] = events[d]
  BY <1>1, <1>2 DEF PollInv, PollImpl!TypeOK, Known
<1>8. \A d \in Known : index[d] \in 0..(n - 1)
  <2> TAKE d \in Known
  <2>1. index[d] \in Int /\ index[d] + 1 \in 1..n
    BY <1>1, <1>7, PollTypes DEF PollInv, Placed, PollImpl!Place
  <2> QED
    BY <1>1, <2>1
<1>9. Placed'
  <2> SUFFICES ASSUME NEW d \in Known'
               PROVE  /\ index'[d] + 1 \in DOMAIN pollFds'
                      /\ pollFds'[index'[d] + 1].fd \in {Fd[d], PollImpl!Ignored(Fd[d])}
                      /\ pollFds'[index'[d] + 1].events = events'[d]
    BY DEF Placed, PollImpl!Place, PollImpl!Ignored
  <2>1. CASE d = c
    BY <1>1, <1>3, <1>7, <2>1
  <2>2. CASE d \in Known
    <3>1. index[d] + 1 \in 1..n /\ index'[d] + 1 \in 1..(n + 1)
      BY <1>1, <1>7, <1>8, <2>2
    <3>2. pollFds'[index'[d] + 1] = pollFds[index[d] + 1]
      BY <1>3, <1>7, <2>2, <3>1
    <3> QED
      BY <1>3, <1>7, <2>2, <3>1, <3>2 DEF PollInv, Placed, PollImpl!Place
  <2> QED
    BY <1>6, <2>1, <2>2
<1>10. PlacesApart'
  <2> SUFFICES ASSUME NEW d \in Known', NEW e \in Known', index'[d] = index'[e] PROVE d = e
    BY DEF PlacesApart
  <2>1. CASE d \in Known /\ e \in Known
    BY <1>7, <2>1 DEF PollInv, PlacesApart
  <2>2. CASE d = c /\ e \in Known
    BY <1>1, <1>7, <1>8, <2>2
  <2>3. CASE d \in Known /\ e = c
    BY <1>1, <1>7, <1>8, <2>3
  <2> QED
    BY <1>6, <2>1, <2>2, <2>3
<1>11. PlacesTaken'
  <2> SUFFICES ASSUME NEW i \in 1..(n + 1) PROVE \E d \in Known' : index'[d] + 1 = i
    BY <1>3 DEF PlacesTaken, PollImpl!Place
  <2>1. CASE i = n + 1
    BY <1>6, <1>7, <2>1
  <2>2. CASE i # n + 1
    <3>1. i \in DOMAIN pollFds
      BY <1>1, <2>2
    <3>2. PICK d \in Known : index[d] + 1 = i
      BY <3>1 DEF PollInv, PlacesTaken, PollImpl!Place
    <3> QED
      BY <1>6, <1>7, <3>2
  <2> QED
    BY <2>1, <2>2
<1>12. ~misused' => UsedWell'
  <2> SUFFICES ASSUME ~misused' PROVE UsedWell'
    OBVIOUS
  <2>1. ~misused /\ c \notin removed /\ ev # {} /\ UsedWell
    BY <1>2, PollTypes DEF PollInv, PollImpl!TypeOK, PollImpl!UpdateNew, PollImpl!Misuse
  <2>2. removed' = removed /\ aborted' = "no"
    BY <2>1 DEF PollImpl!UpdateNew, UsedWell
  <2>3. \A d \in PollChannels : index'[d] >= 0 => d \in Known' \cup removed'
    <3> SUFFICES ASSUME NEW d \in PollChannels, index'[d] >= 0, d # c
                 PROVE  d \in Known \cup removed
      BY <1>6, <2>2
    <3>1. index'[d] = index[d]
      BY <1>1 DEF PollInv, PollImpl!TypeOK
    <3> QED
      BY <2>1, <3>1 DEF UsedWell
  <2>4. \A d \in Known' : pollFds'[index'[d] + 1].fd = IF events'[d] = {} THEN PollImpl!Ignored(Fd[d]) ELSE Fd[d]
    <3> TAKE d \in Known'
    <3>1. CASE d = c
      BY <1>3, <1>7, <2>1, <3>1
    <3>2. CASE d \in Known
      <4>1. index[d] + 1 \in 1..n
        BY <1>1, <1>8, <3>2
      <4>2. pollFds'[index'[d] + 1] = pollFds[index[d] + 1]
        BY <1>3, <1>7, <3>2, <4>1
      <4> QED
        BY <1>7, <2>1, <3>2, <4>2 DEF UsedWell, PollImpl!Place, PollImpl!WatchedFd
    <3> QED
      BY <1>6, <3>1, <3>2
  <2>5. removed' \cap Known' = {}
    BY <1>6, <2>1, <2>2 DEF UsedWell
  <2> QED
    BY <2>2, <2>3, <2>4, <2>5 DEF UsedWell, PollImpl!Place, PollImpl!WatchedFd, PollImpl!Ignored
<1> QED
  BY <1>2, <1>4, <1>5, <1>6, <1>9, <1>10, <1>11, <1>12 DEF PollInv

\* A channel that has a place wants other events.
LEMMA PollChanges ==
  ASSUME PollInv, NEW c \in PollChannels, NEW ev \in SUBSET Wanted, PollImpl!UpdateKnown(c, ev)
  PROVE  PollInv' /\ c \in Known /\ Known' = Known
<1> DEFINE n == Len(pollFds)
           p == index[c] + 1
           pfd == [fd |-> PollImpl!WatchedFd(c, ev), events |-> ev]
<1>1. /\ pollFds \in Seq(PollImpl!PollFd) /\ n \in Nat /\ DOMAIN pollFds = 1..n
      /\ c \in Known /\ p \in 1..n
      /\ events' = [events EXCEPT ![c] = ev]
      /\ pollFds' = [pollFds EXCEPT ![p] = pfd]
      /\ UNCHANGED <<channels, index, active, removed, misused, aborted>>
  BY PollTypes DEF PollInv, PollImpl!TypeOK, PollImpl!UpdateKnown, PollImpl!UpdateAsserts, PollImpl!Place
<1>2. Known' = Known /\ Known \subseteq PollChannels
  <2>1. DOMAIN events' = DOMAIN events /\ DOMAIN events = PollChannels
    BY <1>1 DEF PollInv, PollImpl!TypeOK
  <2> QED
    BY <1>1, <2>1 DEF Known
<1>3. pfd \in PollImpl!PollFd
  BY PollTypes DEF PollImpl!PollFd, PollImpl!WatchedFd, PollImpl!Ignored
<1>4. pollFds' \in Seq(PollImpl!PollFd) /\ DOMAIN pollFds' = 1..n
  BY <1>1, <1>3
<1>5. PollImpl!TypeOK'
  BY <1>1, <1>4 DEF PollInv, PollImpl!TypeOK
<1>6. PollKeyed' /\ PlacesApart' /\ PlacesTaken'
  BY <1>1, <1>2, <1>4 DEF PollInv, PollKeyed, PlacesApart, PlacesTaken, PollImpl!Place
<1>7. \A d \in Known : /\ index[d] + 1 \in 1..n
                       /\ events'[d] = IF d = c THEN ev ELSE events[d]
                       /\ pollFds'[index[d] + 1] = IF d = c THEN pfd ELSE pollFds[index[d] + 1]
  <2> TAKE d \in Known
  <2>1. index[d] \in Int /\ index[d] + 1 \in 1..n /\ index[c] \in Int
    BY <1>1, <1>2, PollTypes DEF PollInv, Placed, PollImpl!Place
  <2>2. events'[d] = IF d = c THEN ev ELSE events[d]
    BY <1>1, <1>2 DEF PollInv, PollImpl!TypeOK
  <2>3. d # c => index[d] + 1 # p
    BY <1>1, <2>1 DEF PollInv, PlacesApart
  <2> QED
    BY <1>1, <2>1, <2>2, <2>3
<1>8. Placed'
  <2> SUFFICES ASSUME NEW d \in Known
               PROVE  /\ index[d] + 1 \in DOMAIN pollFds'
                      /\ pollFds'[index[d] + 1].fd \in {Fd[d], PollImpl!Ignored(Fd[d])}
                      /\ pollFds'[index[d] + 1].events = events'[d]
    BY <1>1, <1>2 DEF Placed, PollImpl!Place, PollImpl!Ignored
  <2>1. CASE d = c
    <3>1. pollFds'[index[d] + 1] = pfd /\ events'[d] = ev /\ index[d] + 1 \in 1..n
      BY <1>7, <2>1
    <3>2. pfd.fd \in {Fd[d], PollImpl!Ignored(Fd[d])} /\ pfd.events = ev
      BY <2>1 DEF PollImpl!WatchedFd
    <3> QED
      BY <1>4, <3>1, <3>2
  <2>2. CASE d # c
    BY <1>4, <1>7, <2>2 DEF PollInv, Placed, PollImpl!Place
  <2> QED
    BY <2>1, <2>2
<1>9. ~misused' => UsedWell'
  <2> SUFFICES ASSUME ~misused, UsedWell PROVE UsedWell'
    BY <1>1 DEF PollInv
  <2>1. \A d \in Known : pollFds'[index[d] + 1].fd = PollImpl!WatchedFd(d, events'[d])
    <3> TAKE d \in Known
    <3>1. CASE d = c
      BY <1>7, <3>1
    <3>2. CASE d # c
      BY <1>7, <3>2 DEF UsedWell, PollImpl!Place
    <3> QED
      BY <3>1, <3>2
  <2> QED
    BY <1>1, <1>2, <2>1 DEF UsedWell, PollImpl!Place, PollImpl!WatchedFd, PollImpl!Ignored
<1> QED
  BY <1>1, <1>2, <1>5, <1>6, <1>8, <1>9 DEF PollInv

\* The pollfds after the place p is given to the last one, or is the last one's own.
Filled(s, p) ==
  LET front == SubSeq(s, 1, Len(s) - 1)
  IN IF p = Len(s) THEN front ELSE [front EXCEPT ![p] = s[Len(s)]]

LEMMA FilledPlace ==
  ASSUME NEW S, NEW s \in Seq(S), NEW p \in 1..Len(s)
  PROVE  /\ Filled(s, p) \in Seq(S) /\ DOMAIN Filled(s, p) = 1..(Len(s) - 1)
         /\ \A i \in 1..(Len(s) - 1) : Filled(s, p)[i] = IF i = p THEN s[Len(s)] ELSE s[i]
<1> DEFINE n == Len(s)
           front == SubSeq(s, 1, n - 1)
<1>1. n \in Nat /\ n >= 1 /\ s[n] \in S
  OBVIOUS
<1>2. front \in Seq(S) /\ Len(front) = n - 1 /\ \A i \in 1..(n - 1) : front[i] = s[i]
  <2>1. 1 \in Int /\ n - 1 \in Int /\ \A i \in 1..(n - 1) : s[i] \in S
    BY <1>1
  <2>2. /\ front \in Seq(S)
        /\ Len(front) = IF 1 <= n - 1 THEN (n - 1) - 1 + 1 ELSE 0
        /\ \A i \in 1..((n - 1) - 1 + 1) : front[i] = s[1 + i - 1]
    BY <2>1, SubSeqProperties
  <2>3. (n - 1) - 1 + 1 = n - 1 /\ \A i \in 1..(n - 1) : 1 + i - 1 = i
    BY <1>1
  <2> QED
    BY <1>1, <2>2, <2>3
<1>3. DOMAIN front = 1..(n - 1)
  BY <1>1, <1>2
<1> HIDE DEF front
<1>4. CASE p = n
  BY <1>1, <1>2, <1>3, <1>4 DEF Filled, front
<1>5. CASE p # n
  <2>1. Filled(s, p) = [front EXCEPT ![p] = s[n]]
    BY <1>5 DEF Filled, front
  <2>2. p \in 1..(n - 1) /\ n - 1 \in Nat
    BY <1>1, <1>5
  <2>3. /\ Filled(s, p) \in Seq(S) /\ Len(Filled(s, p)) = n - 1
        /\ \A i \in 1..(n - 1) : Filled(s, p)[i] = IF i = p THEN s[n] ELSE front[i]
    BY <1>1, <1>2, <2>1, <2>2, ExceptSeq
  <2> QED
    BY <1>2, <2>2, <2>3
<1> QED
  BY <1>4, <1>5

\* The channel of the last pollfd.
LEMMA PollLast ==
  ASSUME PollInv, pollFds # <<>>
  PROVE  /\ channels[PollImpl!ChannelAtEnd] \in Known
         /\ index[channels[PollImpl!ChannelAtEnd]] = Len(pollFds) - 1
<1>1. Len(pollFds) \in Nat /\ Len(pollFds) \in DOMAIN pollFds /\ Len(pollFds) >= 1
  BY DEF PollInv, PollImpl!TypeOK
<1>2. PICK d \in Known : PollImpl!Place(d) = Len(pollFds)
  BY <1>1 DEF PollInv, PlacesTaken
<1>3. d \in PollChannels
  BY DEF Known, PollInv, PollImpl!TypeOK
<1>4. PollImpl!Last.fd \in {Fd[d], -Fd[d] - 1} /\ Fd[d] \in Nat
  BY <1>2, <1>3, PollTypes DEF PollInv, Placed, PollImpl!Last, PollImpl!Ignored
<1>5. PollImpl!ChannelAtEnd = Fd[d]
  BY <1>4 DEF PollImpl!ChannelAtEnd
<1>6. channels[Fd[d]] = d
  BY DEF Known
<1>7. index[d] = Len(pollFds) - 1
  BY <1>1, <1>2, <1>3, PollTypes DEF PollImpl!Place
<1> QED
  BY <1>5, <1>6, <1>7

\* The last pollfd takes the place of the one that goes.
LEMMA PollRemoves ==
  ASSUME PollInv, NEW c \in PollChannels, PollImpl!RemoveChannel(c)
  PROVE  PollInv' /\ c \in Known /\ Known' = Known \ {c}
<1> DEFINE n == Len(pollFds)
           p == index[c] + 1
           d == channels[PollImpl!ChannelAtEnd]
<1>1. /\ pollFds \in Seq(PollImpl!PollFd) /\ n \in Nat /\ DOMAIN pollFds = 1..n
      /\ index[c] \in Int /\ c \in Known /\ p \in 1..n
      /\ channels' = [channels EXCEPT ![Fd[c]] = NoChannel]
      /\ removed' = removed \cup {c}
      /\ UNCHANGED <<events, active, misused, aborted>>
  BY PollTypes DEF PollInv, PollImpl!TypeOK, PollImpl!RemoveChannel, PollImpl!MayRemove,
                   PollImpl!RemoveAsserts, PollImpl!Place
<1>2. d \in Known /\ index[d] = n - 1
  BY <1>1, PollLast
<1>3. /\ Known \subseteq PollChannels /\ Known' = Known \ {c}
  <2>1. \A e \in PollChannels : channels'[Fd[e]] = e <=> channels[Fd[e]] = e /\ e # c
    <3> TAKE e \in PollChannels
    <3>1. channels[Fd[c]] = c
      BY <1>1 DEF Known
    <3>2. CASE Fd[e] = Fd[c]
      BY <1>1, <3>1, <3>2, PollTypes DEF PollInv, PollImpl!TypeOK
    <3>3. CASE Fd[e] # Fd[c]
      BY <1>1, <3>3, PollTypes DEF PollInv, PollImpl!TypeOK
    <3> QED
      BY <3>2, <3>3
  <2>2. DOMAIN events = PollChannels /\ events' = events
    BY <1>1 DEF PollInv, PollImpl!TypeOK
  <2> QED
    BY <2>1, <2>2 DEF Known
<1>4. /\ pollFds' \in Seq(PollImpl!PollFd) /\ DOMAIN pollFds' = 1..(n - 1)
      /\ \A i \in 1..(n - 1) : pollFds'[i] = IF i = p THEN pollFds[n] ELSE pollFds[i]
  <2>1. pollFds' = Filled(pollFds, p)
    BY DEF Filled, PollImpl!RemoveChannel, PollImpl!Place, PollImpl!Front, PollImpl!Last
  <2> QED
    BY <1>1, <2>1, FilledPlace
<1>5. p = n <=> c = d
  BY <1>1, <1>2 DEF PollInv, PlacesApart
<1>6. index' = IF p = n THEN index ELSE [index EXCEPT ![d] = index[c]]
  BY DEF PollImpl!RemoveChannel, PollImpl!IndexAfterRemove, PollImpl!Place
<1> HIDE DEF d
<1>7. /\ index' \in [PollChannels -> Nat \cup {-1}]
      /\ \A e \in PollChannels \ {d} : index'[e] = index[e]
      /\ c # d => index'[d] = p - 1
  <2>1. index \in [PollChannels -> Nat \cup {-1}] /\ d \in PollChannels
    BY <1>2, <1>3 DEF PollInv, PollImpl!TypeOK
  <2>2. CASE p = n
    BY <1>1, <1>5, <1>6, <2>1, <2>2
  <2>3. CASE p # n
    <3>1. index' = [index EXCEPT ![d] = index[c]]
      BY <1>6, <2>3
    <3> QED
      BY <1>1, <1>5, <2>1, <2>3, <3>1
  <2> QED
    BY <2>2, <2>3
(* Where each of the remaining channels is found.                          *)
<1>8. \A e \in Known \ {c} :
        /\ e \in PollChannels /\ index[e] \in Int /\ index[e] + 1 \in 1..n
        /\ index'[e] + 1 \in 1..(n - 1)
        /\ index'[e] = IF e = d THEN p - 1 ELSE index[e]
        /\ e # d => index[e] + 1 # p /\ index[e] + 1 # n
        /\ pollFds'[index'[e] + 1] = pollFds[index[e] + 1]
  <2> TAKE e \in Known \ {c}
  <2>1. e \in PollChannels /\ index[e] \in Int /\ index[e] + 1 \in 1..n
    BY <1>1, <1>3, PollTypes DEF PollInv, Placed, PollImpl!Place
  <2>2. CASE e = d
    <3>1. index'[e] = p - 1 /\ p # n /\ index[e] + 1 = n
      BY <1>1, <1>2, <1>5, <1>7, <2>2
    <3>2. index'[e] + 1 = p /\ p \in 1..(n - 1)
      BY <1>1, <3>1
    <3> QED
      BY <1>4, <2>1, <2>2, <3>1, <3>2
  <2>3. CASE e # d
    <3>1. index[e] # index[c] /\ index[e] # index[d] /\ index'[e] = index[e]
      BY <1>1, <1>2, <1>7, <2>1, <2>3 DEF PollInv, PlacesApart
    <3>2. index[e] + 1 # p /\ index[e] + 1 # n /\ index[e] + 1 \in 1..(n - 1)
      BY <1>1, <1>2, <2>1, <3>1
    <3> QED
      BY <1>4, <2>1, <2>3, <3>1, <3>2
  <2> QED
    BY <2>2, <2>3
<1>9. PollImpl!TypeOK'
  BY <1>1, <1>4, <1>7, PollTypes DEF PollInv, PollImpl!TypeOK
<1>10. PollKeyed'
  BY <1>1, PollTypes DEF PollInv, PollImpl!TypeOK, PollKeyed
<1>11. Placed'
  <2> SUFFICES ASSUME NEW e \in Known \ {c}
               PROVE  /\ index'[e] + 1 \in DOMAIN pollFds'
                      /\ pollFds'[index'[e] + 1].fd \in {Fd[e], PollImpl!Ignored(Fd[e])}
                      /\ pollFds'[index'[e] + 1].events = events[e]
    BY <1>1, <1>3 DEF Placed, PollImpl!Place, PollImpl!Ignored
  <2>1. pollFds'[index'[e] + 1] = pollFds[index[e] + 1] /\ index'[e] + 1 \in DOMAIN pollFds'
    BY <1>4, <1>8
  <2>2. /\ pollFds[index[e] + 1].fd \in {Fd[e], PollImpl!Ignored(Fd[e])}
        /\ pollFds[index[e] + 1].events = events[e]
    BY DEF PollInv, Placed, PollImpl!Place
  <2> QED
    BY <2>1, <2>2
<1>12. PlacesApart'
  <2> SUFFICES ASSUME NEW e \in Known \ {c}, NEW f \in Known \ {c}, index'[e] = index'[f]
               PROVE  e = f
    BY <1>3 DEF PlacesApart
  <2>1. CASE e # d /\ f # d
    BY <1>8, <2>1 DEF PollInv, PlacesApart
  <2>2. CASE e = d /\ f # d
    BY <1>1, <1>8, <2>2
  <2>3. CASE e # d /\ f = d
    BY <1>1, <1>8, <2>3
  <2> QED
    BY <2>1, <2>2, <2>3
<1>13. PlacesTaken'
  <2> SUFFICES ASSUME NEW i \in 1..(n - 1) PROVE \E e \in Known \ {c} : index'[e] + 1 = i
    BY <1>3, <1>4 DEF PlacesTaken, PollImpl!Place
  <2>1. CASE i = p
    <3>1. c # d
      BY <1>1, <1>5, <2>1
    <3> QED
      BY <1>1, <1>2, <1>7, <2>1, <3>1
  <2>2. CASE i # p
    <3>1. PICK e \in Known : index[e] + 1 = i
      BY <1>1 DEF PollInv, PlacesTaken, PollImpl!Place
    <3>2. e # c /\ e # d
      BY <1>1, <1>2, <2>2, <3>1
    <3> QED
      BY <1>8, <3>1, <3>2
  <2> QED
    BY <2>1, <2>2
<1>14. ~misused' => UsedWell'
  <2> SUFFICES ASSUME ~misused, UsedWell PROVE UsedWell'
    BY <1>1 DEF PollInv
  <2>1. \A e \in PollChannels : index'[e] >= 0 => e \in Known' \cup removed'
    <3> SUFFICES ASSUME NEW e \in PollChannels, index'[e] >= 0, e # c, e # d
                 PROVE  e \in Known \cup removed
      BY <1>1, <1>2, <1>3
    <3> QED
      BY <1>7 DEF UsedWell
  <2>2. \A e \in Known \ {c} : pollFds'[index'[e] + 1].fd = PollImpl!WatchedFd(e, events[e])
    BY <1>8 DEF UsedWell, PollImpl!Place
  <2>3. removed' \cap Known' = {} /\ aborted' = "no"
    BY <1>1, <1>3 DEF UsedWell
  <2> QED
    BY <1>1, <1>3, <2>1, <2>2, <2>3 DEF UsedWell, PollImpl!Place, PollImpl!WatchedFd, PollImpl!Ignored
<1> QED
  BY <1>1, <1>3, <1>9, <1>10, <1>11, <1>12, <1>13, <1>14 DEF PollInv

\* What poll(2) reports, and fill_active_channels makes of it.
LEMMA PollReports ==
  ASSUME PollInv, NEW pfd \in PollImpl!PollFdsWatched
  PROVE  /\ channels[pfd.fd] \in Known
         /\ channels[pfd.fd] \in PollChannels
         /\ pfd = [fd |-> Fd[channels[pfd.fd]], events |-> events[channels[pfd.fd]]]
         /\ ~misused => events[channels[pfd.fd]] # {}
<1>1. PICK i \in DOMAIN pollFds : pfd = pollFds[i] /\ pfd.fd >= 0
  BY DEF PollImpl!PollFdsWatched, PollImpl!Range
<1>2. PICK c \in Known : PollImpl!Place(c) = i
  BY DEF PollInv, PlacesTaken
<1>3. c \in PollChannels
  BY DEF Known, PollInv, PollImpl!TypeOK
<1>4. pfd.fd \in {Fd[c], -Fd[c] - 1} /\ Fd[c] \in Nat /\ pfd.events = events[c]
  BY <1>1, <1>2, <1>3, PollTypes DEF PollInv, Placed, PollImpl!Ignored
<1>5. pfd.fd = Fd[c] /\ channels[pfd.fd] = c
  BY <1>1, <1>4 DEF Known
<1>6. pfd \in PollImpl!PollFd
  BY <1>1 DEF PollInv, PollImpl!TypeOK
<1>7. pfd = [fd |-> Fd[c], events |-> events[c]]
  BY <1>4, <1>5, <1>6 DEF PollImpl!PollFd
<1>8. ~misused => events[c] # {}
  <2> SUFFICES ASSUME ~misused, events[c] = {} PROVE FALSE
    OBVIOUS
  <2>1. pfd.fd = -Fd[c] - 1
    BY <1>1, <1>2 DEF PollInv, UsedWell, PollImpl!WatchedFd, PollImpl!Ignored
  <2> QED
    BY <1>1, <1>4, <2>1
<1> QED
  BY <1>3, <1>5, <1>7, <1>8

\* What poll hands to the loop.
LEMMA PollActive ==
  ASSUME PollInv, PollImpl!Poll
  PROVE  /\ \A a \in active' : /\ a = <<a[1], a[2]>>
                               /\ a[1] \in Known /\ a[1] \in PollChannels
                               /\ a[2] \in (SUBSET (events[a[1]] \cup Unasked)) \ {{}}
                               /\ ~misused => events[a[1]] # {}
         /\ \A a, b \in active' : a[1] = b[1] => a = b
<1>1. PICK revents \in [PollImpl!PollFdsWatched -> SUBSET (Wanted \cup Unasked)] :
        /\ \A pfd \in PollImpl!PollFdsWatched : revents[pfd] \subseteq pfd.events \cup Unasked
        /\ active' = PollImpl!FillActiveChannels(revents)
  BY DEF PollImpl!Poll
<1>2. \A a \in active' : \E pfd \in PollImpl!PollFdsWatched :
        a = <<channels[pfd.fd], revents[pfd]>> /\ revents[pfd] # {}
  BY <1>1 DEF PollImpl!FillActiveChannels
<1>3. ASSUME NEW a \in active'
      PROVE  /\ a = <<a[1], a[2]>>
             /\ a[1] \in Known /\ a[1] \in PollChannels
             /\ a[2] \in (SUBSET (events[a[1]] \cup Unasked)) \ {{}}
             /\ ~misused => events[a[1]] # {}
  <2>1. PICK pfd \in PollImpl!PollFdsWatched :
          a = <<channels[pfd.fd], revents[pfd]>> /\ revents[pfd] # {}
    BY <1>2, <1>3
  <2>2. pfd.events = events[channels[pfd.fd]]
    BY PollReports
  <2>3. revents[pfd] \subseteq events[channels[pfd.fd]] \cup Unasked
    BY <1>1, <2>2
  <2> QED
    BY <2>1, <2>3, PollReports
<1>4. ASSUME NEW a \in active', NEW b \in active', a[1] = b[1] PROVE a = b
  <2>1. PICK p \in PollImpl!PollFdsWatched : a = <<channels[p.fd], revents[p]>>
    BY <1>2, <1>4
  <2>2. PICK q \in PollImpl!PollFdsWatched : b = <<channels[q.fd], revents[q]>>
    BY <1>2, <1>4
  <2>3. channels[p.fd] = channels[q.fd]
    BY <1>4, <2>1, <2>2
  <2>4. p = q
    BY <2>3, PollReports
  <2> QED
    BY <2>1, <2>2, <2>4
<1> QED
  BY <1>3, <1>4

\* The failed asserts need a channel that was misused.
LEMMA PollAborts ==
  ASSUME PollInv, NEW c \in PollChannels,
         (\E ev \in Changed(events[c]) : PollImpl!UpdateAborts(c, ev)) \/ PollImpl!RemoveAborts(c)
  PROVE  PollInv'
<1>1. UNCHANGED <<channels, index, events, pollFds, active, removed>>
  BY DEF PollImpl!UpdateAborts, PollImpl!RemoveAborts
<1>2. aborted' \in {"no", "update_channel", "remove_channel"} /\ misused' \in BOOLEAN
  BY DEF PollInv, PollImpl!TypeOK, PollImpl!UpdateAborts, PollImpl!RemoveAborts
<1>3. misused'
  <2>1. ASSUME NEW ev \in Changed(events[c]), PollImpl!UpdateAborts(c, ev) PROVE misused'
    <3>1. /\ misused' = (misused \/ PollImpl!Misuse(c, ev))
          /\ index[c] >= 0 /\ ~PollImpl!UpdateAsserts(c)
      BY <2>1 DEF PollImpl!UpdateAborts
    <3> SUFFICES ASSUME ~misused, ~PollImpl!Misuse(c, ev) PROVE FALSE
      BY <3>1
    <3>2. ~PollImpl!HasChannel(c)
      BY <3>1, PollTypes DEF PollInv, Placed, PollImpl!UpdateAsserts
    <3>3. c \in removed
      BY <3>1, <3>2, PollTypes DEF PollInv, UsedWell
    <3> QED
      BY <3>2, <3>3 DEF PollImpl!Misuse
  <2>2. ASSUME PollImpl!RemoveAborts(c) PROVE misused'
    <3>1. /\ misused' = misused
          /\ PollImpl!HasChannel(c) /\ events[c] = {} /\ ~PollImpl!RemoveAsserts(c)
      BY <2>2 DEF PollImpl!RemoveAborts, PollImpl!MayRemove
    <3> SUFFICES ASSUME ~misused PROVE FALSE
      BY <3>1 DEF PollInv, PollImpl!TypeOK
    <3>2. /\ c \in Known
          /\ PollImpl!Place(c) \in DOMAIN pollFds
          /\ pollFds[PollImpl!Place(c)].events = events[c]
      BY <3>1, PollTypes DEF PollInv, Placed
    <3>3. pollFds[PollImpl!Place(c)].fd = PollImpl!Ignored(Fd[c])
      BY <3>1, <3>2 DEF PollInv, UsedWell, PollImpl!WatchedFd
    <3>4. pollFds[PollImpl!Place(c)] \in PollImpl!PollFd
      BY <3>2 DEF PollInv, PollImpl!TypeOK
    <3>5. pollFds[PollImpl!Place(c)] = [fd |-> PollImpl!Ignored(Fd[c]), events |-> events[c]]
      BY <3>2, <3>3, <3>4 DEF PollImpl!PollFd
    <3> QED
      BY <3>1, <3>2, <3>5 DEF PollImpl!RemoveAsserts
  <2> QED
    BY <2>1, <2>2
<1> QED
  BY <1>1, <1>2, <1>3 DEF PollInv, PollImpl!TypeOK, PollKeyed, Known, Placed, PlacesApart,
                          PlacesTaken, PollImpl!Place, PollImpl!Ignored

\* A step that changes nothing but what was reported.
LEMMA PollSame ==
  ASSUME PollInv, UNCHANGED <<channels, index, events, pollFds, removed, misused, aborted>>,
         active' \subseteq PollChannels \X SUBSET (Wanted \cup Unasked)
  PROVE  PollInv' /\ Known' = Known /\ Asked' = Asked
<1>1. Known' = Known /\ Asked' = Asked
  BY DEF Known, Asked
<1>2. PollImpl!TypeOK'
  BY DEF PollInv, PollImpl!TypeOK
<1>3. PollKeyed' /\ Placed' /\ PlacesApart' /\ PlacesTaken'
  BY <1>1 DEF PollInv, PollKeyed, Placed, PlacesApart, PlacesTaken, PollImpl!Place, PollImpl!Ignored
<1>4. ~misused' => UsedWell'
  BY <1>1 DEF PollInv, UsedWell, PollImpl!Place, PollImpl!WatchedFd, PollImpl!Ignored
<1> QED
  BY <1>1, <1>2, <1>3, <1>4 DEF PollInv

LEMMA PollNext == PollInv /\ [PollImpl!Next]_(PollImpl!vars) => PollInv'
<1> SUFFICES ASSUME PollInv, [PollImpl!Next]_(PollImpl!vars) PROVE PollInv'
  OBVIOUS
<1>1. ASSUME NEW c \in PollChannels, PollImpl!UpdateChannel(c) PROVE PollInv'
  <2>1. PICK ev \in PollImpl!Changed(events[c]) :
          PollImpl!UpdateNew(c, ev) \/ PollImpl!UpdateKnown(c, ev) \/ PollImpl!UpdateAborts(c, ev)
    BY <1>1 DEF PollImpl!UpdateChannel
  <2>2. ev \in Changed(events[c]) /\ ev \in SUBSET Wanted
    BY ChangedWanted, PollTypes DEF Changed, PollImpl!Changed
  <2> QED
    BY <2>1, <2>2, PollAdds, PollChanges, PollAborts
<1>2. ASSUME NEW c \in PollChannels, PollImpl!RemoveChannel(c) \/ PollImpl!RemoveAborts(c)
      PROVE  PollInv'
  BY <1>2, PollRemoves, PollAborts
<1>3. CASE PollImpl!Poll
  <2>1. active' \subseteq PollChannels \X SUBSET (Wanted \cup Unasked)
    <3> SUFFICES ASSUME NEW a \in active' PROVE a \in PollChannels \X SUBSET (Wanted \cup Unasked)
      OBVIOUS
    <3>1. a = <<a[1], a[2]>> /\ a[1] \in PollChannels /\ a[2] \subseteq events[a[1]] \cup Unasked
      BY <1>3, PollActive
    <3>2. events[a[1]] \subseteq Wanted
      BY <3>1, PollTypes
    <3> QED
      BY <3>1, <3>2
  <2> QED
    BY <1>3, <2>1, PollSame DEF PollImpl!Poll
<1>4. CASE UNCHANGED PollImpl!vars
  <2>1. active' \subseteq PollChannels \X SUBSET (Wanted \cup Unasked)
    BY <1>4 DEF PollImpl!vars, PollInv, PollImpl!TypeOK
  <2> QED
    BY <1>4, <2>1, PollSame DEF PollImpl!vars
<1> QED
  BY <1>1, <1>2, <1>3, <1>4 DEF PollImpl!Next

-------------------------------------------------------------------------------
(* poll_poller_t implements poller_t                                       *)

LEMMA PollUpdatePromised ==
  ASSUME PollInv, PollInv', NEW c \in PollChannels, NEW ev \in PollImpl!Changed(events[c]),
         channels[Fd[c]] \in {c, NoChannel},
         Known' = Known \cup {c}, events' = [events EXCEPT ![c] = ev], active' = active
  PROVE  Promise!Next
<1>1. DOMAIN events = PollChannels /\ DOMAIN events' = PollChannels
  BY DEF PollInv, PollImpl!TypeOK
<1>2. Asked[c] = events[c] /\ ev \in Changed(Asked[c])
  BY <1>1 DEF Asked, Changed, PollImpl!Changed
<1>3. \A d \in Known : Fd[d] = Fd[c] => d = c
  BY <1>1, PollTypes DEF Known
<1>4. Asked' = [Asked EXCEPT ![c] = ev]
  BY <1>1 DEF Asked
<1> QED
  BY <1>2, <1>3, <1>4, UpdatePromised

LEMMA PollStepPromised ==
  PollInv /\ PollInv' /\ [PollImpl!Next]_(PollImpl!vars) => [Promise!Next]_(Promise!pollerVars)
<1> SUFFICES ASSUME PollInv, PollInv', [PollImpl!Next]_(PollImpl!vars)
             PROVE  Promise!Next \/ UNCHANGED <<Known, Asked, active>>
  BY PromiseVars
<1>1. DOMAIN events = PollChannels
  BY DEF PollInv, PollImpl!TypeOK
<1>2. ASSUME NEW c \in PollChannels, PollImpl!UpdateChannel(c)
      PROVE  Promise!Next \/ UNCHANGED <<Known, Asked, active>>
  <2>1. PICK ev \in PollImpl!Changed(events[c]) :
          PollImpl!UpdateNew(c, ev) \/ PollImpl!UpdateKnown(c, ev) \/ PollImpl!UpdateAborts(c, ev)
    BY <1>2 DEF PollImpl!UpdateChannel
  <2>2. ev \in SUBSET Wanted
    BY ChangedWanted, PollTypes DEF Changed, PollImpl!Changed
  <2>3. CASE PollImpl!UpdateNew(c, ev)
    <3>1. /\ channels[Fd[c]] \in {c, NoChannel}
          /\ events' = [events EXCEPT ![c] = ev] /\ active' = active
      BY <2>3 DEF PollImpl!UpdateNew, PollImpl!MayUpdate
    <3> QED
      BY <2>2, <2>3, <3>1, PollAdds, PollUpdatePromised
  <2>4. CASE PollImpl!UpdateKnown(c, ev)
    <3>1. /\ channels[Fd[c]] \in {c, NoChannel}
          /\ events' = [events EXCEPT ![c] = ev] /\ active' = active
      BY <2>4 DEF PollImpl!UpdateKnown, PollImpl!MayUpdate
    <3>2. Known' = Known \cup {c}
      BY <2>2, <2>4, PollChanges
    <3> QED
      BY <3>1, <3>2, PollUpdatePromised
  <2>5. CASE PollImpl!UpdateAborts(c, ev)
    BY <2>5 DEF PollImpl!UpdateAborts, Known, Asked
  <2> QED
    BY <2>1, <2>3, <2>4, <2>5
<1>3. ASSUME NEW c \in PollChannels, PollImpl!RemoveChannel(c) PROVE Promise!Next
  <2>1. events[c] = {} /\ events' = events /\ active' = active
    BY <1>3 DEF PollImpl!RemoveChannel, PollImpl!MayRemove
  <2>2. Asked[c] = {} /\ Asked' = Asked
    BY <1>1, <2>1 DEF Asked
  <2> QED
    BY <1>3, <2>1, <2>2, PollRemoves, RemovePromised
<1>4. ASSUME NEW c \in PollChannels, PollImpl!RemoveAborts(c)
      PROVE  UNCHANGED <<Known, Asked, active>>
  BY <1>4 DEF PollImpl!RemoveAborts, Known, Asked
<1>5. CASE PollImpl!Poll
  <2>1. Known' = Known /\ Asked' = Asked
    BY <1>5 DEF PollImpl!Poll, Known, Asked
  <2>2. \A a \in active' : /\ a = <<a[1], a[2]>>
                           /\ a[1] \in Known
                           /\ a[2] \in (SUBSET (Asked[a[1]] \cup Unasked)) \ {{}}
    <3> TAKE a \in active'
    <3>1. /\ a = <<a[1], a[2]>> /\ a[1] \in Known /\ a[1] \in PollChannels
          /\ a[2] \in (SUBSET (events[a[1]] \cup Unasked)) \ {{}}
      BY <1>5, PollActive
    <3>2. Asked[a[1]] = events[a[1]]
      BY <1>1, <3>1 DEF Asked
    <3> QED
      BY <3>1, <3>2
  <2>3. \A a, b \in active' : a[1] = b[1] => a = b
    BY <1>5, PollActive
  <2> QED
    BY <2>1, <2>2, <2>3, PollPromised
<1>6. CASE UNCHANGED PollImpl!vars
  BY <1>6 DEF PollImpl!vars, Known, Asked
<1> QED
  BY <1>2, <1>3, <1>4, <1>5, <1>6 DEF PollImpl!Next

-------------------------------------------------------------------------------
(* Whichever poller it is                                                  *)

\* The inductive invariant of both.
IInv ==
  /\ poller \in {"epoll", "poll"}
  /\ poller = "epoll" => EpollInv
  /\ poller = "poll" => PollInv

LEMMA InitIInv == NewDefaultPoller => IInv
  BY EpollInit, PollInit DEF NewDefaultPoller, IInv

\* A step of the whole is one of its poller.
LEMMA StepOfOne ==
  ASSUME IInv, [AnyStep]_allVars
  PROVE  /\ poller' = poller
         /\ poller = "epoll" => EpollInv /\ [Next]_vars
         /\ poller = "poll" => PollInv /\ [PollImpl!Next]_(PollImpl!vars)
  BY DEF IInv, AnyStep, EpollStep, PollStep, allVars, vars, pollOnly, epollOnly, PollImpl!vars

LEMMA NextIInv == IInv /\ [AnyStep]_allVars => IInv'
<1> SUFFICES ASSUME IInv, [AnyStep]_allVars PROVE IInv'
  OBVIOUS
<1>1. CASE poller = "epoll"
  BY <1>1, StepOfOne, EpollNext DEF IInv
<1>2. CASE poller = "poll"
  BY <1>2, StepOfOne, PollNext DEF IInv
<1> QED
  BY <1>1, <1>2 DEF IInv

LEMMA Inductive == LoopSpec => []IInv
<1>1. NewDefaultPoller => IInv
  BY InitIInv
<1>2. IInv /\ [AnyStep]_allVars => IInv'
  BY NextIInv
<1> QED
  BY <1>1, <1>2, PTL DEF LoopSpec

\* There are as many places as registered channels.
LEMMA PlacesCounted == PollInv => Len(pollFds) = Cardinality(Known)
<1> SUFFICES ASSUME PollInv PROVE Len(pollFds) = Cardinality(Known)
  OBVIOUS
<1> DEFINE n == Len(pollFds)
           place == [c \in Known |-> index[c] + 1]
<1>1. n \in Nat /\ DOMAIN pollFds = 1..n
  BY DEF PollInv, PollImpl!TypeOK
<1>2. \A c \in Known : index[c] \in Int /\ index[c] + 1 \in 1..n
  BY <1>1 DEF PollInv, PollImpl!TypeOK, Placed, PollImpl!Place, Known
<1>3. place \in Injection(Known, 1..n)
  <2>1. place \in [Known -> 1..n]
    BY <1>2
  <2>2. \A c, d \in Known : place[c] = place[d] => c = d
    BY <1>2 DEF PollInv, PlacesApart
  <2> QED
    BY <2>1, <2>2 DEF Injection, IsInjective
<1>4. place \in Surjection(Known, 1..n)
  BY <1>1, <1>2 DEF PollInv, PlacesTaken, PollImpl!Place, Surjection
<1>5. IsFiniteSet(1..n) /\ Cardinality(1..n) = n
  <2>1. 1 \in Int /\ n \in Int /\ (IF 1 > n THEN 0 ELSE n - 1 + 1) = n
    BY <1>1
  <2> QED
    BY <2>1, FS_Interval
<1> QED
  BY <1>3, <1>4, <1>5, FS_Injection

LEMMA IInvImplies == IInv => EpollAgrees /\ PollAgrees
<1> SUFFICES ASSUME IInv PROVE EpollAgrees /\ PollAgrees
  OBVIOUS
<1>1. EpollAgrees
  BY DEF IInv, EpollInv, EpollAgrees, EpollConsistent
<1>2. PollAgrees
  <2> SUFFICES ASSUME PollInv PROVE PollImpl!PlacesConsistent /\ PollImpl!AssertsHold
    BY DEF IInv, PollAgrees
  <2>1. Known = PollImpl!Registered
    BY DEF PollInv, PollImpl!TypeOK, Known, PollImpl!HasChannel, PollImpl!Registered
  <2>2. PollImpl!PlacesAgree
    <3>1. Len(pollFds) = Cardinality(Known) /\ Placed /\ PlacesApart
      BY PlacesCounted DEF PollInv
    <3>2. PollImpl!Cardinality(Known) = Cardinality(Known)
      BY DEF PollImpl!Cardinality, Cardinality
    <3> QED
      BY <2>1, <3>1, <3>2 DEF Placed, PlacesApart, PollImpl!PlacesAgree
  <2>3. PollImpl!AssertsHold
    BY DEF PollInv, UsedWell, PollImpl!AssertsHold, PollImpl!UpdateAssertsHold, PollImpl!RemoveAssertsHold
  <2> QED
    BY <2>2, <2>3 DEF PollInv, PollImpl!PlacesConsistent
<1> QED
  BY <1>1, <1>2

(* index_, channels_ and the kernel's epoll set agree on every channel of  *)
(* an epoll_poller_t, for any channels, descriptors and events.            *)
THEOREM EpollKeepsTrack == LoopSpec => []EpollAgrees
<1>1. IInv => EpollAgrees
  BY IInvImplies
<1> QED
  BY <1>1, Inductive, PTL

(* index_, channels_ and poll_fds_ agree on every channel of a             *)
(* poll_poller_t, and its asserts hold of those that are used well, for    *)
(* any channels, descriptors and events.                                   *)
THEOREM PollKeepsTrack == LoopSpec => []PollAgrees
<1>1. IInv => PollAgrees
  BY IInvImplies
<1> QED
  BY <1>1, Inductive, PTL

(* A channel of a poll_poller_t that was used well and wants nothing is    *)
(* never reported.                                                         *)
THEOREM DisabledUnheard == LoopSpec => DisabledIsSilent
<1>1. IInv /\ [AnyStep]_allVars =>
        [poller = "poll" /\ ~misused /\ active' # active =>
           \A a \in active' : events[a[1]] # {}]_allVars
  <2> SUFFICES ASSUME IInv, [AnyStep]_allVars, poller = "poll", ~misused, active' # active,
                      NEW a \in active'
               PROVE  events[a[1]] # {}
    OBVIOUS
  <2>1. PollInv /\ [PollImpl!Next]_(PollImpl!vars)
    BY StepOfOne
  <2>2. PollImpl!Poll
    BY <2>1 DEF PollImpl!Next, PollImpl!vars, PollImpl!UpdateChannel, PollImpl!UpdateNew,
                PollImpl!UpdateKnown, PollImpl!UpdateAborts, PollImpl!RemoveChannel, PollImpl!RemoveAborts
  <2> QED
    BY <2>1, <2>2, PollActive
<1> QED
  BY <1>1, Inductive, PTL DEF LoopSpec, DisabledIsSilent

(* Both pollers implement poller_t: a poll reports registered channels,    *)
(* each once, with events that it asked for or that are reported unasked.  *)
THEOREM KeepsPromise == LoopSpec => PollerSpec
<1>1. NewDefaultPoller => Promise!Init
  <2> SUFFICES ASSUME NewDefaultPoller PROVE Promise!Init
    OBVIOUS
  <2>1. Known = {} /\ active = {} /\ Asked = [c \in PollChannels |-> {}]
    <3>1. CASE Init
      <4>1. \A c \in Channels : Fd[c] \in Fds /\ c # NoChannel
        BY DescriptorAssumption DEF Fds
      <4> QED
        BY <3>1, <4>1 DEF Init, Known, Asked
    <3>2. CASE PollImpl!Init
      <4>1. \A c \in PollChannels : Fd[c] \in PollImpl!Fds /\ c # NoChannel
        BY ChoiceAssumption DEF PollImpl!Fds
      <4> QED
        BY <3>2, <4>1 DEF PollImpl!Init, Known, Asked
    <3> QED
      BY <3>1, <3>2 DEF NewDefaultPoller
  <2> QED
    BY <2>1 DEF Promise!Init, Known, Asked
<1>2. IInv /\ IInv' /\ [AnyStep]_allVars => [Promise!Next]_(Promise!pollerVars)
  <2> SUFFICES ASSUME IInv, IInv', [AnyStep]_allVars
               PROVE  [Promise!Next]_(Promise!pollerVars)
    OBVIOUS
  <2>1. CASE poller = "epoll"
    BY <2>1, StepOfOne, EpollStepPromised DEF IInv
  <2>2. CASE poller = "poll"
    BY <2>2, StepOfOne, PollStepPromised DEF IInv
  <2> QED
    BY <2>1, <2>2 DEF IInv
<1> QED
  BY <1>1, <1>2, Inductive, PTL DEF LoopSpec, PollerSpec, Promise!Spec
===============================================================================
