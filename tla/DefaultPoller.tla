----------------------------- MODULE DefaultPoller -----------------------------
(***************************************************************************)
(* new_default_poller gives the loop one of two pollers, as the            *)
(* environment of the process says, for good.  Whichever it is, the loop   *)
(* may rely on what Poller.tla promises.                                   *)
(*                                                                         *)
(* The two share the names of their channels' state; what only one of them *)
(* has stands still with the other.                                        *)
(***************************************************************************)
EXTENDS EpollPoller, Sequences

CONSTANT PollChannels   \* the channels that a poll_poller_t is used with

ASSUME ChoiceAssumption ==
  /\ Channels \subseteq PollChannels
  /\ NoChannel \notin PollChannels
  /\ \A c \in PollChannels : Fd[c] \in Nat

VARIABLES
  poller,      \* which one it is: "epoll" or "poll"
  pollFds, removed, misused, aborted   \* see PollPoller.tla

epollOnly == <<kernel, ready, capacity>>
pollOnly == <<pollFds, removed, misused, aborted>>
allVars == <<poller, vars, pollOnly>>

PollImpl == INSTANCE PollPoller WITH Channels <- PollChannels

\* new_default_poller: AC_MUDUO_USE_POLL is set, or not.
NewDefaultPoller ==
  \/ /\ poller = "epoll" /\ Init
     /\ pollFds = <<>> /\ removed = {} /\ misused = FALSE /\ aborted = "no"
  \/ /\ poller = "poll" /\ PollImpl!Init
     /\ kernel = <<>> /\ ready = <<>> /\ capacity = 0

EpollStep == poller = "epoll" /\ Next /\ UNCHANGED <<poller, pollOnly>>

EpollPolls == poller = "epoll" /\ Poll /\ UNCHANGED <<poller, pollOnly>>

PollStep == poller = "poll" /\ PollImpl!Next /\ UNCHANGED <<poller, epollOnly>>

AnyStep == EpollStep \/ PollStep

\* The loop keeps polling.
LoopSpec == NewDefaultPoller /\ [][AnyStep]_allVars /\ WF_allVars(EpollPolls)

-------------------------------------------------------------------------------
(* index_, channels_ and the kernel's epoll set agree on every channel     *)
(* (epoll_poller_t).                                                       *)
EpollAgrees == poller = "epoll" => EpollConsistent

(* channels_, index_ and poll_fds_ agree on every channel, and no assert   *)
(* of poll_poller_t fails, unless callers register a channel again after   *)
(* remove() or disable one first.                                          *)
PollAgrees == poller = "poll" => PollImpl!PlacesConsistent /\ PollImpl!AssertsHold

(* No channel of an epoll_poller_t starves: one that stays ready for what  *)
(* it wants is reported again and again, though there be more ready        *)
(* channels than events_ has room for.                                     *)
NoStarvation ==
  \A c \in Channels :
    <>[](poller = "epoll" /\ HasChannel(c) /\ ready[Fd[c]] \cap events[c] # {})
      => []<>(\E a \in active : a[1] = c)

(* A channel of a poll_poller_t that was used well and wants nothing hears *)
(* nothing, not even that its peer hung up.                                *)
DisabledIsSilent ==
  [][poller = "poll" /\ ~misused /\ active' # active =>
       \A a \in active' : events[a[1]] # {}]_allVars

\* The channels' state, under the names and the domain that both pollers share.
Promise ==
  INSTANCE Poller WITH
    Channels <- PollChannels,
    registered <- {c \in DOMAIN events : channels[Fd[c]] = c},
    events <- [c \in PollChannels |-> IF c \in DOMAIN events THEN events[c] ELSE {}]

(* Whichever poller it is, it keeps the promise of poller_t.               *)
PollerSpec == Promise!Spec
===============================================================================
