------------------------------ MODULE Descriptors ------------------------------
(***************************************************************************)
(* What all pollers are given: channels, their file descriptors, and what  *)
(* can happen on them.                                                     *)
(***************************************************************************)
EXTENDS Integers, FiniteSets

CONSTANTS
  Channels,       \* channel_t objects
  Fd,             \* their file descriptors; a closed one may come back elsewhere
  Wanted,         \* what a channel can ask for: k_read_event, k_write_event
  Unasked,        \* what is reported unasked: POLLHUP, POLLERR
  NoChannel       \* no entry in channels_

ASSUME DescriptorAssumption ==
  /\ NoChannel \notin Channels
  /\ \A c \in Channels : Fd[c] \in Nat

\* The events_ after enable_/disable_reading, enable_/disable_writing, disable_all.
Changed(ev) == {{}} \cup UNION {{ev \cup {w}, ev \ {w}} : w \in Wanted}
===============================================================================
