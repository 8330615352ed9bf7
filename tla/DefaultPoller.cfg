\* Two channels share a descriptor, one after the other. events_ has room for one at
\* first; poll_fds_ gets three places, so that the removed, the moved and an untouched
\* one differ, and one of them is for descriptor 0.
CONSTANTS
  c1 = c1
  c2 = c2
  c3 = c3
  c4 = c4
  Channels = {c1, c2, c3}
  PollChannels = {c1, c2, c3, c4}
  Fd <- MCFd
  Wanted = {"in"}
  Unasked = {"hup"}
  NoChannel = NoChannel
  Capacity = 1
SPECIFICATION LoopSpec
INVARIANTS EpollAgrees PollAgrees
PROPERTIES PollerSpec DisabledIsSilent NoStarvation
CHECK_DEADLOCK FALSE
