\* A channel is registered again after remove().
CONSTANTS
  c1 = c1
  c2 = c2
  c3 = c3
  c4 = c4
  Channels = {c1, c2, c3}
  Fd <- MCFd
  Wanted = {"in"}
  Unasked = {"hup"}
  NoChannel = NoChannel
SPECIFICATION Spec
INVARIANT UpdateAssertsHold
CHECK_DEADLOCK FALSE
