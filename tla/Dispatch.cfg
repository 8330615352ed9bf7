\* Three channels, revents_ that call one callback or two.
CONSTANTS
  c1 = c1
  c2 = c2
  c3 = c3
  Channels = {c1, c2, c3}
  Revents <- MCRevents
  NoChannel = NoChannel
SPECIFICATION DispatchSpec
SYMMETRY Symmetry
INVARIANTS DispatchSafe RegistrationConsistent TieHolds
CHECK_DEADLOCK FALSE
