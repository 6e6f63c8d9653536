CONSTANTS
  Clients = {c1, c2, c3}
  MaxPermits = 2
  MaxNeed = 3
  CanDrop = TRUE
  Scopes = {own, a, b}
  Own = own
  Slots = {k1}
  MaxCommands = 2
SPECIFICATION PartSpec
INVARIANTS PermitsAreSound NothingIsLost
PROPERTIES FirstComeFirstServed EveryoneIsServed
CHECK_DEADLOCK FALSE
