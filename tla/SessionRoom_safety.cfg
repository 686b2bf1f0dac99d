SPECIFICATION Spec
CONSTANTS
  g1 = g1
  g2 = g2
  Guests = {g1, g2}
  Installs = {g1}
  MaxPeers = 2
  MaxPending = 3
  MaxItems = 2
  MaxConns = 3
  MaxActs = 1
  MaxFailures = 1
CHECK_DEADLOCK FALSE
INVARIANT RosterHolds
INVARIANT NoHoles
INVARIANT ListsSettle
INVARIANT WelcomesFindTheirGuest
