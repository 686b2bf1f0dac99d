CONSTANTS
  h = h
  g1 = g1
  g2 = g2
  a = a
  b = b
  e = e
  n = n
  Host = h
  Guests = {g1}
  Ops = {a, b}
  Author <- GuestQueueAuthor
  Target <- QueueTarget
  Inherited <- FirstInherited
  InheritedRev = 1
  Foreign = {}
  MaxRoom = 2
  MaxPipe = 1
SPECIFICATION Spec
INVARIANT AnnouncedIsDurable
PROPERTY RefinesLedger
CHECK_DEADLOCK FALSE
