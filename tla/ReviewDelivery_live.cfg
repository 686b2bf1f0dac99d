CONSTANTS
  h = h
  g1 = g1
  g2 = g2
  a = a
  b = b
  e = e
  n = n
  Host = h
  Guests = {g1}
  Ops = {a}
  Author <- GuestAuthor
  Target <- GuestTarget
  Inherited <- NothingInherited
  InheritedRev = 0
  Foreign = {}
  MaxRoom = 2
  MaxPipe = 1
SPECIFICATION FairSpec
PROPERTY NotesAreDelivered
CHECK_DEADLOCK FALSE
