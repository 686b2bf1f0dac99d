CONSTANTS
  h = h
  g1 = g1
  g2 = g2
  a = a
  b = b
  e = e
  n = n
  Host = h
  Guests = {g1}
  Ops = {n}
  Author <- HostAuthor
  Target <- HostTarget
  Inherited <- NothingInherited
  InheritedRev = 0
  Foreign = {}
  MaxRoom = 1
  MaxPipe = 2
SPECIFICATION Spec
INVARIANT NotesStayWithTheirReview
CHECK_DEADLOCK FALSE
