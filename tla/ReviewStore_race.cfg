CONSTANTS
  k1 = k1
  k2 = k2
  n1 = n1
  n2 = n2
  None = None
  Keys = {k1}
  Notes = {n1, n2}
  Floor = 0
  MaxFlush = 2
  BootGate = FALSE
  Evictions = FALSE
  IndexFaults = FALSE
  Inherited <- OneNote
SPECIFICATION Spec
INVARIANT EditsSurviveHydration
