CONSTANTS
  Host = Host
  Guests = {g1, g2}
  Slips = {}
  Beats = 1
  Grants = 2
  Joins = 1
  s1 = s1
  s2 = s2
  Source = {s1, s2}
  NoSource = NoSource
  Programs = 3
  Intents = 5
  Events = 2
  LateSnapshots = FALSE
  Impatient = FALSE
  Links = {l1}
  Arrivals = {a1, a2}
  Commands = {c1, c2}
  Nobody = Nobody
  NoLink = NoLink
  WebClips = {w1}
  FileClips = {f1}
  JobIds = {j1, j2}
  NoClip = NoClip
  NoJob = NoJob
  Button = Button
  Crossed = {}
  Presses = 3
  News = 1
  LateAnswers = FALSE
  Keys = {k1, k2, k3}
  Callers = {d1, d2, d3}
  Limit = 2
  Slots = {1, 2, 3, 4, 5}
  NoSlot = NoSlot
  NoKey = NoKey
SYMMETRY Alike
SPECIFICATION Spec
INVARIANTS  ReceiversEndWithTheirRoom WithdrawnAreOut
     OneFetchAtATime
PROPERTIES  OnlyTheHostChangesLinks EndsByItsOwn
CHECK_DEADLOCK FALSE
