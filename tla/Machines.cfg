CONSTANTS
  Attempts = 3
  SourceStep = SourceStep
  Whisper = Whisper
  Diarizer = Diarizer
  NoChild = NoChild
  Sources = 2
  Downloads = 3
  Requests = 3
  LateRefusals = FALSE
  Every = 2
  Changes = {c1}
  MaxStates = 3
  Sessions = 1
  Behind = 1
SPECIFICATION Spec
INVARIANTS StopsOnlyItsOwn RetiredIsGone NoOrphanCapture OnlyTheLiveTrack
   StopReachesTheDiarizer
  PlaysTheSource
  ReplaysExactly RedoRetraces
PROPERTIES CleanupEnds   StepsAreKept
CHECK_DEADLOCK FALSE
