CONSTANTS
  Sources = 2
  Downloads = 2
  Requests = 2
  LateRefusals = FALSE
SPECIFICATION PlaybackSpec
INVARIANT PeerIsNotDownloaded
CHECK_DEADLOCK FALSE
