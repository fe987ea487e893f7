SPECIFICATION BridgeSpec
CONSTANTS
  Marker <- MCMarker
  MaxEpisodes = 6
  QueueLen = 2
  Kind <- MCKind
  MaxMessages = 6
INVARIANT MarkersAccounted
PROPERTY
  SoundEnds
CHECK_DEADLOCK FALSE
