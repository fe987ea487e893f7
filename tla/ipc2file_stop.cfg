SPECIFICATION BridgeSpec
CONSTANTS
  Marker <- MCMarker
  MaxEpisodes = 4
  QueueLen = 2
  Kind <- MCOneDetector
  MaxMessages = 4
INVARIANT StopRemovesAlarm
CHECK_DEADLOCK FALSE
