SPECIFICATION Spec
CONSTANTS
  Marker <- MCMarker
  MaxEpisodes = 3
  QueueLen = 2
  Kind <- MCKind
  MaxMessages = 3
  Slots <- MCSlots
  MaxRestarts = 0
  MaxDrops = 0
INVARIANT BrokerAgrees
CHECK_DEADLOCK FALSE
