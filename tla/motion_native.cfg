SPECIFICATION Spec
CONSTANTS
  Marker <- MCMarker
  MaxEpisodes = 2
  StartTicks = 2
  StopQuiet = 1
  MaxCrashes = 1
  Slots <- MCSlots
  MaxRestarts = 1
  MaxDrops = 1
INVARIANTS
  MarkerOnlyInMotion
  BrokerAgrees
  FileListsExact
  OneWorkerPerSlot
  OneOpenMotion
PROPERTY QuietReachesBroker
