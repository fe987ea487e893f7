SPECIFICATION Spec
CONSTANTS
  Marker <- MCMarker
  MaxEpisodes = 2
  StartTicks = 2
  StopQuiet = 1
  MaxCrashes = 0
  Slots <- MCSlots
  MaxRestarts = 0
  MaxDrops = 0
INVARIANT StartupRecovers
