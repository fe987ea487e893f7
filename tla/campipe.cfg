SPECIFICATION CampipeSpec
CONSTANTS
  Configs <- MCConfigs
  FrameLen = 2
  PipeLen = 3
  CaptureLen = 2
  BlockLen = 3
  AiDepth = 1
  MutePeriod = 2
  BodyLen = 2
  FifoLen = 7
  StdioLen = 3
  MaxToggles = 2
  FrameBytes = 6
  IdleTicks = 3
  AoDepth = 2
  MaxBytes = 13
  MaxErrors = 1
  BackLen = 8
  Snappers = {s1, s2}
  MaxSnaps = 2
INVARIANTS
  ThreadsOnWhatIsUp
  NoSplice
  BlocksInOrder
  SourceInSync
  MutedSoon
  SnapsAccounted
  BufferInOrder
  AmpCoversPlayback
PROPERTIES
  StopEnds
  Implements
  SpeakerGoesQuiet
CHECK_DEADLOCK FALSE
