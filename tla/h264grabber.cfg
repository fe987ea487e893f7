SPECIFICATION Spec
CONSTANTS
  RecordNum = 4
  Wrap = 9
  Window = 2
  Patience = 3
  MaxFrames = 20
INVARIANTS
  RightFrame
  RepeatsOnlyAtWrap
PROPERTIES
  NoGap
  CatchesUp
