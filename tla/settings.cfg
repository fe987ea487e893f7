SPECIFICATION Spec
CONSTANTS
  Caller <- MCCaller
  Family = "V2_ALT"
  Places <- MCPlaces
  QueueLen = 2
  MaxCalls = 2
  Key <- MCKey
  Value <- MCValue
  MaxCuts = 1
  Request <- MCRequest
  Folded <- MCFolded
  Strtol <- MCStrtol
  Locked <- MCLocked
  MaxLosses = 1
  Argv <- MCArgv
  MaxFaults = 1
  MaxEvents = 2
INVARIANTS
  DetectorsExclusive
  SettingsAgree
  FilesIntact
  ValidatedIsUnderstood
  Hears
PROPERTIES
  JumpToReportedStays
  ManualMotionEnds
  SigtermEnds
CHECK_DEADLOCK FALSE
