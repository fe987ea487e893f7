SPECIFICATION Spec
CONSTANTS
  HourLen = 1
  MaxTime = 1
  Uploads = {TRUE, FALSE}
  MaxIncidents = 1
INVARIANTS
  RolloverReady
  NoDoubleUpload
  PassedIsKnown
PROPERTY OldestFirst
