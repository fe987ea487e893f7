SPECIFICATION Spec
CONSTANTS
  HourLen = 2
  MaxTime = 2
  Uploads = {FALSE}
  MaxIncidents = 0
PROPERTY OnlyOldestGo
