SPECIFICATION Spec
CONSTANTS
  MaxWait = 2
  MaxDeaths = 1
  MaxFails = 0
  MaxCrashes = 0
PROPERTY BackOnNewFifos
