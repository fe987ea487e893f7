SPECIFICATION Spec
CONSTANTS
  MaxWait = 2
  MaxDeaths = 2
  MaxFails = 1
  MaxCrashes = 1
INVARIANTS
  AttachedIsCurrent
  SilentOnlyAfterWait
PROPERTIES
  ZombieKilled
  OpensReturn
