SPECIFICATION FairSpec
CONSTANTS
  Confs <- MCConfs
  Rotated = {"f2"}
  Tries = 2
  Connections = 5
  FirstPart = 2
  MaxFd = 7
  MaxMasters = 3
  MaxRequests = 3
  MaxFails = 1
INVARIANTS
  FdsConserved
  ReloadHarmless
PROPERTIES
  EveryReloadEnds
CHECK_DEADLOCK FALSE
