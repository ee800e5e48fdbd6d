SPECIFICATION Spec
CONSTANTS
  Confs <- MCConfs
  Rotated = {"f2"}
  Tries = 2
  Connections = 5
  FirstPart = 2
  MaxFd = 7
  MaxMasters = 1
  MaxRequests = 2
  MaxFails = 0
PROPERTIES
  ReopenedAll
CHECK_DEADLOCK FALSE
