SPECIFICATION FairSpec
CONSTANTS
  MaxProcesses = 4
  Workers = 1
  ChannelCap = 2
  Requests = {"quit", "terminate", "reconfigure", "reopen", "noaccept", "change_binary"}
  Early = {"quit"}
  MaxPid = 6
  MaxRequests = 2
  MaxCrashes = 1
  MaxFails = 1
INVARIANTS
  ChildrenTracked
  ExitedMeansReaped
PROPERTIES
  NoSpawnWhileStopping
  StopExits
CHECK_DEADLOCK FALSE
