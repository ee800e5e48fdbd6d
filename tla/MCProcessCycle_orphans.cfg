SPECIFICATION Spec
CONSTANTS
  MaxProcesses = 4
  Workers = 1
  ChannelCap = 2
  Requests = {"quit", "terminate", "reconfigure", "reopen", "noaccept", "change_binary"}
  Early = {}
  MaxPid = 6
  MaxRequests = 3
  MaxCrashes = 1
  MaxFails = 0
INVARIANTS
  ExitsAfterWorkers
CHECK_DEADLOCK FALSE
