SPECIFICATION SystemSpec
CONSTANTS
  MaxProcesses = 4
  Workers = 1
  ChannelCap = 2
  Requests = {"quit", "terminate", "reconfigure", "reopen"}
  Early = {}
  MaxPid = 6
  MaxRequests = 2
  MaxCrashes = 2
  MaxFails = 0
INVARIANTS
  TypeOK
  ExitsAfterWorkers
  WorkersReplaced
  ServiceContinuity
  WatchedAreActive
  DeliveredToOwner
  ChangesKept
  TimersKept
  ResponseWhole
  ResponseTimed
  SessionKept
  Relayed
CHECK_DEADLOCK FALSE
