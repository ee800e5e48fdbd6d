SPECIFICATION FairSpec
CONSTANTS
  Reqs = {r1, r2}
  N = 3
  MaxFails = 1
  NextOn = {"error", "timeout", "http_500"}
  HasLock = TRUE
  MaxBusy = 1
  MaxWaiting = 1
  LockTimeout = 2
  EarlyAnswers = FALSE
  Corked = FALSE
  PartialErrors = FALSE
INVARIANTS
  CleanRetries
  PeersTriedOnce
  WaitsBounded
PROPERTIES
  EveryRequestEnds
CHECK_DEADLOCK FALSE
