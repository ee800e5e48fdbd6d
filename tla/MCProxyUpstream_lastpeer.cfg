SPECIFICATION Spec
CONSTANTS
  Reqs = {r1}
  N = 2
  MaxFails = 1
  NextOn = {"error", "timeout", "http_500"}
  HasLock = FALSE
  MaxBusy = 1
  MaxWaiting = 1
  LockTimeout = 2
  EarlyAnswers = FALSE
  Corked = FALSE
  PartialErrors = FALSE
INVARIANTS
  EveryAttemptFresh
CHECK_DEADLOCK FALSE
