SPECIFICATION ServerSpec
CONSTANTS
  Procs = {w1, w2}
  NoProc = none
  Listeners = 2
  MaxDisabled = 2
  EpollMayFail = TRUE
  Quitters = {w1}
  MaxFaults = 2
INVARIANTS
  NeverLeaked
  HeadMeant
  ServerMeant
  LocationMeant
  AccessEnforced
  DataConserved
  NothingStuck
PROPERTIES
  EveryCallReturns
CHECK_DEADLOCK FALSE
