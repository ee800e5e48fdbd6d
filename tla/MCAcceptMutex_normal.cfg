SPECIFICATION FairSpec
CONSTANTS
  Procs = {w1, w2, w3}
  NoProc = none
  Listeners = 2
  MaxDisabled = 0
  EpollMayFail = FALSE
  Quitters = {w1}
  MaxFaults = 2
INVARIANTS
  TypeOK
  AcceptsUnderLock
PROPERTIES
  OnlyOwnerReleases
  ImplementsLock
  SocketsServed
