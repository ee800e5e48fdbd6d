SPECIFICATION Spec
CONSTANTS
  Procs = {w1, w2}
  NoProc = none
  Listeners = 1
  MaxDisabled = 2
  EpollMayFail = FALSE
  Quitters = {}
  MaxFaults = 1
PROPERTIES
  OnlyOwnerReleases
