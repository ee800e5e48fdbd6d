SPECIFICATION Spec
CONSTANTS
  Total = 6
  Size = 2
  Num = 2
  HeadRoom = 1
  BusySize = 2
  WriteSize = 4
  MaxFileSize = 4
INVARIANTS
  NothingLostWithFile
CHECK_DEADLOCK FALSE
