SPECIFICATION FairSpec
CONSTANTS
  p = p
  q = q
  Data <- Messages
  Script <- ThreeMessages
  SndWnd = 2
  RcvWnd = 2
  InitWnd = 2
  DirectWnd = 2
  Modes = {"plain", "data"}
  MaxFaults = 1
  MaxNet = 1
INVARIANT ReleasedIsHeld
PROPERTIES ImplementsFifo Delivered
CHECK_DEADLOCK TRUE
