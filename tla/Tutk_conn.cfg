SPECIFICATION FairSpec
CONSTANTS
  BufSize = 2
  RawSize = 1
  FrameSlots = 1
  Nil = Nil
PROPERTIES CloseEndsAll CallsEnd
CHECK_DEADLOCK FALSE
