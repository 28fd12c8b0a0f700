SPECIFICATION Spec
CONSTANTS
  LastFrame = 5
  Channel <- Channel_
  Size <- Size_
  Time <- Time_
  SizeGiven = FALSE
  TsWrap = 3
  Capacity = 2
  Window = 3
  Nil = Nil
INVARIANTS FramesAreWhole WholeFramesGetThrough NewestIsKept TimeIsKept
CHECK_DEADLOCK FALSE
