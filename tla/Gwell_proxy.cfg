SPECIFICATION FairSpec
CONSTANTS
  Cameras = {c1, c2}
  Servers = {s1, s2}
  Ticker = Ticker
  None = None
INVARIANTS UnlockedOnce 
PROPERTIES LockIsGranted FailureStartsOver ShutdownEnds
CHECK_DEADLOCK FALSE
