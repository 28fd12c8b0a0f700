SPECIFICATION FairSpec
CONSTANTS
  Names = {a, b}
  Recs = {r1, r2, r3}
  Callers = {c1, c2}
  Nil = Nil
INVARIANT NoStrayFFmpeg
PROPERTIES StopReturns ImplementsService
CHECK_DEADLOCK TRUE
