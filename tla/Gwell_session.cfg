SPECIFICATION FairSpec
CONSTANTS
  MaxSends = 3
  MaxRenewals = 2
INVARIANTS LeavesNothingOpen RenewalIsNew
PROPERTIES  CloseEndsRun
CHECK_DEADLOCK FALSE
