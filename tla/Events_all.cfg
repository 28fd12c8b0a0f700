SPECIFICATION FairSpec
CONSTANTS
  Cams = {c1}
  Nil = Nil
  LiveRing = TRUE
  RecentWindow = 4
  DedupeWindow = 3
  Page = 2
  MaxSeen = 3
  LiveDelay = 2
  ListDelay = 2
  MaxEvents = 4
  MaxPresses = 2
  MaxTime = 8
INVARIANTS OncePerEvent OnePressOneRing
PROPERTY InWindowIsDelivered
