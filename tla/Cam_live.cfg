SPECIFICATION FairSpec
CONSTANTS
  d1 = d1
  d2 = d2
  Devices = {d1}
  Kind <- AllTutk
  Names = {a}
  Objects = {o1}
  Nil = Nil
  Loop = Loop
  Users = {u1}
  Quality = {hd}
  DefaultQuality = hd
  ChronicThreshold = 9
  FallbackThreshold = 1
  MaxErrors = 1
  Accounts <- AnyListing
  Commands = {"stop"}
  EarlyCommands = FALSE
  DeleteMayFail = TRUE
PROPERTIES ErroredIsRetried  CommandsReturn
CHECK_DEADLOCK TRUE
