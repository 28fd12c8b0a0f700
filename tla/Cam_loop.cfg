SPECIFICATION Spec
CONSTANTS
  d1 = d1
  d2 = d2
  Devices = {d1, d2}
  Kind <- TutkAndGwell
  Names = {a, b}
  Objects = {o1, o2}
  Nil = Nil
  Loop = Loop
  Users = {}
  Quality = {hd}
  DefaultQuality = hd
  ChronicThreshold = 9
  FallbackThreshold = 1
  MaxErrors = 1
  Accounts <- AnyListing
  Commands = {}
  EarlyCommands = FALSE
  DeleteMayFail = FALSE
INVARIANTS OneEntryPerDevice  ToldStreamingIsStreaming 
SYMMETRY ObjectSymmetry
CHECK_DEADLOCK TRUE
