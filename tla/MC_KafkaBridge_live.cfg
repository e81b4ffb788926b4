CONSTANTS
  p1 = p1
  p2 = p2
  NoMsg = NoMsg
  Partitions <- MC_Partitions
  Unparsable <- MC_Unparsable
  LogEnd = 2
  ConfMaxInFlight = 1
  MaxCrashes = 1
  MaxRebalances = 1

SPECIFICATION FairSpec

PROPERTY AllCommitted

CHECK_DEADLOCK FALSE
