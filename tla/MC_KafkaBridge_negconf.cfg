CONSTANTS
  p1 = p1
  p2 = p2
  NoMsg = NoMsg
  Partitions <- MC_Partitions
  Unparsable <- MC_Unparsable
  LogEnd = 2
  ConfMaxInFlight <- MC_NegativeMaxInFlight
  MaxCrashes = 0
  MaxRebalances = 0

SPECIFICATION FairSpec

PROPERTY AllCommitted

CHECK_DEADLOCK FALSE
