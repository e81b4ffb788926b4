CONSTANTS
  p1 = p1
  p2 = p2
  NoMsg = NoMsg
  Partitions <- MC_Partitions
  Unparsable <- MC_Unparsable
  LogEnd = 2
  ConfMaxInFlight = 2
  MaxCrashes = 0
  MaxRebalances = 1

SPECIFICATION Spec

INVARIANT AtMostOnceReplyPerRun

CHECK_DEADLOCK FALSE
