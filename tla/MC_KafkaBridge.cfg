CONSTANTS
  p1 = p1
  p2 = p2
  NoMsg = NoMsg
  Partitions <- MC_Partitions
  Unparsable <- MC_Unparsable
  LogEnd = 3
  ConfMaxInFlight = 2
  MaxCrashes = 1
  MaxRebalances = 1

SPECIFICATION Spec

INVARIANT TypeOK
INVARIANT CapacityBound
INVARIANT NoPrematureCommit
INVARIANT ContextReplyOnce
INVARIANT NoLeakedContext
INVARIANT AckFindsContext
INVARIANT NoLostWakeup

CHECK_DEADLOCK FALSE
