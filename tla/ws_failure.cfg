SPECIFICATION Spec
CONSTANTS
  NIL = NIL
  MaxSessions = 2
  Orders = 3
  BatchSize = 2
  ChannelSize = 2
INVARIANT FailureLeavesAWayOut
CHECK_DEADLOCK FALSE
