SPECIFICATION FairSpec
CONSTANTS
  NIL = NIL
  MaxSessions = 2
  Orders = 3
  BatchSize = 2
  ChannelSize = 1
INVARIANTS TypeOK PipelineInOrder AnsweredOnce
PROPERTIES TasksEnd AnsweredFeedsEnd CompletionArrives
CHECK_DEADLOCK FALSE
