SPECIFICATION FairSpec
CONSTANTS
  MaxUploads = 2
  Chunks <- MCChunks
  MaxFaults = 1
  MaxAge = 1
  MaxDelay = 2
  TimeRange = 8
  Small = {s}
  Large = {l}
  NotText = {x}
  MaxPicks = 2
  NIL = NIL
INVARIANTS TypeOK RunsAreCharged ProcessedOnce LastAnswerIsProcessed ResultsAreFinal
PROPERTIES UploadsUnmixed UploadsEnd
CHECK_DEADLOCK FALSE
