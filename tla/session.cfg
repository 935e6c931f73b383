CONSTANTS
  Requests = {1, 2}
  MaxChunks <- MCMaxChunks
  PipeCap = 1
  InterruptAt = 1
  DiesBy = 1
SPECIFICATION FairSpec
INVARIANTS Streams RecordedIsWhole NoAnswerMissed AnswerIsOfItsTurn CleanIsComplete
PROPERTIES SupervisionEnds
CHECK_DEADLOCK FALSE
