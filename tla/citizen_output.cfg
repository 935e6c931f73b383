CONSTANTS
  Token <- MCToken
  LineEnd <- MCLineEnd
  Citizen = "cit"
  Context = "ctx"
  PublishAllow <- Granted
  AskedSubjects <- MCAsked
  Client = {}
  PendingCap = 1
  MaxRequests = 0
  LineKinds = {"fits", "long"}
  PipeCap = 1
  MaxLines = 2
  MaxBeats = 0
  MaxFaults = 1
  Orphans = TRUE
SPECIFICATION FairSpec
INVARIANTS CleanExitIsComplete
PROPERTIES ImplementsTelemetry PipeIsDrained CitizenEnds
