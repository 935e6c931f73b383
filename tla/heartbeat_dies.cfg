CONSTANTS
  Token <- MCToken
  LineEnd <- MCLineEnd
  Citizen = "cit"
  Context = "ctx"
  PublishAllow <- Granted
  AskedSubjects <- MCAsked
  Client = {c1}
  PendingCap = 1
  MaxRequests = 1
  LineKinds = {"fits"}
  PipeCap = 1
  MaxLines = 0
  MaxBeats = 3
  MaxFaults = 1
  Orphans = FALSE
SPECIFICATION Spec
INVARIANTS HeartbeatServes
