CONSTANTS
  Token <- MCToken
  LineEnd <- MCLineEnd
  Citizen = "cit"
  Context = "CTX"
  PublishAllow <- GrantedUpper
  AskedSubjects <- MCAsked
  Client = {}
  PendingCap = 1
  MaxRequests = 0
  LineKinds = {"fits"}
  PipeCap = 1
  MaxLines = 1
  MaxBeats = 2
  MaxFaults = 0
  Orphans = FALSE
SPECIFICATION Spec
INVARIANTS CaptureCannotBeDisabled
