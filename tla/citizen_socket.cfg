CONSTANTS
  Token <- MCToken
  LineEnd <- MCLineEnd
  Citizen = "cit"
  Context = "ctx"
  PublishAllow <- Granted
  AskedSubjects <- MCAsked
  Client = {c1, c2}
  PendingCap = 1
  MaxRequests = 1
  LineKinds = {"fits"}
  PipeCap = 1
  MaxLines = 0
  MaxBeats = 1
  MaxFaults = 1
  Orphans = FALSE
SYMMETRY Peers
SPECIFICATION Spec
INVARIANTS SeqFollowsOrder OkMeansAccepted GrantNotWidened CleanExitIsComplete
