CONSTANTS
  c = c
  k = k
  d1 = d1
  d2 = d2
  Claim = {c}
  Rule = {}
  Control = {k}
  Bound <- NoRules
  Rank <- ByNumber
  Decision = {d1, d2}
  Effects <- Ratify
  NoOne = NoOne
  MaxRuns = 3
  InFlight = {c}
  MaxEdits = 1
SPECIFICATION Spec
INVARIANT IdentityIsContent
CHECK_DEADLOCK FALSE
