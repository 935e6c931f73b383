CONSTANTS
  c = c
  k = k
  d1 = d1
  d2 = d2
  Claim = {c}
  Rule = {}
  Control = {k}
  Bound <- NoRules
  Rank <- ByNumber
  Decision = {d1, d2}
  Effects <- RatifyThenRetire
  NoOne = NoOne
  MaxRuns = 4
  InFlight = {c}
  MaxEdits = 0
SPECIFICATION Spec
INVARIANT OneActPassesGate
CHECK_DEADLOCK FALSE
