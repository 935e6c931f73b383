CONSTANTS
  k1 = k1
  x1 = x1
  r1 = r1
  r2 = r2
  c1 = c1
  d1 = d1
  d2 = d2
  Claim = {x1, c1}
  Rule = {r1, r2}
  Control = {k1}
  Bound <- BindsBoth
  Rank <- ByPrefix
  Decision = {d1, d2}
  Effects <- RatifyThenRetire
  NoOne = NoOne
  MaxRuns = 3
SPECIFICATION LifecycleSpec
PROPERTY ForwardOnly
