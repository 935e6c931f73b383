CONSTANTS
  Prefix <- MCPrefix
  Within <- MCWithin
  Chains <- MCChains
  Tokens <- MCTokens
  Leaf = 11
  Context = 6
  Envelopes <- MCEnvelopes
  Segments <- MCSegments
  Acta = 1
  Boot = 1
  Publish = 2
  Request = 3
  Deliver = 4
  MaxNow = 3
  MaxArrivals = 3
SPECIFICATION Spec
PROPERTY DropsAreCounted
CHECK_DEADLOCK FALSE
